-------------------------- MODULE LspServerProofs --------------------------
EXTENDS LspServer, TLAPS

USE VersionsAssumption, BoundsAssumption, FileBackendAssumption,
    NotificationsAssumption, SessionsAssumption, NilAssumption

\* What a queued message carries follows from its kind.
LEMMA MessageFields ==
    ASSUME NEW m \in Message
    PROVE  /\ m.kind \in RequestKinds => m.id \in Ids
           /\ m.kind \in {"codeAction", "formatting"} => m \in Query
           /\ m.kind = "initialize" => m.dynamic \in BOOLEAN
           /\ m.kind \in {"didOpen", "didChange", "didClose"} => m.uri \in Uris
           /\ m.kind \in {"didOpen", "didChange"} =>
                [version |-> m.version, text |-> m.text] \in Document
           /\ m.kind = "didChangeWatchedFiles" => m.changes \in Seq(Files)
BY DEF Message, Query, Document, RequestKinds

\* A group of variables that a step leaves alone keeps its types.
LEMMA Unchanged ==
    /\ ServeTypes /\ UNCHANGED serveVars => ServeTypes'
    /\ InputTypes /\ UNCHANGED inputVars => InputTypes'
    /\ SessionTypes /\ UNCHANGED sessionVars => SessionTypes'
    /\ DocumentTypes /\ UNCHANGED documentVars => DocumentTypes'
    /\ AnalysisTypes /\ UNCHANGED analysisVars => AnalysisTypes'
    /\ FileTypes /\ UNCHANGED fileVars => FileTypes'
    /\ QueueTypes /\ UNCHANGED queueVars => QueueTypes'
    /\ RequestTypes /\ UNCHANGED requestVars => RequestTypes'
BY DEF ServeTypes, InputTypes, SessionTypes, DocumentTypes, AnalysisTypes, FileTypes,
       QueueTypes, RequestTypes, serveVars, inputVars, sessionVars, documentVars,
       analysisVars, fileVars, queueVars, requestVars

LEMMA TypeInit == Init => TypeOK
<1> SUFFICES ASSUME Init PROVE TypeOK
  OBVIOUS
<1>1. ServeTypes /\ InputTypes /\ SessionTypes
  <2>1. ServeTypes /\ SessionTypes
    BY DEF Init, ServeTypes, SessionTypes
  <2>2. readResults \in Seq(Message) /\ reading \in BOOLEAN
    BY DEF Init
  <2>3. sent \subseteq Ids /\ budget \in [InputKinds -> Nat]
    BY DEF Init
  <2> QED
    BY <2>1, <2>2, <2>3 DEF InputTypes
<1>2. DocumentTypes /\ AnalysisTypes /\ FileTypes
  BY DEF Init, DocumentTypes, Documents, Publication, AnalysisTypes, FileTypes, Changes,
         NoChanges
<1>3. QueueTypes /\ RequestTypes
  BY DEF Init, QueueTypes, RequestTypes
<1> QED
  BY <1>1, <1>2, <1>3 DEF TypeOK

LEMMA PendingIdsTypes ==
    ASSUME QueueTypes
    PROVE  PendingIds \subseteq Ids
<1> SUFFICES ASSUME NEW i \in DOMAIN pendingAnalysisRequests
             PROVE  pendingAnalysisRequests[i].id \in Ids
  BY DEF PendingIds
<1>1. pendingAnalysisRequests[i] \in Query
  BY DEF QueueTypes
<1> QED
  BY <1>1 DEF Query

LEMMA RejectedTypes ==
    ASSUME QueueTypes
    PROVE  RejectedAnswers \in [Ids -> Seq(Answer)]
<1> SUFFICES ASSUME NEW id \in Ids
             PROVE  RejectedAnswers[id] \in Seq(Answer)
  BY DEF RejectedAnswers
<1> DEFINE outcome == IF id \in pendingCancellations THEN "canceled" ELSE "modified"
<1>1. [outcome |-> outcome, document |-> Nil] \in Answer
  BY DEF Answer, Outcomes
<1>2. answers[id] \in Seq(Answer)
  BY DEF QueueTypes
<1>3. RejectedAnswers[id] =
        IF id \in PendingIds THEN Append(answers[id], [outcome |-> outcome, document |-> Nil])
                             ELSE answers[id]
  BY DEF RejectedAnswers
<1> HIDE DEF outcome
<1> QED
  BY <1>1, <1>2, <1>3

LEMMA RejectTypes ==
    ASSUME QueueTypes, RejectPending
    PROVE  QueueTypes'
BY PendingIdsTypes, RejectedTypes DEF QueueTypes, RejectPending

LEMMA CancelTypes ==
    ASSUME AnalysisTypes, NEW generation
    PROVE  Cancel(generation) \subseteq Worker
<1> SUFFICES ASSUME NEW w \in running
             PROVE  /\ w \in Worker
                    /\ [w EXCEPT !.canceled = TRUE] \in Worker
  BY DEF Cancel
<1> QED
  BY DEF AnalysisTypes, Worker

LEMMA StartTypes ==
    ASSUME AnalysisTypes, FileTypes, NEW request \in Request
    PROVE  running \cup {StartedWorker(request)} \subseteq Worker
<1>1. StartedWorker(request) \in Worker
  BY DEF FileTypes, Request, StartedWorker, Worker
<1> QED
  BY <1>1 DEF AnalysisTypes

LEMMA ScheduleTypes ==
    ASSUME QueueTypes, AnalysisTypes, FileTypes,
           NEW snapshot \in Documents, NEW debounce \in BOOLEAN, NEW generation \in Nat,
           NEW active \in Nat, NEW pending \in Request \cup {Nil},
           Schedule(snapshot, debounce, generation, active, pending)
    PROVE  /\ QueueTypes'
           /\ analyses' \in [Uris -> Texts \cup {Nil}]
           /\ analysisGeneration' \in Nat
           /\ analysisCancel' \in Nat
           /\ analysisPending' \in Request \cup {Nil}
           /\ running' \subseteq Worker
<1> DEFINE request == AnalysisRequest(generation + 1, snapshot, debounce)
<1>1. request \in Request
  BY DEF AnalysisRequest, Request
<1>2. QueueTypes'
  BY RejectTypes DEF Schedule
<1>3. analyses' \in [Uris -> Texts \cup {Nil}] /\ analysisGeneration' \in Nat
  BY DEF Schedule, NoAnalyses
<1>4. CASE active # 0
  BY <1>1, <1>2, <1>3, <1>4, CancelTypes DEF Schedule
<1>5. CASE active = 0
  <2>1. request.generation \in Nat
    BY DEF AnalysisRequest
  <2> HIDE DEF request
  <2>2. analysisCancel' \in Nat /\ running' \subseteq Worker
    BY <1>1, <1>5, <2>1, StartTypes DEF Schedule, Start, request
  <2> QED
    BY <1>2, <1>3, <1>5, <2>2 DEF Schedule
<1> QED
  BY <1>4, <1>5

LEMMA ReceiveTypes ==
    ASSUME TypeOK, NEW kinds, Receive(kinds)
    PROVE  /\ Message1 \in Message
           /\ Message1.kind \in kinds
           /\ InputTypes'
           /\ UNCHANGED <<ctxDone, inputOpen>>
           /\ status = "running"
BY DEF TypeOK, InputTypes, Receive, Selecting, Message1

LEMMA SpendTypes ==
    ASSUME InputTypes, NEW kind, Spend(kind)
    PROVE  budget' \in [InputKinds -> Nat]
<1>1. budget \in [InputKinds -> Nat]
  BY DEF InputTypes
<1>2. CASE kind \in InputKinds
  <2>1. budget[kind] - 1 \in Nat
    BY <1>1, <1>2 DEF Spend
  <2> QED
    BY <1>1, <2>1 DEF Spend
<1>3. CASE kind \notin InputKinds
  BY <1>1, <1>3 DEF Spend
<1> QED
  BY <1>2, <1>3

\* Fail changes only the status.
LEMMA FailTypes ==
    ASSUME TypeOK, Fail
    PROVE  /\ status' \in {"running", "exited", "failed"}
           /\ SessionTypes' /\ DocumentTypes' /\ AnalysisTypes' /\ FileTypes'
           /\ QueueTypes' /\ RequestTypes'
BY Unchanged DEF TypeOK, Fail

LEMMA AnsweredTypes ==
    ASSUME QueueTypes, NEW id, NEW outcome \in Outcomes, NEW document \in Document \cup {Nil}
    PROVE  Answered(id, outcome, document) \in [Ids -> Seq(Answer)]
<1>1. [outcome |-> outcome, document |-> document] \in Answer
  BY DEF Answer
<1>2. ASSUME id \in Ids
      PROVE  Append(answers[id], [outcome |-> outcome, document |-> document]) \in Seq(Answer)
  BY <1>1, <1>2 DEF QueueTypes
<1> QED
  BY <1>2 DEF QueueTypes, Answered

\* Messages that leave the analysis alone.
LEMMA TypeSessionMessages ==
    ASSUME TypeOK,
           \/ HandleResponse \/ HandleInitialize \/ HandleInitialized \/ HandleUnavailable
           \/ HandleUnknown \/ HandleInvalid \/ HandleEndOfInput
    PROVE  TypeOK'
<1> USE DEF ServeTypes
<1>1. CASE HandleResponse
  <2>1. CASE pendingClientRequests
    <3>1. SessionTypes'
      BY <1>1, <2>1 DEF HandleResponse, TypeOK, SessionTypes
    <3> QED
      BY <1>1, <2>1, <3>1, ReceiveTypes, Unchanged DEF HandleResponse, TypeOK, Continue
  <2>2. CASE ~pendingClientRequests
    BY <1>1, <2>2, ReceiveTypes, FailTypes DEF HandleResponse, TypeOK
  <2> QED
    BY <2>1, <2>2
<1>2. CASE HandleInitialize
  <2>1. Message1 \in Message /\ Message1.kind = "initialize"
    BY <1>2, ReceiveTypes DEF HandleInitialize
  <2>2. SessionTypes'
    BY <1>2, <2>1, MessageFields DEF HandleInitialize, TypeOK, SessionTypes
  <2>3. QueueTypes'
    BY <1>2, AnsweredTypes DEF HandleInitialize, TypeOK, QueueTypes, Outcomes
  <2> QED
    BY <1>2, <2>2, <2>3, ReceiveTypes, Unchanged DEF HandleInitialize, TypeOK, Continue
<1>3. CASE HandleInitialized
  <2>1. SessionTypes'
    BY <1>3 DEF HandleInitialized, TypeOK, SessionTypes
  <2> QED
    BY <1>3, <2>1, ReceiveTypes, Unchanged DEF HandleInitialized, TypeOK, Continue
<1>4. CASE HandleUnavailable
  <2>1. QueueTypes'
    BY <1>4, AnsweredTypes DEF HandleUnavailable, TypeOK, QueueTypes, Outcomes
  <2> QED
    BY <1>4, <2>1, ReceiveTypes, Unchanged DEF HandleUnavailable, TypeOK, Continue
<1>5. CASE HandleUnknown
  <2>1. QueueTypes'
    BY <1>5, AnsweredTypes DEF HandleUnknown, TypeOK, QueueTypes, Outcomes
  <2> QED
    BY <1>5, <2>1, ReceiveTypes, Unchanged DEF HandleUnknown, TypeOK, Continue
<1>6. CASE HandleInvalid
  BY <1>6, ReceiveTypes, FailTypes DEF HandleInvalid, TypeOK
<1>7. CASE HandleEndOfInput
  <2>1. InputTypes'
    BY <1>7 DEF HandleEndOfInput, Selecting, TypeOK, InputTypes
  <2> QED
    BY <1>7, <2>1, Unchanged DEF HandleEndOfInput, TypeOK
<1> QED
  BY <1>1, <1>2, <1>3, <1>4, <1>5, <1>6, <1>7

LEMMA TypeShutdown ==
    ASSUME TypeOK, HandleShutdown
    PROVE  TypeOK'
<1>1. InputTypes' /\ ServeTypes'
  BY ReceiveTypes DEF HandleShutdown, TypeOK, ServeTypes, Continue
<1>2. SessionTypes'
  BY DEF HandleShutdown, TypeOK, SessionTypes
<1>3. AnalysisTypes'
  BY CancelTypes DEF HandleShutdown, TypeOK, AnalysisTypes
<1>4. FileTypes'
  BY DEF HandleShutdown, TypeOK, FileTypes, Changes, NoChanges
<1>5. QueueTypes'
  <2> DEFINE answer == [outcome |-> "shutdown", document |-> Nil]
  <2>1. answer \in Answer
    BY DEF Answer, Outcomes
  <2>2. RejectedAnswers \in [Ids -> Seq(Answer)]
    BY RejectedTypes DEF TypeOK
  <2>3. answers' = [RejectedAnswers EXCEPT ![Message1.id] = Append(@, answer)]
    BY DEF HandleShutdown
  <2> HIDE DEF answer
  <2>4. ASSUME Message1.id \in Ids
        PROVE  Append(RejectedAnswers[Message1.id], answer) \in Seq(Answer)
    BY <2>1, <2>2, <2>4
  <2>5. answers' \in [Ids -> Seq(Answer)]
    BY <2>2, <2>3, <2>4
  <2> QED
    BY <2>5 DEF HandleShutdown, TypeOK, QueueTypes
<1> QED
  BY <1>1, <1>2, <1>3, <1>4, <1>5, Unchanged DEF HandleShutdown, TypeOK

LEMMA TypeExit ==
    ASSUME TypeOK, HandleExit
    PROVE  TypeOK'
<1>1. InputTypes' /\ ServeTypes'
  BY ReceiveTypes DEF HandleExit, TypeOK, ServeTypes
<1>2. AnalysisTypes'
  BY CancelTypes DEF HandleExit, TypeOK, AnalysisTypes
<1> QED
  BY <1>1, <1>2, Unchanged DEF HandleExit, TypeOK

\* The snapshot after a document is replaced or closed.
LEMMA SnapshotTypes ==
    ASSUME DocumentTypes, NEW uri, NEW document \in Document \cup {Nil}
    PROVE  [documents EXCEPT ![uri] = document] \in Documents
BY DEF DocumentTypes, Documents

LEMMA TypeDidOpen ==
    ASSUME TypeOK, HandleDidOpen
    PROVE  TypeOK'
<1> DEFINE document == [version |-> Message1.version, text |-> Message1.text]
           snapshot == [documents EXCEPT ![Message1.uri] = document]
<1>1. InputTypes' /\ ServeTypes'
  BY ReceiveTypes DEF HandleDidOpen, TypeOK, ServeTypes, Continue
<1>2. document \in Document
  BY ReceiveTypes, MessageFields DEF HandleDidOpen
<1>3. snapshot \in Documents
  BY <1>2, SnapshotTypes DEF TypeOK
<1>4. /\ documents' = snapshot
      /\ Schedule(snapshot, FALSE, analysisGeneration, analysisCancel, analysisPending)
  BY DEF HandleDidOpen
<1> HIDE DEF snapshot
<1>5. /\ analysisGeneration \in Nat /\ analysisCancel \in Nat
      /\ analysisPending \in Request \cup {Nil}
  BY DEF TypeOK, AnalysisTypes
<1>6. /\ QueueTypes'
      /\ analyses' \in [Uris -> Texts \cup {Nil}]
      /\ analysisGeneration' \in Nat
      /\ analysisCancel' \in Nat
      /\ analysisPending' \in Request \cup {Nil}
      /\ running' \subseteq Worker
  BY <1>3, <1>4, <1>5, ScheduleTypes DEF TypeOK
<1>7. DocumentTypes' /\ AnalysisTypes'
  BY <1>3, <1>4, <1>6 DEF HandleDidOpen, TypeOK, DocumentTypes, AnalysisTypes
<1> QED
  BY <1>1, <1>6, <1>7, Unchanged DEF HandleDidOpen, TypeOK

LEMMA TypeDidChange ==
    ASSUME TypeOK, HandleDidChange
    PROVE  TypeOK'
<1> DEFINE document == [version |-> Message1.version, text |-> Message1.text]
           snapshot == [documents EXCEPT ![Message1.uri] = document]
<1>1. InputTypes' /\ UNCHANGED <<ctxDone, inputOpen>>
  BY ReceiveTypes DEF HandleDidChange
<1>2. CASE Fail
  BY <1>1, <1>2, FailTypes DEF TypeOK, ServeTypes
<1>3. CASE ~Fail
  <2>1. document \in Document
    BY ReceiveTypes, MessageFields DEF HandleDidChange
  <2>2. snapshot \in Documents
    BY <2>1, SnapshotTypes DEF TypeOK
  <2>3. /\ documents' = snapshot
        /\ Schedule(snapshot, TRUE, analysisGeneration, analysisCancel, analysisPending)
        /\ Continue
        /\ UNCHANGED <<sessionVars, published, analysisResults, fileVars, requestVars>>
    BY <1>3 DEF HandleDidChange
  <2> HIDE DEF snapshot
  <2>4. /\ analysisGeneration \in Nat /\ analysisCancel \in Nat
        /\ analysisPending \in Request \cup {Nil}
    BY DEF TypeOK, AnalysisTypes
  <2>5. /\ QueueTypes'
        /\ analyses' \in [Uris -> Texts \cup {Nil}]
        /\ analysisGeneration' \in Nat
        /\ analysisCancel' \in Nat
        /\ analysisPending' \in Request \cup {Nil}
        /\ running' \subseteq Worker
    BY <2>2, <2>3, <2>4, ScheduleTypes DEF TypeOK
  <2>6. DocumentTypes' /\ AnalysisTypes'
    BY <2>2, <2>3, <2>5 DEF TypeOK, DocumentTypes, AnalysisTypes
  <2> QED
    BY <1>1, <2>3, <2>5, <2>6, Unchanged DEF TypeOK, ServeTypes, Continue
<1> QED
  BY <1>2, <1>3

LEMMA TypeDidClose ==
    ASSUME TypeOK, HandleDidClose
    PROVE  TypeOK'
<1> DEFINE snapshot == [documents EXCEPT ![Message1.uri] = Nil]
<1>1. InputTypes' /\ ServeTypes'
  BY ReceiveTypes DEF HandleDidClose, TypeOK, ServeTypes, Continue
<1>2. snapshot \in Documents
  BY SnapshotTypes DEF TypeOK
<1>3. /\ documents' \in Documents
      /\ published' \in [Uris -> Publication]
  BY <1>2 DEF HandleDidClose, TypeOK, DocumentTypes, Publication
<1>4. /\ QueueTypes'
      /\ analyses' \in [Uris -> Texts \cup {Nil}]
      /\ AnalysisTypes'
  <2>1. CASE \E u \in Uris : snapshot[u] # Nil
    <3>1. Schedule(snapshot, FALSE, analysisGeneration + 1, analysisCancel, Nil)
      BY <2>1 DEF HandleDidClose
    <3> HIDE DEF snapshot
    <3>2. analysisGeneration + 1 \in Nat /\ analysisCancel \in Nat
      BY DEF TypeOK, AnalysisTypes
    <3>3. /\ QueueTypes'
          /\ analyses' \in [Uris -> Texts \cup {Nil}]
          /\ analysisGeneration' \in Nat
          /\ analysisCancel' \in Nat
          /\ analysisPending' \in Request \cup {Nil}
          /\ running' \subseteq Worker
      BY <1>2, <3>1, <3>2, ScheduleTypes DEF TypeOK
    <3> QED
      BY <3>3 DEF HandleDidClose, TypeOK, AnalysisTypes
  <2>2. CASE ~\E u \in Uris : snapshot[u] # Nil
    <3>1. /\ RejectPending
          /\ analyses' = [analyses EXCEPT ![Message1.uri] = Nil]
          /\ analysisGeneration' = analysisGeneration + 1
          /\ analysisPending' = Nil
          /\ running' = Cancel(analysisCancel)
          /\ UNCHANGED <<analysisCancel, analysisResults>>
      BY <2>2 DEF HandleDidClose
    <3>2. AnalysisTypes'
      BY <3>1, CancelTypes DEF TypeOK, AnalysisTypes
    <3> QED
      BY <3>1, <3>2, RejectTypes DEF TypeOK, DocumentTypes
  <2> QED
    BY <2>1, <2>2
<1> QED
  BY <1>1, <1>3, <1>4, Unchanged DEF HandleDidClose, TypeOK, DocumentTypes

LEMMA FileChangeTypes ==
    ASSUME FileTypes, NEW list \in Seq(Files)
    PROVE  /\ WatchedFileChanges(list) \in Changes
           /\ QueuedChanges(WatchedFileChanges(list)) \in Changes
           /\ Notified(list) \in [Files -> Nat]
<1>1. WatchedFileChanges(list) \in Changes
  BY DEF WatchedFileChanges, Changes
<1>2. QueuedChanges(WatchedFileChanges(list)) \in Changes
  <2> DEFINE changes == WatchedFileChanges(list)
             paths == pendingWorkspaceChanges.paths \cup changes.paths
  <2>1. paths \subseteq Files
    BY <1>1 DEF FileTypes, Changes
  <2> HIDE DEF paths
  <2> SUFFICES [paths |-> {}, all |-> TRUE] \in Changes
               /\ [paths |-> paths, all |-> FALSE] \in Changes
    BY DEF QueuedChanges, paths
  <2> QED
    BY <2>1 DEF Changes
<1>3. Notified(list) \in [Files -> Nat]
  BY DEF FileTypes, Notified
<1> QED
  BY <1>1, <1>2, <1>3

LEMMA ToldTypes ==
    ASSUME FileTypes, NEW changes \in Changes, NEW counts \in [Files -> Nat]
    PROVE  Told(changes, counts) \in [Files -> Nat]
BY DEF FileTypes, Told

LEMMA TypeWatchedFiles ==
    ASSUME TypeOK, HandleWatchedFiles
    PROVE  TypeOK'
<1> DEFINE list == Message1.changes
           changes == WatchedFileChanges(list)
<1>1. InputTypes' /\ ServeTypes' /\ SessionTypes' /\ RequestTypes'
  <2>1. Continue
    BY DEF HandleWatchedFiles
  <2> QED
    BY <2>1, ReceiveTypes, Unchanged DEF HandleWatchedFiles, TypeOK, ServeTypes, Continue
<1>2. list \in Seq(Files)
  <2>1. Message1 \in Message /\ Message1.kind = "didChangeWatchedFiles"
    BY ReceiveTypes DEF HandleWatchedFiles
  <2> QED
    BY <2>1, MessageFields
<1>3. /\ changes \in Changes
      /\ QueuedChanges(changes) \in Changes
      /\ Notified(list) \in [Files -> Nat]
  BY <1>2, FileChangeTypes DEF TypeOK
<1>4. Told(changes, Notified(list)) \in [Files -> Nat]
  BY <1>3, ToldTypes DEF TypeOK
<1>5. CASE UNCHANGED <<documentVars, analysisVars, fileVars, queueVars>>
  BY <1>1, <1>5, Unchanged DEF TypeOK
<1>6. CASE /\ analysisCancel # 0
           /\ notified' = Notified(list)
           /\ RejectPending
           /\ analysisGeneration' = analysisGeneration + 1
           /\ analysisPending' = Nil
           /\ running' = Cancel(analysisCancel)
           /\ analyses' = NoAnalyses
           /\ pendingWorkspaceChanges' = QueuedChanges(changes)
           /\ UNCHANGED <<documents, published, analysisCancel, analysisResults, told>>
  <2>1. DocumentTypes' /\ QueueTypes'
    BY <1>6, RejectTypes DEF TypeOK, DocumentTypes, NoAnalyses
  <2>2. AnalysisTypes'
    BY <1>6, CancelTypes DEF TypeOK, AnalysisTypes
  <2>3. FileTypes'
    BY <1>3, <1>6 DEF TypeOK, FileTypes
  <2> QED
    BY <1>1, <2>1, <2>2, <2>3 DEF TypeOK
<1>7. CASE /\ analysisCancel = 0
           /\ notified' = Notified(list)
           /\ told' = Told(changes, Notified(list))
           /\ UNCHANGED <<documents, published, analysisResults, pendingWorkspaceChanges>>
           /\ Schedule(documents, TRUE, analysisGeneration + 1, 0, Nil)
  <2>1. /\ analysisGeneration + 1 \in Nat
        /\ documents \in Documents
    BY DEF TypeOK, AnalysisTypes, DocumentTypes
  <2>2. /\ QueueTypes'
        /\ analyses' \in [Uris -> Texts \cup {Nil}]
        /\ analysisGeneration' \in Nat
        /\ analysisCancel' \in Nat
        /\ analysisPending' \in Request \cup {Nil}
        /\ running' \subseteq Worker
    BY <1>7, <2>1, ScheduleTypes DEF TypeOK
  <2>3. DocumentTypes' /\ AnalysisTypes'
    BY <1>7, <2>2 DEF TypeOK, DocumentTypes, AnalysisTypes
  <2>4. FileTypes'
    BY <1>3, <1>4, <1>7 DEF TypeOK, FileTypes
  <2> QED
    BY <1>1, <2>2, <2>3, <2>4 DEF TypeOK
<1>8. CASE /\ notified' = Notified(list)
           /\ told' = Told(changes, Notified(list))
           /\ UNCHANGED <<documents, published, analysisResults, pendingWorkspaceChanges>>
           /\ RejectPending
           /\ analysisGeneration' = analysisGeneration + 1
           /\ analysisPending' = Nil
           /\ analyses' = NoAnalyses
           /\ UNCHANGED <<analysisCancel, running>>
  <2>1. DocumentTypes' /\ AnalysisTypes' /\ QueueTypes'
    BY <1>8, RejectTypes DEF TypeOK, DocumentTypes, AnalysisTypes, NoAnalyses
  <2>2. FileTypes'
    BY <1>3, <1>4, <1>8 DEF TypeOK, FileTypes
  <2> QED
    BY <1>1, <2>1, <2>2 DEF TypeOK
<1> QED
  BY <1>5, <1>6, <1>7, <1>8 DEF HandleWatchedFiles

LEMMA TypeWatchedFilesFails ==
    ASSUME TypeOK, HandleWatchedFilesFails
    PROVE  TypeOK'
BY ReceiveTypes, FailTypes DEF HandleWatchedFilesFails, TypeOK, ServeTypes

LEMMA BeginTypes ==
    ASSUME TypeOK, NEW request \in Query, Begin(request)
    PROVE  /\ call' \in Call
           /\ pendingCancellations' \subseteq Ids
BY DEF Begin, Call, TypeOK, QueueTypes

LEMMA TypeCodeAction ==
    ASSUME TypeOK, HandleCodeAction
    PROVE  TypeOK'
<1>1. InputTypes' /\ ServeTypes'
  BY ReceiveTypes DEF HandleCodeAction, TypeOK, ServeTypes, Continue
<1>2. Message1 \in Query
  BY ReceiveTypes, MessageFields DEF HandleCodeAction
<1>3. asked' \in [Ids -> Document \cup {Nil}]
  BY <1>2 DEF HandleCodeAction, TypeOK, RequestTypes, DocumentTypes, Documents, Query
<1>4. QueueTypes' /\ call' \in Call \cup {Nil}
  <2>1. CASE answers' = Answered(Message1.id, "tooMany", Nil)
             /\ UNCHANGED <<pendingAnalysisRequests, pendingCancellations, call>>
    <3>1. answers' \in [Ids -> Seq(Answer)]
      BY <2>1, AnsweredTypes DEF TypeOK, Outcomes
    <3> QED
      BY <2>1, <3>1 DEF TypeOK, QueueTypes, RequestTypes
  <2>2. CASE pendingAnalysisRequests' = Append(pendingAnalysisRequests, Message1)
             /\ UNCHANGED <<answers, pendingCancellations, call>>
    BY <1>2, <2>2 DEF TypeOK, QueueTypes, RequestTypes
  <2>3. CASE Begin(Message1) /\ UNCHANGED <<answers, pendingAnalysisRequests>>
    BY <1>2, <2>3, BeginTypes DEF TypeOK, QueueTypes
  <2> QED
    BY <2>1, <2>2, <2>3 DEF HandleCodeAction
<1>5. RequestTypes'
  BY <1>3, <1>4 DEF HandleCodeAction, TypeOK, RequestTypes
<1> QED
  BY <1>1, <1>4, <1>5, Unchanged DEF HandleCodeAction, TypeOK

LEMMA TypeFormatting ==
    ASSUME TypeOK, HandleFormatting
    PROVE  TypeOK'
<1>1. InputTypes' /\ ServeTypes'
  BY ReceiveTypes DEF HandleFormatting, TypeOK, ServeTypes, Continue
<1>2. Message1 \in Query
  BY ReceiveTypes, MessageFields DEF HandleFormatting
<1>3. asked' \in [Ids -> Document \cup {Nil}]
  BY <1>2 DEF HandleFormatting, TypeOK, RequestTypes, DocumentTypes, Documents, Query
<1>4. QueueTypes' /\ RequestTypes'
  BY <1>2, <1>3, BeginTypes DEF HandleFormatting, TypeOK, QueueTypes, RequestTypes
<1> QED
  BY <1>1, <1>4, Unchanged DEF HandleFormatting, TypeOK

LEMMA CompleteTypes ==
    ASSUME TypeOK, Complete
    PROVE  /\ InputTypes' /\ SessionTypes'
           /\ UNCHANGED <<ctxDone, inputOpen, documents, notified, asked, canceledIds, call>>
           /\ analysisResults # <<>>
           /\ analysisResults' \in Seq(Completion)
           /\ Completed \in Completion
           /\ status = "running"
<1>1. InputTypes' /\ SessionTypes'
  BY Unchanged DEF TypeOK, Complete
<1>2. analysisResults \in Seq(Completion) /\ analysisResults # <<>>
  BY DEF TypeOK, AnalysisTypes, Complete
<1> QED
  BY <1>1, <1>2 DEF Complete, Completed, Selecting

LEMMA FinishCycleTypes ==
    ASSUME TypeOK, FinishCycle
    PROVE  QueueTypes' /\ cycle' \in Seq(Query)
BY DEF TypeOK, FinishCycle, QueueTypes

LEMMA TypeCompleteWithFileChanges ==
    ASSUME TypeOK, CompleteWithFileChanges
    PROVE  TypeOK'
<1>1. /\ InputTypes' /\ SessionTypes'
      /\ UNCHANGED <<ctxDone, inputOpen, documents, notified, asked, canceledIds, call>>
      /\ analysisResults' \in Seq(Completion)
  BY CompleteTypes DEF CompleteWithFileChanges
<1>2. ServeTypes'
  BY <1>1 DEF CompleteWithFileChanges, TypeOK, ServeTypes, Continue
<1>3. FileTypes'
  <2>1. Told(pendingWorkspaceChanges, notified) \in [Files -> Nat]
    BY ToldTypes DEF TypeOK, FileTypes
  <2> QED
    BY <1>1, <2>1 DEF CompleteWithFileChanges, TypeOK, FileTypes, Changes, NoChanges
<1>4. /\ analyses' \in [Uris -> Texts \cup {Nil}]
      /\ AnalysisTypes'
      /\ QueueTypes'
      /\ cycle' \in Seq(Query)
  <2>1. CASE Schedule(documents, TRUE, analysisGeneration, 0, Nil) /\ UNCHANGED cycle
    <3>1. /\ analysisGeneration \in Nat
          /\ documents \in Documents
      BY DEF TypeOK, AnalysisTypes, DocumentTypes
    <3>2. /\ QueueTypes'
          /\ analyses' \in [Uris -> Texts \cup {Nil}]
          /\ analysisGeneration' \in Nat
          /\ analysisCancel' \in Nat
          /\ analysisPending' \in Request \cup {Nil}
          /\ running' \subseteq Worker
      BY <2>1, <3>1, ScheduleTypes DEF TypeOK
    <3> QED
      BY <1>1, <2>1, <3>2 DEF TypeOK, AnalysisTypes, RequestTypes
  <2>2. CASE /\ analysisPending' = Nil
             /\ analysisCancel' = 0
             /\ (UNCHANGED <<cycle, queueVars>>) \/ FinishCycle
             /\ UNCHANGED <<analyses, analysisGeneration, running>>
    <3>1. QueueTypes' /\ cycle' \in Seq(Query)
      BY <2>2, FinishCycleTypes, Unchanged DEF TypeOK, RequestTypes
    <3> QED
      BY <1>1, <2>2, <3>1 DEF TypeOK, AnalysisTypes, DocumentTypes
  <2>3. CASE /\ analysisCancel' = 0
             /\ UNCHANGED <<analyses, analysisGeneration, analysisPending, running, cycle,
                            queueVars>>
    BY <1>1, <2>3, Unchanged DEF TypeOK, AnalysisTypes, DocumentTypes, RequestTypes
  <2> QED
    BY <2>1, <2>2, <2>3 DEF CompleteWithFileChanges
<1>5. DocumentTypes'
  BY <1>1, <1>4 DEF CompleteWithFileChanges, TypeOK, DocumentTypes
<1>6. RequestTypes'
  BY <1>1, <1>4 DEF TypeOK, RequestTypes
<1> QED
  BY <1>1, <1>2, <1>3, <1>4, <1>5, <1>6 DEF TypeOK

LEMMA PublishedTypes ==
    ASSUME TypeOK, NEW completion \in Completion
    PROVE  /\ PublishedAnalyses(completion) \in [Uris -> Texts \cup {Nil}]
           /\ PublishedDiagnostics(completion) \in [Uris -> Publication]
<1>1. ASSUME NEW u \in Uris, completion.documents[u] # Nil
      PROVE  completion.documents[u] \in Document
  BY <1>1 DEF Completion, Documents
<1>2. PublishedAnalyses(completion) \in [Uris -> Texts \cup {Nil}]
  BY <1>1 DEF TypeOK, DocumentTypes, PublishedAnalyses, Document
<1>3. PublishedDiagnostics(completion) \in [Uris -> Publication]
  BY <1>1 DEF TypeOK, DocumentTypes, PublishedDiagnostics, Publication
<1> QED
  BY <1>2, <1>3

LEMMA TypeCompleteSuperseded ==
    ASSUME TypeOK, CompleteSuperseded
    PROVE  TypeOK'
<1>1. /\ InputTypes' /\ SessionTypes'
      /\ UNCHANGED <<ctxDone, inputOpen, documents, notified, asked, canceledIds, call>>
      /\ analysisResults' \in Seq(Completion)
  BY CompleteTypes DEF CompleteSuperseded
<1>2. ServeTypes' /\ FileTypes' /\ DocumentTypes'
  BY <1>1 DEF CompleteSuperseded, TypeOK, ServeTypes, FileTypes, DocumentTypes, Continue
<1>3. CASE analysisPending # Nil
  <2>1. analysisPending \in Request
    BY <1>3 DEF TypeOK, AnalysisTypes
  <2>2. analysisCancel' \in Nat
    BY <1>3, <2>1 DEF CompleteSuperseded, Start, Request
  <2>3. running' \subseteq Worker
    BY <1>3, <2>1, StartTypes DEF CompleteSuperseded, Start, TypeOK
  <2>4. AnalysisTypes'
    BY <1>1, <1>3, <2>2, <2>3 DEF CompleteSuperseded, TypeOK, AnalysisTypes
  <2>5. QueueTypes' /\ RequestTypes'
    BY <1>1, <1>3, Unchanged DEF CompleteSuperseded, TypeOK, RequestTypes
  <2> QED
    BY <1>1, <1>2, <2>4, <2>5 DEF TypeOK
<1>4. CASE analysisPending = Nil
  <2>1. AnalysisTypes'
    BY <1>1, <1>4 DEF CompleteSuperseded, TypeOK, AnalysisTypes
  <2>2. QueueTypes' /\ RequestTypes'
    BY <1>1, <1>4, FinishCycleTypes DEF CompleteSuperseded, TypeOK, RequestTypes
  <2> QED
    BY <1>1, <1>2, <2>1, <2>2 DEF TypeOK
<1> QED
  BY <1>3, <1>4

LEMMA TypeCompleteNewest ==
    ASSUME TypeOK, CompleteCanceled \/ CompleteFailed \/ CompleteCurrent
    PROVE  TypeOK'
<1>1. /\ InputTypes' /\ SessionTypes'
      /\ UNCHANGED <<ctxDone, inputOpen, documents, notified, asked, canceledIds, call>>
      /\ analysisResults' \in Seq(Completion)
      /\ Completed \in Completion
  BY CompleteTypes DEF CompleteCanceled, CompleteFailed, CompleteCurrent
<1>2. ServeTypes' /\ FileTypes' /\ AnalysisTypes'
  BY <1>1 DEF CompleteCanceled, CompleteFailed, CompleteCurrent, TypeOK, ServeTypes,
              FileTypes, AnalysisTypes, Continue
<1>3. QueueTypes' /\ cycle' \in Seq(Query)
  <2>1. CASE FinishCycle
    BY <2>1, FinishCycleTypes
  <2>2. CASE UNCHANGED <<cycle, queueVars>>
    BY <2>2, Unchanged DEF TypeOK, RequestTypes
  <2>3. CASE RejectPending /\ cycle' = <<>>
    BY <2>3, RejectTypes DEF TypeOK
  <2> QED
    BY <2>1, <2>2, <2>3 DEF CompleteCanceled, CompleteFailed, CompleteCurrent
<1>4. DocumentTypes'
  <2>1. CASE UNCHANGED <<analyses, published>>
    BY <1>1, <2>1 DEF TypeOK, DocumentTypes
  <2>2. CASE /\ analyses' = PublishedAnalyses(Completed)
             /\ published' = PublishedDiagnostics(Completed)
    BY <1>1, <2>2, PublishedTypes DEF TypeOK, DocumentTypes
  <2> QED
    BY <2>1, <2>2 DEF CompleteCanceled, CompleteFailed, CompleteCurrent
<1>5. RequestTypes'
  BY <1>1, <1>3 DEF TypeOK, RequestTypes
<1> QED
  BY <1>1, <1>2, <1>3, <1>4, <1>5 DEF TypeOK

\* A request reaches the backend only for an open document, and a code action only
\* with that document's analysis; both stay until the request is answered.
CallReady == call # Nil /\ call.phase \in {"backend", "returned"} => Answerable

LEMMA TypeRequestSteps ==
    ASSUME TypeOK, CallReady,
           \/ ServeNext \/ CheckRequest \/ CallBackend \/ BackendReturns \/ Respond
           \/ FinishRequest
    PROVE  TypeOK'
<1>1. CASE ServeNext
  <2>1. Head(cycle) \in Query /\ cycle' \in Seq(Query)
    BY <1>1 DEF ServeNext, TypeOK, RequestTypes
  <2>2. QueueTypes' /\ RequestTypes'
    BY <1>1, <2>1, BeginTypes DEF ServeNext, TypeOK, QueueTypes, RequestTypes
  <2> QED
    BY <1>1, <2>2, Unchanged DEF ServeNext, TypeOK
<1>2. ASSUME NEW outcome \in Outcomes, NEW document \in Document \cup {Nil}, call # Nil,
             Responding(outcome, document)
      PROVE  /\ answers' \in [Ids -> Seq(Answer)]
             /\ call' \in Call
             /\ UNCHANGED status
  <2>1. answers' \in [Ids -> Seq(Answer)]
    BY <1>2, AnsweredTypes DEF Responding, TypeOK
  <2>2. call \in Call
    BY <1>2 DEF TypeOK, RequestTypes
  <2> QED
    BY <1>2, <2>1, <2>2 DEF Responding, Continue, Call
<1>3. ASSUME call # Nil, NEW phase \in {"checked", "backend", "returned"},
             call' = [call EXCEPT !.phase = phase], Continue, UNCHANGED answers
      PROVE  /\ answers' \in [Ids -> Seq(Answer)]
             /\ call' \in Call
             /\ UNCHANGED status
  <2>1. call \in Call
    BY <1>3 DEF TypeOK, RequestTypes
  <2> QED
    BY <1>3, <2>1 DEF Call, Continue, TypeOK, QueueTypes
<1>4. ASSUME CheckRequest \/ CallBackend \/ BackendReturns \/ Respond,
             answers' \in [Ids -> Seq(Answer)], call' \in Call \cup {Nil},
             status' \in {"running", "exited", "failed"}
      PROVE  TypeOK'
  BY <1>4, Unchanged DEF CheckRequest, CallBackend, BackendReturns, Respond, ServeStep,
     TypeOK, ServeTypes, QueueTypes, RequestTypes
<1>5. {"canceled", "invalid", "none", "internal", "actions", "edits"} \subseteq Outcomes
  BY DEF Outcomes
<1>6. status \in {"running", "exited", "failed"}
  BY DEF TypeOK, ServeTypes
<1>7. CASE CheckRequest
  <2>1. CASE Responding("canceled", Nil)
    BY <1>2, <1>4, <1>5, <1>6, <1>7, <2>1 DEF CheckRequest
  <2>2. CASE call' = [call EXCEPT !.phase = "checked"] /\ Continue /\ UNCHANGED answers
    BY <1>3, <1>4, <1>6, <1>7, <2>2 DEF CheckRequest
  <2> QED
    BY <1>7, <2>1, <2>2 DEF CheckRequest
<1>8. CASE CallBackend
  <2>1. CASE Responding("invalid", Nil) \/ Responding("none", Nil)
    BY <1>2, <1>4, <1>5, <1>6, <1>8, <2>1 DEF CallBackend
  <2>2. CASE call' = [call EXCEPT !.phase = "backend"] /\ Continue /\ UNCHANGED answers
    BY <1>3, <1>4, <1>6, <1>8, <2>2 DEF CallBackend
  <2> QED
    BY <1>8, <2>1, <2>2 DEF CallBackend
<1>9. CASE BackendReturns
  <2>1. CASE status' = "failed" /\ UNCHANGED <<answers, call>>
    BY <1>4, <1>9, <2>1 DEF TypeOK, QueueTypes, RequestTypes
  <2>2. CASE Responding("canceled", Nil)
    BY <1>2, <1>4, <1>5, <1>6, <1>9, <2>2 DEF BackendReturns
  <2>3. CASE call' = [call EXCEPT !.phase = "returned"] /\ Continue /\ UNCHANGED answers
    BY <1>3, <1>4, <1>6, <1>9, <2>3 DEF BackendReturns
  <2> QED
    BY <1>9, <2>1, <2>2, <2>3 DEF BackendReturns
<1>10. CASE Respond
  <2> DEFINE uri == call.request.uri
             analyzed == [version |-> documents[uri].version, text |-> analyses[uri]]
  <2>1. call # Nil /\ call \in Call /\ call.phase = "returned"
    BY <1>10 DEF Respond, TypeOK, RequestTypes
  <2>2. Answerable
    BY <2>1 DEF CallReady
  <2>3. uri \in Uris
    BY <2>1 DEF Call, Query
  <2>4. documents[uri] \in Document
    BY <2>2, <2>3 DEF TypeOK, DocumentTypes, Documents, Answerable
  <2>5. call.request.kind = "codeAction" => analyzed \in Document
    <3> SUFFICES ASSUME call.request.kind = "codeAction"
                 PROVE  analyzed \in Document
      OBVIOUS
    <3>1. analyses[uri] \in Texts
      BY <2>2, <2>3 DEF TypeOK, DocumentTypes, Answerable
    <3> QED
      BY <2>4, <3>1 DEF Document
  <2> HIDE DEF analyzed
  <2>6. CASE Responding("internal", Nil)
    BY <1>2, <1>4, <1>5, <1>6, <1>10, <2>1, <2>6
  <2>7. CASE call.request.kind = "codeAction" /\ Responding("actions", analyzed)
    BY <1>2, <1>4, <1>5, <1>6, <1>10, <2>1, <2>5, <2>7
  <2>8. CASE Responding("edits", documents[uri])
    BY <1>2, <1>4, <1>5, <1>6, <1>10, <2>1, <2>4, <2>8
  <2> QED
    BY <1>10, <2>6, <2>7, <2>8 DEF Respond, analyzed
<1>11. CASE FinishRequest
  BY <1>11, Unchanged DEF FinishRequest, TypeOK, RequestTypes
<1> QED
  BY <1>1, <1>7, <1>8, <1>9, <1>10, <1>11

LEMMA TypeEnds ==
    ASSUME TypeOK, ReturnAfterDrain \/ ReturnContextError \/ EndContext \/ OutputFails
    PROVE  TypeOK'
<1>2. CASE ReturnAfterDrain
  BY <1>2, Unchanged DEF ReturnAfterDrain, TypeOK, ServeTypes
<1>3. CASE ReturnContextError
  BY <1>3, FailTypes, Unchanged DEF ReturnContextError, TypeOK, ServeTypes
<1>4. CASE EndContext
  <2>1. budget' \in [InputKinds -> Nat]
    BY <1>4, SpendTypes DEF EndContext, TypeOK
  <2> QED
    BY <1>4, <2>1, Unchanged DEF EndContext, TypeOK, ServeTypes, InputTypes
<1>5. CASE OutputFails
  <2>1. budget' \in [InputKinds -> Nat]
    BY <1>5, SpendTypes DEF OutputFails, TypeOK
  <2> QED
    BY <1>5, <2>1, FailTypes DEF OutputFails, TypeOK, ServeTypes, InputTypes
<1> QED
  BY <1>2, <1>3, <1>4, <1>5

LEMMA TypeRunAnalysis ==
    ASSUME TypeOK, RunAnalysis
    PROVE  TypeOK'
<1> PICK w \in running : WorkerBegin(w) \/ WorkerAbandon(w) \/ WorkerFinish(w) \/ WorkerDrop(w)
  BY DEF RunAnalysis
<1>1. w \in Worker
  BY DEF TypeOK, AnalysisTypes
<1>2. WorkerStep
  BY DEF WorkerBegin, WorkerAbandon, WorkerFinish, WorkerDrop
<1>3. budget' \in [InputKinds -> Nat]
  <2>1. budget \in [InputKinds -> Nat]
    BY DEF TypeOK, InputTypes
  <2>2. budget' = budget \/ Spend("analysisError")
    BY DEF WorkerBegin, WorkerAbandon, WorkerFinish, WorkerDrop
  <2> QED
    BY <2>1, <2>2, SpendTypes DEF TypeOK
<1>4. ASSUME NEW outcome \in {"results", "canceled", "failed", "invalid"},
             NEW errors \in SUBSET Uris, Post(w, outcome, errors)
      PROVE  running' \subseteq Worker /\ analysisResults' \in Seq(Completion)
  <2> DEFINE completion == [generation |-> w.generation, documents |-> w.documents,
                            basis |-> w.basis, outcome |-> outcome, errors |-> errors]
  <2>1. completion \in Completion
    BY <1>1, <1>4 DEF Worker, Completion
  <2>2. analysisResults' = Append(analysisResults, completion)
    BY <1>4 DEF Post
  <2> HIDE DEF completion
  <2> QED
    BY <1>4, <2>1, <2>2 DEF Post, TypeOK, AnalysisTypes
<1>5. running' \subseteq Worker /\ analysisResults' \in Seq(Completion)
  <2>1. CASE WorkerBegin(w)
    <3>1. [w EXCEPT !.phase = "analyzing", !.basis = told] \in Worker
      BY <1>1 DEF Worker, TypeOK, FileTypes
    <3> QED
      BY <2>1, <3>1 DEF WorkerBegin, TypeOK, AnalysisTypes
  <2>2. CASE WorkerAbandon(w)
    BY <1>4, <2>2 DEF WorkerAbandon
  <2>3. CASE WorkerFinish(w)
    <3>1. {u \in Uris : w.documents[u] # Nil} \subseteq Uris
      OBVIOUS
    <3> QED
      BY <1>4, <2>3, <3>1 DEF WorkerFinish
  <2>4. CASE WorkerDrop(w)
    BY <2>4 DEF WorkerDrop, TypeOK, AnalysisTypes
  <2> QED
    BY <2>1, <2>2, <2>3, <2>4
<1>6. AnalysisTypes' /\ InputTypes'
  BY <1>2, <1>3, <1>5 DEF WorkerStep, TypeOK, AnalysisTypes, InputTypes
<1> QED
  BY <1>2, <1>6, Unchanged DEF WorkerStep, TypeOK

LEMMA TypeReader ==
    ASSUME TypeOK, Reader
    PROVE  TypeOK'
<1>1. ASSUME NEW m \in Message, Read(m)
      PROVE  TypeOK'
  <2>1. sent' \subseteq Ids
    <3>1. m.kind \in RequestKinds => m.id \in Ids
      BY MessageFields
    <3>2. IF m.kind \in RequestKinds
            THEN m.id \notin sent /\ sent' = sent \cup {m.id}
            ELSE UNCHANGED sent
      BY <1>1 DEF Read
    <3>3. sent \subseteq Ids
      BY DEF TypeOK, InputTypes
    <3> QED
      BY <3>1, <3>2, <3>3
  <2>2. budget' \in [InputKinds -> Nat]
    BY <1>1, SpendTypes DEF Read, TypeOK
  <2>3. reading' \in BOOLEAN /\ readResults' \in Seq(Message)
    <3>1. readResults' = Append(readResults, m) /\ reading' \in BOOLEAN
      BY <1>1 DEF Read
    <3> QED
      BY <3>1 DEF TypeOK, InputTypes
  <2>4. InputTypes'
    BY <2>1, <2>2, <2>3 DEF InputTypes
  <2> QED
    BY <1>1, <2>4, Unchanged DEF Read, TypeOK
<1>2. ASSUME NEW id \in Ids, ReadCancel(id)
      PROVE  TypeOK'
  <2> DEFINE error == [kind |-> "readError"]
  <2>1. error \in Message
    BY DEF Message
  <2>2. InputTypes'
    <3>1. budget' \in [InputKinds -> Nat]
      BY <1>2, SpendTypes DEF ReadCancel, TypeOK
    <3>2. reading' \in BOOLEAN /\ readResults' \in Seq(Message)
      <4>1. \/ UNCHANGED <<reading, readResults>>
            \/ readResults' = Append(readResults, error) /\ reading' = FALSE
        BY <1>2 DEF ReadCancel
      <4> HIDE DEF error
      <4>2. reading \in BOOLEAN /\ readResults \in Seq(Message)
        BY DEF TypeOK, InputTypes
      <4>3. reading' \in BOOLEAN
        BY <4>1, <4>2
      <4>4. readResults' \in Seq(Message)
        BY <2>1, <4>1, <4>2
      <4> QED
        BY <4>3, <4>4
    <3> QED
      BY <1>2, <3>1, <3>2 DEF ReadCancel, TypeOK, InputTypes
  <2>3. pendingCancellations' \subseteq Ids /\ canceledIds' \subseteq Ids
    BY <1>2 DEF ReadCancel, RecordCancellation, TypeOK, QueueTypes, RequestTypes
  <2>4. call' \in Call \cup {Nil}
    <3>1. call # Nil => [call EXCEPT !.canceled = TRUE] \in Call
      BY DEF Call, TypeOK, RequestTypes
    <3> QED
      BY <1>2, <3>1 DEF ReadCancel, InFlight, TypeOK, RequestTypes
  <2>5. QueueTypes' /\ RequestTypes'
    BY <1>2, <2>3, <2>4 DEF ReadCancel, TypeOK, QueueTypes, RequestTypes
  <2> QED
    BY <1>2, <2>2, <2>5, Unchanged DEF ReadCancel, TypeOK
<1> QED
  BY <1>1, <1>2 DEF Reader

LEMMA CallReadyStep ==
    ASSUME TypeOK, CallReady, [Next]_vars
    PROVE  CallReady'
<1>1. CASE UNCHANGED <<call, documents, analyses>>
  BY <1>1 DEF CallReady, Answerable
<1>2. CASE call' = Nil
  BY <1>2 DEF CallReady
<1>3. CASE call' # Nil /\ call'.phase \notin {"backend", "returned"}
  BY <1>3 DEF CallReady
<1>4. ASSUME NEW request \in Query, Begin(request)
      PROVE  call' # Nil /\ call'.phase \notin {"backend", "returned"}
  <2>1. call' \in Call
    BY <1>4, BeginTypes
  <2> QED
    BY <1>4, <2>1 DEF Begin
<1>5. CASE Reader
  <2>1. CASE \E m \in Message : Read(m)
    BY <1>1, <2>1 DEF Read, documentVars, requestVars
  <2>2. CASE \E id \in Ids : ReadCancel(id)
    <3> PICK id \in Ids : ReadCancel(id)
      BY <2>2
    <3>1. UNCHANGED <<documents, analyses>>
      BY DEF ReadCancel, documentVars
    <3>2. CASE call' = [call EXCEPT !.canceled = TRUE] /\ call # Nil
      <4>1. call \in Call
        BY <3>2 DEF TypeOK, RequestTypes
      <4>2. call'.request = call.request /\ call'.phase = call.phase
        BY <3>2, <4>1 DEF Call
      <4> QED
        BY <3>1, <3>2, <4>2 DEF CallReady, Answerable
    <3>3. CASE UNCHANGED call
      BY <1>1, <3>1, <3>3
    <3>4. \/ InFlight(id) /\ call' = [call EXCEPT !.canceled = TRUE]
          \/ UNCHANGED call
      BY DEF ReadCancel
    <3> QED
      BY <3>2, <3>3, <3>4 DEF InFlight
  <2> QED
    BY <1>5, <2>1, <2>2 DEF Reader
<1>6. CASE HandleCodeAction \/ HandleFormatting
  <2>1. Message1 \in Query
    <3>1. Receive({"codeAction"}) \/ Receive({"formatting"})
      BY <1>6 DEF HandleCodeAction, HandleFormatting
    <3>2. Message1 \in Message /\ Message1.kind \in {"codeAction", "formatting"}
      BY <3>1, ReceiveTypes
    <3> QED
      BY <3>2, MessageFields
  <2>2. CASE Begin(Message1)
    BY <1>3, <1>4, <2>1, <2>2
  <2>3. CASE UNCHANGED <<call, documents, analyses>>
    BY <1>1, <2>3
  <2>4. UNCHANGED <<documents, analyses>>
    BY <1>6 DEF HandleCodeAction, HandleFormatting, documentVars
  <2>5. Begin(Message1) \/ UNCHANGED call
    BY <1>6 DEF HandleCodeAction, HandleFormatting
  <2> QED
    BY <2>2, <2>3, <2>4, <2>5
<1>7. CASE \/ HandleResponse \/ HandleInitialize \/ HandleInitialized \/ HandleShutdown
           \/ HandleUnavailable \/ HandleExit \/ HandleDidOpen \/ HandleDidChange
           \/ HandleDidClose \/ HandleWatchedFiles \/ HandleWatchedFilesFails
           \/ HandleUnknown \/ HandleInvalid
  <2>1. call = Nil
    BY <1>7 DEF HandleResponse, HandleInitialize, HandleInitialized, HandleShutdown,
       HandleUnavailable, HandleExit, HandleDidOpen, HandleDidChange, HandleDidClose,
       HandleWatchedFiles, HandleWatchedFilesFails, HandleUnknown, HandleInvalid, Receive,
       Selecting
  <2>2. UNCHANGED call
    BY <1>7 DEF HandleResponse, HandleInitialize, HandleInitialized, HandleShutdown,
       HandleUnavailable, HandleExit, HandleDidOpen, HandleDidChange, HandleDidClose,
       HandleWatchedFiles, HandleWatchedFilesFails, HandleUnknown, HandleInvalid, Fail,
       requestVars
  <2> QED
    BY <1>2, <2>1, <2>2
<1>8. CASE HandleEndOfInput \/ ReturnAfterDrain \/ ReturnContextError \/ EndContext
           \/ OutputFails \/ RunAnalysis
  BY <1>1, <1>8 DEF HandleEndOfInput, ReturnAfterDrain, ReturnContextError, EndContext,
     OutputFails, RunAnalysis, WorkerBegin, WorkerAbandon, WorkerFinish, WorkerDrop,
     WorkerStep, Fail, requestVars, documentVars
<1>9. CASE CompleteAnalysis
  <2>1. call = Nil /\ UNCHANGED call
    BY <1>9 DEF CompleteAnalysis, CompleteWithFileChanges, CompleteSuperseded,
       CompleteCanceled, CompleteFailed, CompleteCurrent, Complete, Selecting
  <2> QED
    BY <1>2, <2>1
<1>10. CASE ServeNext
  <2>1. Head(cycle) \in Query
    BY <1>10 DEF ServeNext, TypeOK, RequestTypes
  <2> QED
    BY <1>3, <1>4, <1>10, <2>1 DEF ServeNext
<1>11. CASE CheckRequest \/ CallBackend \/ BackendReturns \/ Respond
  <2>1. call # Nil /\ call \in Call /\ UNCHANGED <<documents, analyses>>
    BY <1>11 DEF CheckRequest, CallBackend, BackendReturns, Respond, ServeStep, TypeOK,
       RequestTypes, documentVars
  <2>2. CASE \E outcome, document : Responding(outcome, document)
    <3>1. call'.phase = "answered" /\ call' \in Call
      BY <2>1, <2>2 DEF Responding, Call
    <3> QED
      BY <1>3, <3>1
  <2>3. CASE call' = [call EXCEPT !.phase = "checked"]
    <3>1. call'.phase = "checked" /\ call' \in Call
      BY <2>1, <2>3 DEF Call
    <3> QED
      BY <1>3, <3>1
  <2>4. CASE \E phase \in {"backend", "returned"} :
                Answerable /\ call' = [call EXCEPT !.phase = phase]
    <3>1. call'.request = call.request
      BY <2>1, <2>4 DEF Call
    <3> QED
      BY <2>1, <2>4, <3>1 DEF CallReady, Answerable
  <2>5. CASE UNCHANGED call
    BY <1>1, <2>1, <2>5
  <2>6. CASE CheckRequest
    BY <2>2, <2>3, <2>6 DEF CheckRequest
  <2>7. CASE CallBackend
    BY <2>2, <2>4, <2>7 DEF CallBackend
  <2>8. CASE BackendReturns
    BY <2>2, <2>4, <2>5, <2>8 DEF BackendReturns, CallReady
  <2>9. CASE Respond
    BY <2>2, <2>9 DEF Respond
  <2> QED
    BY <1>11, <2>6, <2>7, <2>8, <2>9
<1>12. CASE FinishRequest
  BY <1>2, <1>12 DEF FinishRequest
<1>13. CASE UNCHANGED vars
  BY <1>1, <1>13 DEF vars, requestVars, documentVars
<1> QED
  BY <1>5, <1>6, <1>7, <1>8, <1>9, <1>10, <1>11, <1>12, <1>13
     DEF Next, MainLoop, Handle, Serving

LEMMA TypeStep ==
    ASSUME TypeOK, CallReady, [Next]_vars
    PROVE  TypeOK'
<1>1. CASE Handle
  BY <1>1, TypeSessionMessages, TypeShutdown, TypeExit, TypeDidOpen, TypeDidChange,
     TypeDidClose, TypeWatchedFiles, TypeWatchedFilesFails, TypeCodeAction, TypeFormatting
     DEF Handle
<1>2. CASE CompleteAnalysis
  BY <1>2, TypeCompleteWithFileChanges, TypeCompleteSuperseded, TypeCompleteNewest
     DEF CompleteAnalysis
<1>3. CASE UNCHANGED vars
  BY <1>3, Unchanged DEF vars, TypeOK, serveVars, inputVars, sessionVars, documentVars,
     analysisVars, fileVars, queueVars, requestVars
<1> QED
  BY <1>1, <1>2, <1>3, TypeReader, TypeRequestSteps, TypeEnds, TypeRunAnalysis
     DEF Next, MainLoop, Serving

\* Type correctness: the state of the session keeps its types, for any number of
\* documents, requests and files and any bounds; CallReady is what makes it inductive,
\* since a code action's answer is built from the document and its analysis.
THEOREM TypeCorrect == Spec => [](TypeOK /\ CallReady)
<1>1. Init => CallReady
  BY DEF Init, CallReady
<1>2. (TypeOK /\ CallReady) /\ [Next]_vars => (TypeOK /\ CallReady)'
  BY TypeStep, CallReadyStep
<1> QED
  BY TypeInit, <1>1, <1>2, PTL DEF Spec

-----------------------------------------------------------------------------
(***************************************************************************)
(* What the server publishes is current.                                   *)
(***************************************************************************)

\* Steps that leave documents, analyses, analysis work and file changes alone.
Quiet ==
    UNCHANGED <<documents, analyses, published, analysisVars, fileVars, shutdown>>

LEMMA StepKinds ==
    ASSUME [Next]_vars
    PROVE  \/ Quiet
           \/ status' # "running" /\ UNCHANGED <<documents, analyses, published>>
           \/ HandleShutdown
           \/ HandleDidOpen
           \/ HandleDidChange
           \/ HandleDidClose
           \/ HandleWatchedFiles
           \/ CompleteWithFileChanges
           \/ CompleteSuperseded
           \/ CompleteCanceled
           \/ CompleteCurrent
           \/ RunAnalysis
<1> USE DEF Quiet
<1>1. CASE HandleResponse \/ HandleInitialize \/ HandleInitialized \/ HandleUnavailable
           \/ HandleUnknown
  BY <1>1 DEF HandleResponse, HandleInitialize, HandleInitialized, HandleUnavailable,
     HandleUnknown, Fail, sessionVars, documentVars
<1>2. CASE HandleExit \/ HandleWatchedFilesFails \/ HandleInvalid \/ HandleEndOfInput
  BY <1>2 DEF HandleExit, HandleWatchedFilesFails, HandleInvalid, HandleEndOfInput, Fail,
     sessionVars, documentVars
<1>3. CASE HandleCodeAction \/ HandleFormatting
  BY <1>3 DEF HandleCodeAction, HandleFormatting, sessionVars, documentVars
<1>4. CASE CompleteFailed
  BY <1>4 DEF CompleteFailed, Complete
<1>5. CASE Serving
  BY <1>5 DEF Serving, ServeNext, CheckRequest, CallBackend, BackendReturns, Respond,
     ServeStep, FinishRequest, sessionVars, documentVars
<1>6. CASE ReturnAfterDrain \/ ReturnContextError \/ EndContext \/ OutputFails
  BY <1>6 DEF ReturnAfterDrain, ReturnContextError, EndContext, OutputFails, Fail,
     sessionVars, documentVars
<1>7. CASE Reader
  BY <1>7 DEF Reader, Read, ReadCancel, sessionVars, documentVars
<1>8. CASE UNCHANGED vars
  BY <1>8 DEF vars, sessionVars, documentVars
<1> QED
  BY <1>1, <1>2, <1>3, <1>4, <1>5, <1>6, <1>7, <1>8
     DEF Next, MainLoop, Handle, CompleteAnalysis

\* Kept analyses stay current: a changed set of documents clears all of them, a
\* close clears the closed one, and publication keeps only the present texts.
LEMMA AnalysesCurrentStep ==
    ASSUME TypeOK, AnalysesCurrent, [Next]_vars
    PROVE  AnalysesCurrent'
<1>1. CASE UNCHANGED <<documents, analyses>>
  BY <1>1 DEF AnalysesCurrent
<1>2. CASE analyses' = NoAnalyses
  BY <1>2 DEF AnalysesCurrent, NoAnalyses
<1>3. CASE HandleDidOpen \/ HandleDidChange
  BY <1>1, <1>2, <1>3 DEF HandleDidOpen, HandleDidChange, Schedule, Fail, documentVars
<1>4. CASE HandleDidClose
  <2>1. CASE analyses' = NoAnalyses
    BY <1>2, <2>1
  <2>2. CASE analyses' = [analyses EXCEPT ![Message1.uri] = Nil]
    <3>1. documents' = [documents EXCEPT ![Message1.uri] = Nil]
      BY <1>4 DEF HandleDidClose
    <3> QED
      BY <2>2, <3>1 DEF AnalysesCurrent, TypeOK, DocumentTypes, Documents
  <2> QED
    BY <1>4, <2>1, <2>2 DEF HandleDidClose, Schedule
<1>5. CASE HandleWatchedFiles
  BY <1>1, <1>2, <1>5 DEF HandleWatchedFiles, Schedule, documentVars
<1>6. CASE CompleteWithFileChanges
  BY <1>1, <1>2, <1>6 DEF CompleteWithFileChanges, Complete, Schedule
<1>7. CASE CompleteSuperseded \/ CompleteCanceled \/ HandleShutdown \/ RunAnalysis
  BY <1>1, <1>7 DEF CompleteSuperseded, CompleteCanceled, Complete, HandleShutdown,
     RunAnalysis, WorkerBegin, WorkerAbandon, WorkerFinish, WorkerDrop, WorkerStep,
     documentVars
<1>8. CASE CompleteCurrent
  <2>1. UNCHANGED documents
    BY <1>8 DEF CompleteCurrent, Complete
  <2>2. CASE SnapshotCurrent(Completed.documents)
    <3>1. /\ analyses' = PublishedAnalyses(Completed)
          /\ Completed.documents = documents
      BY <1>8, <2>2 DEF CompleteCurrent, SnapshotCurrent
    <3>2. ASSUME NEW u \in Uris
          PROVE  analyses'[u] = IF documents[u] = Nil THEN analyses[u]
                                ELSE IF u \in Completed.errors THEN Nil
                                ELSE documents[u].text
      BY <3>1 DEF PublishedAnalyses
    <3> QED
      BY <2>1, <3>2 DEF AnalysesCurrent
  <2>3. CASE ~SnapshotCurrent(Completed.documents)
    BY <1>1, <1>8, <2>1, <2>3 DEF CompleteCurrent
  <2> QED
    BY <2>2, <2>3
<1> QED
  BY <1>1, <1>3, <1>4, <1>5, <1>6, <1>7, <1>8, StepKinds DEF Quiet

\* Once Serve returned, nothing moves.
LEMMA RunningStep ==
    ASSUME [Next]_vars
    PROVE  status = "running" \/ UNCHANGED vars
<1>1. CASE Handle
  BY <1>1 DEF Handle, HandleResponse, HandleInitialize, HandleInitialized, HandleShutdown,
     HandleUnavailable, HandleExit, HandleDidOpen, HandleDidChange, HandleDidClose,
     HandleWatchedFiles, HandleWatchedFilesFails, HandleCodeAction, HandleFormatting,
     HandleUnknown, HandleInvalid, HandleEndOfInput, Receive, Selecting
<1>2. CASE CompleteAnalysis
  BY <1>2 DEF CompleteAnalysis, CompleteWithFileChanges, CompleteSuperseded,
     CompleteCanceled, CompleteFailed, CompleteCurrent, Complete, Selecting
<1>3. CASE Reader
  BY <1>3 DEF Reader, Read, ReadCancel, ReaderReady
<1>4. CASE RunAnalysis
  BY <1>4 DEF RunAnalysis, WorkerBegin, WorkerAbandon, WorkerFinish, WorkerDrop
<1> QED
  BY <1>1, <1>2, <1>3, <1>4
     DEF Next, MainLoop, Serving, ServeNext, CheckRequest, CallBackend, BackendReturns,
     Respond, FinishRequest, ReturnAfterDrain, ReturnContextError, Selecting, EndContext,
     OutputFails

\* No handled file change is forgotten: it is delivered at once, or joins the queue
\* of the active analysis, and only a completion with an empty queue, or one that
\* delivers the queue, makes the analysis inactive.
LEMMA NoChangeLostStep ==
    ASSUME TypeOK, NoChangeLost, [Next]_vars
    PROVE  NoChangeLost'
<1> SUFFICES ASSUME status' = "running", ~shutdown'
             PROVE  NoChangeLost'
  BY DEF NoChangeLost
<1>1. CASE UNCHANGED vars
  BY <1>1 DEF vars, serveVars, sessionVars, fileVars, analysisVars, NoChangeLost, Covers
<1> SUFFICES ASSUME status = "running"
             PROVE  NoChangeLost'
  BY <1>1, RunningStep
<1>2. CASE /\ UNCHANGED <<fileVars, shutdown>>
           /\ analysisCancel # 0 => analysisCancel' # 0
  BY <1>2 DEF NoChangeLost, fileVars, Covers
<1>3. analysisGeneration \in Nat
  BY DEF TypeOK, AnalysisTypes
<1>4. CASE HandleDidOpen \/ HandleDidChange \/ HandleDidClose
  <2>1. UNCHANGED <<fileVars, shutdown>>
    BY <1>4 DEF HandleDidOpen, HandleDidChange, HandleDidClose, sessionVars, Fail
  <2>2. analysisCancel # 0 => analysisCancel' # 0
    BY <1>4 DEF HandleDidOpen, HandleDidChange, HandleDidClose, Schedule, Fail,
       analysisVars
  <2> QED
    BY <1>2, <2>1, <2>2
<1>5. CASE HandleWatchedFiles
  <2> DEFINE list == Message1.changes
             changes == WatchedFileChanges(list)
  <2>1. UNCHANGED shutdown
    BY <1>5 DEF HandleWatchedFiles, sessionVars
  <2>2. CASE UNCHANGED <<analysisVars, fileVars>>
    BY <1>2, <2>1, <2>2 DEF analysisVars
  <2>3. \A f \in Files : notified[f] # Notified(list)[f] => Covers(changes, f)
    BY DEF Notified, WatchedFileChanges, Covers, TypeOK, FileTypes
  <2>4. CASE /\ analysisCancel # 0
             /\ notified' = Notified(list)
             /\ pendingWorkspaceChanges' = QueuedChanges(changes)
             /\ UNCHANGED <<analysisCancel, told>>
    <3>1. \A f \in Files : Covers(pendingWorkspaceChanges, f) \/ Covers(changes, f)
                             => Covers(QueuedChanges(changes), f)
      BY DEF QueuedChanges, Covers
    <3>2. \A f \in Files : told[f] # notified[f] => Covers(pendingWorkspaceChanges, f)
      BY <2>1 DEF NoChangeLost
    <3>3. ASSUME NEW f \in Files, told'[f] # notified'[f]
          PROVE  Covers(pendingWorkspaceChanges', f) /\ analysisCancel' # 0
      BY <2>3, <2>4, <3>1, <3>2, <3>3
    <3> QED
      BY <3>3 DEF NoChangeLost, Covers
  <2>5. CASE /\ analysisCancel = 0
             /\ notified' = Notified(list)
             /\ told' = Told(changes, Notified(list))
    <3>1. \A f \in Files : told[f] = notified[f]
      BY <2>1, <2>5 DEF NoChangeLost
    <3>2. \A f \in Files : told'[f] = notified'[f]
      BY <2>3, <2>5, <3>1 DEF Told
    <3> QED
      BY <3>2 DEF NoChangeLost
  <2> QED
    BY <1>5, <2>2, <2>4, <2>5 DEF HandleWatchedFiles
<1>6. CASE CompleteWithFileChanges
  <2>1. /\ told' = Told(pendingWorkspaceChanges, notified)
        /\ UNCHANGED <<notified, shutdown>>
    BY <1>6 DEF CompleteWithFileChanges, Complete, sessionVars
  <2>2. \A f \in Files : told[f] # notified[f] => Covers(pendingWorkspaceChanges, f)
    BY <2>1 DEF NoChangeLost
  <2>3. \A f \in Files : told'[f] = notified'[f]
    BY <2>1, <2>2 DEF Told
  <2> QED
    BY <2>3 DEF NoChangeLost
<1>7. CASE CompleteSuperseded \/ CompleteCanceled \/ CompleteCurrent
  <2>1. /\ Empty(pendingWorkspaceChanges)
        /\ UNCHANGED <<told, notified, shutdown>>
    BY <1>7 DEF CompleteSuperseded, CompleteCanceled, CompleteCurrent, Complete, sessionVars
  <2>2. \A f \in Files : told[f] = notified[f]
    BY <2>1 DEF NoChangeLost, Covers, Empty
  <2> QED
    BY <2>1, <2>2 DEF NoChangeLost
<1>8. CASE RunAnalysis
  BY <1>2, <1>8 DEF RunAnalysis, WorkerBegin, WorkerAbandon, WorkerFinish, WorkerDrop,
     WorkerStep, sessionVars
<1>9. CASE Quiet
  BY <1>2, <1>9 DEF Quiet, analysisVars
<1> QED
  BY <1>4, <1>5, <1>6, <1>7, <1>8, <1>9, StepKinds DEF HandleShutdown

\* The results stay, or the loop takes the first one.
ResultsKept ==
    \/ UNCHANGED analysisResults
    \/ analysisResults # <<>> /\ analysisResults' = Tail(analysisResults)

\* Results that stay, or stay behind the one just taken, are older than a new
\* generation.
LEMMA ResultsStay == UNCHANGED analysisResults => ResultsKept
BY DEF ResultsKept

LEMMA OlderResults ==
    ASSUME TypeOK, NewestAnalysis, status = "running",
           ResultsKept,
           analysisGeneration' \in Nat, analysisGeneration' > analysisGeneration
    PROVE  \A i \in DOMAIN analysisResults' : ResultNewest(analysisResults[i])'
<1> TAKE i \in DOMAIN analysisResults'
<1>1. analysisResults \in Seq(Completion) /\ analysisGeneration \in Nat
  BY DEF TypeOK, AnalysisTypes
<1>2. PICK j \in DOMAIN analysisResults : analysisResults'[i] = analysisResults[j]
  <2>1. CASE analysisResults' = analysisResults
    BY <2>1
  <2>2. CASE analysisResults # <<>> /\ analysisResults' = Tail(analysisResults)
    BY <1>1, <2>2
  <2> QED
    BY <2>1, <2>2 DEF ResultsKept
<1>3. analysisResults[j].generation \in Nat
  <2>1. analysisResults[j] \in Completion
    BY <1>1
  <2> QED
    BY <2>1 DEF Completion
<1>4. analysisResults[j].generation <= analysisGeneration
  BY DEF NewestAnalysis, ResultNewest
<1> QED
  BY <1>1, <1>2, <1>3, <1>4 DEF ResultNewest

\* So are workers, canceled or not.
LEMMA OlderWorkers ==
    ASSUME TypeOK, NewestAnalysis, status = "running", NEW generation, NEW w,
           w \in running \/ w \in Cancel(generation),
           analysisGeneration' \in Nat, analysisGeneration' > analysisGeneration
    PROVE  WorkerNewest(w)'
<1>1. PICK v \in running : w = v \/ w = [v EXCEPT !.canceled = TRUE]
  BY DEF Cancel
<1>2. v \in Worker /\ analysisGeneration \in Nat
  BY DEF TypeOK, AnalysisTypes
<1>3. w.generation = v.generation /\ v.generation \in Nat
  BY <1>1, <1>2 DEF Worker
<1>4. v.generation <= analysisGeneration
  BY DEF NewestAnalysis, WorkerNewest
<1> QED
  BY <1>2, <1>3, <1>4 DEF WorkerNewest

LEMMA ScheduleNewest ==
    ASSUME TypeOK, NewestAnalysis, status = "running",
           NEW snapshot \in Documents, NEW debounce \in BOOLEAN, NEW generation \in Nat,
           NEW active \in Nat, NEW pending \in Request \cup {Nil},
           generation >= analysisGeneration,
           pending \in {Nil, analysisPending},
           Schedule(snapshot, debounce, generation, active, pending),
           documents' = snapshot,
           ~shutdown',
           active = 0 => told' = notified',
           ResultsKept
    PROVE  NewestAnalysis'
<1>1. /\ analysisGeneration \in Nat
      /\ analysisGeneration' = generation + 1
      /\ analysisGeneration' > analysisGeneration
      /\ analysisGeneration' \in Nat
  BY DEF TypeOK, AnalysisTypes, Schedule
<1>2. \A i \in DOMAIN analysisResults' : ResultNewest(analysisResults[i])'
  BY <1>1, OlderResults
<1> DEFINE request == AnalysisRequest(generation + 1, snapshot, debounce)
<1>3. request.generation = analysisGeneration' /\ request.documents = documents'
  BY <1>1 DEF AnalysisRequest
<1> HIDE DEF request
<1>4. CASE active # 0
  <2>1. running' = Cancel(active) /\ analysisPending' = request
    BY <1>4 DEF Schedule, request
  <2>2. \A w \in running' : WorkerNewest(w)'
    BY <1>1, <2>1, OlderWorkers
  <2>3. PendingNewest'
    BY <1>1, <1>3, <2>1 DEF PendingNewest
  <2> QED
    BY <1>2, <2>2, <2>3 DEF NewestAnalysis
<1>5. CASE active = 0
  <2>1. /\ running' = running \cup {StartedWorker(request)}
        /\ analysisPending' = pending
    BY <1>5 DEF Schedule, Start, request
  <2>2. ASSUME NEW w, w = StartedWorker(request)
        PROVE  WorkerNewest(w)'
    <3>1. /\ w.generation = analysisGeneration'
          /\ w.documents = documents'
          /\ w.phase = "waiting"
      BY <1>3, <2>2 DEF StartedWorker
    <3> QED
      BY <1>1, <1>5, <3>1 DEF WorkerNewest
  <2>3. \A w \in running' : WorkerNewest(w)'
    BY <1>1, <2>1, <2>2, OlderWorkers
  <2>4. PendingNewest'
    <3> SUFFICES ASSUME pending # Nil
                 PROVE  PendingNewest'
      BY <2>1 DEF PendingNewest
    <3>1. pending = analysisPending /\ analysisPending \in Request
      BY DEF TypeOK, AnalysisTypes
    <3>2. pending.generation \in Nat /\ pending.generation <= analysisGeneration
      BY <3>1 DEF Request, NewestAnalysis, PendingNewest
    <3> QED
      BY <1>1, <2>1, <3>2 DEF PendingNewest
  <2> QED
    BY <1>2, <2>3, <2>4 DEF NewestAnalysis
<1> QED
  BY <1>4, <1>5

\* The results behind the one taken keep what they were about.
LEMMA LaterResults ==
    ASSUME TypeOK, NewestAnalysis, status = "running",
           Complete, UNCHANGED <<analysisGeneration, documents, notified>>
    PROVE  \A i \in DOMAIN analysisResults' : ResultNewest(analysisResults[i])'
<1> TAKE i \in DOMAIN analysisResults'
<1>1. analysisResults \in Seq(Completion) /\ analysisResults # <<>>
      /\ analysisResults' = Tail(analysisResults)
  BY DEF TypeOK, AnalysisTypes, Complete
<1>2. PICK j \in DOMAIN analysisResults : analysisResults'[i] = analysisResults[j]
  BY <1>1
<1>3. ResultNewest(analysisResults[j])
  BY DEF NewestAnalysis
<1> QED
  BY <1>2, <1>3 DEF ResultNewest

\* A change handled at once, or the last queued ones delivered, leave the backend
\* knowing of every change.
LEMMA ToldAll ==
    ASSUME TypeOK, NEW changes, NEW counts \in [Files -> Nat],
           \A f \in Files : ~Covers(changes, f) => told[f] = counts[f]
    PROVE  Told(changes, counts) = counts
<1>1. \A f \in Files : Told(changes, counts)[f] = counts[f]
  BY DEF Told
<1>2. /\ DOMAIN Told(changes, counts) = Files
      /\ Told(changes, counts) = [f \in Files |-> Told(changes, counts)[f]]
  BY DEF Told
<1>3. counts = [f \in Files |-> counts[f]]
  OBVIOUS
<1> QED
  BY <1>1, <1>2, <1>3

LEMMA SameCounts ==
    ASSUME TypeOK, \A f \in Files : told[f] = notified[f]
    PROVE  told = notified
<1>1. told \in [Files -> Nat] /\ notified \in [Files -> Nat]
  BY DEF TypeOK, FileTypes
<1> QED
  BY <1>1

LEMMA NewestHandlers ==
    ASSUME TypeOK, NoChangeLost, NewestAnalysis, status = "running", status' = "running",
           \/ HandleShutdown \/ HandleDidOpen \/ HandleDidChange \/ HandleDidClose
           \/ HandleWatchedFiles
    PROVE  NewestAnalysis'
<1>1. /\ analysisGeneration \in Nat
      /\ analysisCancel \in Nat
      /\ analysisPending \in Request \cup {Nil}
      /\ documents \in Documents
      /\ analysisGeneration >= analysisGeneration
  BY DEF TypeOK, AnalysisTypes, DocumentTypes
\* A new generation without new work.
<1>2. ASSUME analysisGeneration' = analysisGeneration + 1,
             running' = running \/ running' = Cancel(analysisCancel),
             UNCHANGED analysisResults,
             analysisPending' = Nil
      PROVE  NewestAnalysis'
  <2>1. analysisGeneration' \in Nat /\ analysisGeneration' > analysisGeneration
    BY <1>1, <1>2
  <2>2. \A w \in running' : WorkerNewest(w)'
    BY <1>2, <2>1, OlderWorkers
  <2>3. \A i \in DOMAIN analysisResults' : ResultNewest(analysisResults[i])'
    BY <1>2, <2>1, OlderResults, ResultsStay
  <2> QED
    BY <1>2, <2>2, <2>3 DEF NewestAnalysis, PendingNewest
\* The files are known to the backend when no analysis is active.
<1>3. ~shutdown /\ analysisCancel = 0 => told = notified
  BY SameCounts DEF NoChangeLost
<1>4. CASE HandleShutdown
  BY <1>2, <1>4 DEF HandleShutdown
<1>5. CASE HandleDidOpen
  <2> DEFINE snapshot == [documents EXCEPT ![Message1.uri] =
                            [version |-> Message1.version, text |-> Message1.text]]
  <2>1. snapshot \in Documents /\ documents' = snapshot
    <3>1. Message1 \in Message /\ Message1.kind = "didOpen"
      BY <1>5, ReceiveTypes DEF HandleDidOpen, Receive, Message1
    <3>2. [version |-> Message1.version, text |-> Message1.text] \in Document
      BY <3>1, MessageFields
    <3> QED
      BY <1>5, <3>2, SnapshotTypes DEF HandleDidOpen, TypeOK
  <2>2. /\ Schedule(snapshot, FALSE, analysisGeneration, analysisCancel, analysisPending)
        /\ ~shutdown /\ ~shutdown'
        /\ UNCHANGED <<told, notified, analysisResults>>
    BY <1>5 DEF HandleDidOpen, Available, sessionVars, fileVars
  <2> HIDE DEF snapshot
  <2>3. analysisCancel = 0 => told' = notified'
    BY <1>3, <2>2
  <2>4. ResultsKept /\ analysisPending \in {Nil, analysisPending}
    BY <2>2, ResultsStay
  <2>5. documents' = snapshot
    BY <2>1
  <2> QED
    BY <1>1, <2>1, <2>2, <2>3, <2>4, <2>5, ScheduleNewest
<1>6. CASE HandleDidChange
  <2> DEFINE snapshot == [documents EXCEPT ![Message1.uri] =
                            [version |-> Message1.version, text |-> Message1.text]]
  <2>1. /\ documents' = snapshot
        /\ Schedule(snapshot, TRUE, analysisGeneration, analysisCancel, analysisPending)
        /\ ~shutdown /\ ~shutdown'
        /\ UNCHANGED <<told, notified, analysisResults>>
    BY <1>6 DEF HandleDidChange, Available, Fail, sessionVars, fileVars
  <2>2. snapshot \in Documents
    <3>1. Message1 \in Message /\ Message1.kind = "didChange"
      BY <1>6, ReceiveTypes DEF HandleDidChange, Receive, Message1
    <3>2. [version |-> Message1.version, text |-> Message1.text] \in Document
      BY <3>1, MessageFields
    <3> QED
      BY <3>2, SnapshotTypes DEF TypeOK
  <2> HIDE DEF snapshot
  <2>3. analysisCancel = 0 => told' = notified'
    BY <1>3, <2>1
  <2>4. ResultsKept /\ analysisPending \in {Nil, analysisPending}
    BY <2>1, ResultsStay
  <2>5. documents' = snapshot
    BY <2>1
  <2> QED
    BY <1>1, <2>1, <2>2, <2>3, <2>4, <2>5, ScheduleNewest
<1>7. CASE HandleDidClose
  <2> DEFINE snapshot == [documents EXCEPT ![Message1.uri] = Nil]
  <2>1. /\ documents' = snapshot
        /\ ~shutdown /\ ~shutdown'
        /\ UNCHANGED <<told, notified, analysisResults>>
    BY <1>7 DEF HandleDidClose, Available, sessionVars, fileVars
  <2>2. snapshot \in Documents
    BY SnapshotTypes DEF TypeOK
  <2>3. \/ Schedule(snapshot, FALSE, analysisGeneration + 1, analysisCancel, Nil)
        \/ /\ analysisGeneration' = analysisGeneration + 1
           /\ running' = Cancel(analysisCancel)
           /\ analysisPending' = Nil
    BY <1>7 DEF HandleDidClose
  <2> HIDE DEF snapshot
  <2>4. analysisGeneration + 1 \in Nat /\ analysisGeneration + 1 >= analysisGeneration
    BY <1>1
  <2>5. analysisCancel = 0 => told' = notified'
    BY <1>3, <2>1
  <2>6. CASE Schedule(snapshot, FALSE, analysisGeneration + 1, analysisCancel, Nil)
    <3>1. ResultsKept /\ Nil \in {Nil, analysisPending} /\ Nil \in Request \cup {Nil}
      BY <2>1, ResultsStay
    <3> QED
      BY <1>1, <2>1, <2>2, <2>4, <2>5, <2>6, <3>1, ScheduleNewest
  <2> QED
    BY <1>2, <2>1, <2>3, <2>6
<1>8. CASE HandleWatchedFiles
  <2>1. /\ UNCHANGED <<documents, analysisResults>>
        /\ ~shutdown /\ ~shutdown'
    BY <1>8 DEF HandleWatchedFiles, Available, sessionVars, documentVars, analysisVars
  <2>2. CASE UNCHANGED <<documentVars, analysisVars, fileVars, queueVars>>
    BY <2>1, <2>2 DEF NewestAnalysis, WorkerNewest, ResultNewest, PendingNewest,
       analysisVars, fileVars
  <2>3. CASE /\ analysisCancel = 0
             /\ notified' = Notified(Message1.changes)
             /\ told' = Told(WatchedFileChanges(Message1.changes), Notified(Message1.changes))
             /\ Schedule(documents, TRUE, analysisGeneration + 1, 0, Nil)
    <3>1. told' = notified'
      <4> DEFINE list == Message1.changes
      <4>1. told' = Told(WatchedFileChanges(list), Notified(list))
            /\ notified' = Notified(list)
        BY <2>3
      <4>2. told = notified
        BY <1>3, <2>1, <2>3
      <4>3. \A f \in Files : notified[f] # Notified(list)[f] =>
                                Covers(WatchedFileChanges(list), f)
        BY DEF Notified, WatchedFileChanges, Covers, TypeOK, FileTypes
      <4>4. Notified(list) \in [Files -> Nat]
        BY DEF Notified, TypeOK, FileTypes
      <4> HIDE DEF list
      <4> QED
        BY <4>1, <4>2, <4>3, <4>4, ToldAll
    <3>2. analysisGeneration + 1 \in Nat /\ analysisGeneration + 1 >= analysisGeneration
      BY <1>1
    <3>3. ResultsKept /\ Nil \in {Nil, analysisPending} /\ Nil \in Request \cup {Nil}
      BY <2>1, ResultsStay
    <3>4. analysisCancel = 0 => told' = notified'
      BY <3>1
    <3> QED
      BY <1>1, <2>1, <2>3, <3>2, <3>3, <3>4, ScheduleNewest
  <2>4. CASE /\ analysisGeneration' = analysisGeneration + 1
             /\ running' = running \/ running' = Cancel(analysisCancel)
             /\ analysisPending' = Nil
    BY <1>2, <2>1, <2>4
  <2> QED
    BY <1>8, <2>2, <2>3, <2>4 DEF HandleWatchedFiles
<1> QED
  BY <1>4, <1>5, <1>6, <1>7, <1>8

LEMMA NewestCompletions ==
    ASSUME TypeOK, NoChangeLost, NewestAnalysis, status = "running", status' = "running",
           CompleteWithFileChanges \/ CompleteSuperseded \/ CompleteCanceled \/ CompleteCurrent
    PROVE  NewestAnalysis'
<1>1. /\ Complete
      /\ UNCHANGED <<documents, notified, shutdown>>
      /\ analysisResults # <<>> /\ analysisResults' = Tail(analysisResults)
  BY DEF CompleteWithFileChanges, CompleteSuperseded, CompleteCanceled, CompleteCurrent,
     Complete, sessionVars
<1>2. /\ analysisGeneration \in Nat
      /\ documents \in Documents
  BY DEF TypeOK, AnalysisTypes, DocumentTypes
<1>3. CASE CompleteWithFileChanges
  <2>1. told' = Told(pendingWorkspaceChanges, notified)
    BY <1>3 DEF CompleteWithFileChanges
  <2>2. CASE /\ Schedule(documents, TRUE, analysisGeneration, 0, Nil)
             /\ ~shutdown
    <3>1. told' = notified'
      <4>1. \A f \in Files : ~Covers(pendingWorkspaceChanges, f) => told[f] = notified[f]
        BY <2>2 DEF NoChangeLost
      <4>2. notified \in [Files -> Nat]
        BY DEF TypeOK, FileTypes
      <4> QED
        BY <1>1, <2>1, <4>1, <4>2, ToldAll
    <3>2. /\ ResultsKept
          /\ Nil \in {Nil, analysisPending} /\ Nil \in Request \cup {Nil}
          /\ analysisGeneration >= analysisGeneration /\ 0 \in Nat /\ TRUE \in BOOLEAN
      BY <1>1, <1>2 DEF ResultsKept
    <3>3. ~shutdown' /\ documents' = documents
      BY <1>1, <2>2
    <3> QED
      BY <1>2, <2>2, <3>1, <3>2, <3>3, ScheduleNewest
  <2>3. CASE /\ analysisPending' = Nil
             /\ UNCHANGED <<analysisGeneration, running>>
    <3>1. ASSUME NEW w \in running
          PROVE  WorkerNewest(w)'
      <4>1. WorkerNewest(w)
        BY DEF NewestAnalysis
      <4>2. told = notified => told' = notified'
        BY <1>1, <2>1 DEF Told, TypeOK, FileTypes
      <4> QED
        BY <1>1, <2>3, <4>1, <4>2 DEF WorkerNewest
    <3>2. \A i \in DOMAIN analysisResults' : ResultNewest(analysisResults[i])'
      BY <1>1, <2>3, LaterResults
    <3> QED
      BY <2>3, <3>1, <3>2 DEF NewestAnalysis, PendingNewest
  <2> QED
    BY <1>3, <2>2, <2>3 DEF CompleteWithFileChanges
<1>4. CASE CompleteSuperseded \/ CompleteCanceled \/ CompleteCurrent
  <2>1. /\ Empty(pendingWorkspaceChanges)
        /\ UNCHANGED <<told, analysisGeneration>>
    BY <1>4 DEF CompleteSuperseded, CompleteCanceled, CompleteCurrent
  <2>2. \A i \in DOMAIN analysisResults' : ResultNewest(analysisResults[i])'
    BY <1>1, <2>1, LaterResults
  <2>3. \A w \in running : WorkerNewest(w)'
    BY <1>1, <2>1 DEF NewestAnalysis, WorkerNewest
  <2>4. CASE UNCHANGED <<running, analysisPending>>
    BY <1>1, <2>1, <2>2, <2>3, <2>4 DEF NewestAnalysis, PendingNewest
  <2>5. CASE analysisPending # Nil /\ Start(analysisPending) /\ analysisPending' = Nil
    <3>1. /\ ~shutdown
          /\ analysisPending.generation <= analysisGeneration
          /\ analysisPending.generation = analysisGeneration =>
               analysisPending.documents = documents
      BY <2>5 DEF NewestAnalysis, PendingNewest
    <3>2. told = notified
      BY <2>1, <3>1 DEF NoChangeLost, Covers, Empty, TypeOK, FileTypes
    <3>3. ASSUME NEW w, w = StartedWorker(analysisPending)
          PROVE  WorkerNewest(w)'
      <4>1. /\ w.generation = analysisPending.generation
            /\ w.documents = analysisPending.documents
            /\ w.phase = "waiting"
        BY <3>3 DEF StartedWorker
      <4> QED
        BY <1>1, <2>1, <3>1, <3>2, <4>1 DEF WorkerNewest
    <3>4. running' = running \cup {StartedWorker(analysisPending)}
      BY <2>5 DEF Start
    <3> QED
      BY <2>2, <2>3, <2>5, <3>3, <3>4 DEF NewestAnalysis, PendingNewest
  <2> QED
    BY <1>4, <2>4, <2>5 DEF CompleteSuperseded, CompleteCanceled, CompleteCurrent
<1> QED
  BY <1>3, <1>4

LEMMA NewestWorkers ==
    ASSUME TypeOK, NewestAnalysis, status = "running", RunAnalysis
    PROVE  NewestAnalysis'
<1> PICK w \in running : WorkerBegin(w) \/ WorkerAbandon(w) \/ WorkerFinish(w) \/ WorkerDrop(w)
  BY DEF RunAnalysis
<1>1. /\ w \in Worker
      /\ analysisResults \in Seq(Completion)
      /\ WorkerNewest(w)
  BY DEF TypeOK, AnalysisTypes, NewestAnalysis
<1>2. UNCHANGED <<status, analysisGeneration, documents, told, notified, analysisPending,
                  shutdown>>
  BY DEF WorkerBegin, WorkerAbandon, WorkerFinish, WorkerDrop, WorkerStep, serveVars,
     documentVars, fileVars, sessionVars
<1>3. \A v \in running : WorkerNewest(v)'
  BY <1>2 DEF NewestAnalysis, WorkerNewest
<1>4. \A i \in DOMAIN analysisResults : ResultNewest(analysisResults[i])
  BY DEF NewestAnalysis
<1>5. PendingNewest'
  BY <1>2 DEF NewestAnalysis, PendingNewest
<1>6. CASE WorkerBegin(w)
  <2>1. ASSUME NEW v, v = [w EXCEPT !.phase = "analyzing", !.basis = told]
        PROVE  WorkerNewest(v)'
    <3>1. v.generation = w.generation /\ v.documents = w.documents /\ v.basis = told
      BY <1>1, <2>1 DEF Worker
    <3> QED
      BY <1>1, <1>2, <3>1 DEF WorkerNewest
  <2>2. \A i \in DOMAIN analysisResults' : ResultNewest(analysisResults[i])'
    BY <1>2, <1>4, <1>6 DEF WorkerBegin, ResultNewest
  <2> QED
    BY <1>3, <1>5, <1>6, <2>1, <2>2 DEF WorkerBegin, NewestAnalysis
<1>7. ASSUME NEW outcome, NEW errors, Post(w, outcome, errors),
             outcome = "results" => w.phase = "analyzing"
      PROVE  NewestAnalysis'
  <2> DEFINE completion == [generation |-> w.generation, documents |-> w.documents,
                            basis |-> w.basis, outcome |-> outcome, errors |-> errors]
  <2>1. /\ completion.generation = w.generation /\ completion.documents = w.documents
        /\ completion.basis = w.basis /\ completion.outcome = outcome
    OBVIOUS
  <2>2. analysisResults' = Append(analysisResults, completion)
        /\ running' = running \ {w}
    BY <1>7 DEF Post
  <2> HIDE DEF completion
  <2>3. ASSUME NEW c, c = completion
        PROVE  ResultNewest(c)'
    BY <1>1, <1>2, <1>7, <2>1, <2>3 DEF WorkerNewest, ResultNewest
  <2>4. ASSUME NEW i \in DOMAIN analysisResults'
        PROVE  ResultNewest(analysisResults[i])'
    <3>1. CASE i \in DOMAIN analysisResults
      <4>1. analysisResults'[i] = analysisResults[i]
        BY <1>1, <2>2, <3>1
      <4> QED
        BY <1>2, <1>4, <3>1, <4>1 DEF ResultNewest
    <3>2. CASE i \notin DOMAIN analysisResults
      <4>1. analysisResults'[i] = completion
        BY <1>1, <2>2, <2>4, <3>2
      <4> QED
        BY <2>3, <4>1
    <3> QED
      BY <3>1, <3>2
  <2> QED
    BY <1>3, <1>5, <2>2, <2>4 DEF NewestAnalysis
<1>8. CASE WorkerAbandon(w)
  BY <1>7, <1>8 DEF WorkerAbandon
<1>9. CASE WorkerFinish(w)
  BY <1>7, <1>9 DEF WorkerFinish
<1>10. CASE WorkerDrop(w)
  <2>1. \A i \in DOMAIN analysisResults' : ResultNewest(analysisResults[i])'
    BY <1>2, <1>4, <1>10 DEF WorkerDrop, ResultNewest
  <2> QED
    BY <1>3, <1>5, <1>10, <2>1 DEF WorkerDrop, NewestAnalysis
<1> QED
  BY <1>6, <1>8, <1>9, <1>10

LEMMA NewestStep ==
    ASSUME TypeOK, NoChangeLost, NewestAnalysis, [Next]_vars
    PROVE  NewestAnalysis'
<1> SUFFICES ASSUME status' = "running"
             PROVE  NewestAnalysis'
  BY DEF NewestAnalysis
<1>1. CASE UNCHANGED vars
  BY <1>1 DEF vars, serveVars, sessionVars, documentVars, fileVars, analysisVars,
     NewestAnalysis, WorkerNewest, ResultNewest, PendingNewest
<1>2. CASE status = "running" /\ Quiet
  BY <1>2 DEF Quiet, fileVars, analysisVars, NewestAnalysis, WorkerNewest, ResultNewest,
     PendingNewest
<1> QED
  BY <1>1, <1>2, RunningStep, StepKinds, NewestHandlers, NewestCompletions, NewestWorkers

-----------------------------------------------------------------------------
(***************************************************************************)
(* The theorems.                                                           *)
(***************************************************************************)
CurrentInv == TypeOK /\ CallReady /\ NoChangeLost /\ NewestAnalysis /\ AnalysesCurrent

LEMMA CurrentInit == Init => CurrentInv
<1> SUFFICES ASSUME Init PROVE CurrentInv
  OBVIOUS
<1>1. TypeOK /\ CallReady
  BY TypeInit DEF Init, CallReady
<1>2. NoChangeLost /\ AnalysesCurrent
  BY DEF Init, NoChangeLost, AnalysesCurrent
<1>3. NewestAnalysis
  BY DEF Init, NewestAnalysis, PendingNewest
<1> QED
  BY <1>1, <1>2, <1>3 DEF CurrentInv

LEMMA CurrentStep == CurrentInv /\ [Next]_vars => CurrentInv'
BY TypeStep, CallReadyStep, NoChangeLostStep, NewestStep, AnalysesCurrentStep DEF CurrentInv

\* The inductive invariant of the session, and the three safety invariants it is
\* made of: what the backend was not told of is queued behind the active analysis,
\* work for the newest generation is about the present documents and files, and a
\* kept analysis is of the present text (scheduleAnalysis, completeAnalysis).
THEOREM SessionCorrect == Spec => [](NoChangeLost /\ NewestAnalysis /\ AnalysesCurrent)
<1>1. CurrentInv => NoChangeLost /\ NewestAnalysis /\ AnalysesCurrent
  BY DEF CurrentInv
<1> QED
  BY CurrentInit, CurrentStep, <1>1, PTL DEF Spec

\* A handled file change that the backend was not told of is queued behind an active
\* analysis, whose completion delivers it (queueWorkspaceChanges, completeAnalysis).
THEOREM FileChangesKept == Spec => []NoChangeLost
<1>1. CurrentInv => NoChangeLost
  BY DEF CurrentInv
<1> QED
  BY CurrentInit, CurrentStep, <1>1, PTL DEF Spec

\* Code actions use analyses of the present texts only, whatever was opened, changed or
\* closed while they were computed (publishAnalysis, scheduleAnalysis).
THEOREM KeptAnalysesCurrent == Spec => []AnalysesCurrent
<1>1. CurrentInv => AnalysesCurrent
  BY DEF CurrentInv
<1> QED
  BY CurrentInit, CurrentStep, <1>1, PTL DEF Spec

\* Only a close and a current result change what the client shows.
LEMMA PublicationStep ==
    ASSUME CurrentInv, [Next]_vars
    PROVE  [PublicationsCurrent]_vars
<1>1. CASE UNCHANGED published
  BY <1>1 DEF PublicationsCurrent
<1>2. CASE HandleDidClose
  <2>1. /\ published' = [published EXCEPT ![Message1.uri] =
                            [kind |-> "cleared", document |-> Nil]]
        /\ documents' = [documents EXCEPT ![Message1.uri] = Nil]
    BY <1>2 DEF HandleDidClose
  <2>2. DOMAIN published = Uris /\ DOMAIN documents = Uris
    BY DEF CurrentInv, TypeOK, DocumentTypes, Documents
  <2>3. ASSUME NEW u \in Uris, published'[u] # published[u]
        PROVE  published'[u].kind = "cleared" /\ documents'[u] = Nil
    BY <2>1, <2>2, <2>3
  <2> QED
    BY <2>3 DEF PublicationsCurrent
<1>3. CASE CompleteCurrent
  <2> SUFFICES ASSUME NEW u \in Uris, published'[u] # published[u]
               PROVE  /\ published'[u].kind # "cleared"
                      /\ published'[u].document = documents'[u]
                      /\ Completed.basis = notified
    BY DEF PublicationsCurrent, Completed
  <2>1. /\ Completed.documents = documents
        /\ Completed.outcome = "results"
        /\ published' = PublishedDiagnostics(Completed)
        /\ Completed.generation = analysisGeneration
        /\ analysisResults # <<>> /\ status = "running"
        /\ documents' = documents
    BY <1>3 DEF CompleteCurrent, SnapshotCurrent, Superseded, Complete, Selecting
  <2>2. 1 \in DOMAIN analysisResults /\ Completed = analysisResults[1]
    BY <2>1 DEF Completed, CurrentInv, TypeOK, AnalysisTypes
  <2>3. ResultNewest(Completed)
    BY <2>1, <2>2 DEF CurrentInv, NewestAnalysis
  <2>4. Completed.basis = notified
    BY <2>1, <2>3 DEF ResultNewest
  <2>5. published'[u] = [kind |-> IF u \in Completed.errors THEN "error" ELSE "diagnostics",
                         document |-> Completed.documents[u]]
    BY <2>1 DEF PublishedDiagnostics
  <2>6. published'[u].kind # "cleared" /\ published'[u].document = Completed.documents[u]
    BY <2>5
  <2> QED
    BY <2>1, <2>4, <2>6
<1> QED
  BY <1>1, <1>2, <1>3, StepKinds DEF Quiet, HandleShutdown, HandleDidOpen, HandleDidChange,
     HandleWatchedFiles, CompleteWithFileChanges, CompleteSuperseded, CompleteCanceled,
     RunAnalysis, WorkerBegin, WorkerAbandon, WorkerFinish, WorkerDrop, WorkerStep,
     Fail, documentVars

\* Whatever the client, the workers and the backend do, every publication is current:
\* cleared diagnostics are of a closed document, others of its present version and
\* text, computed with every handled file change known (publishAnalysis, didClose).
THEOREM PublishesCurrent == Spec => PublishCurrent
<1>1. CurrentInv /\ [Next]_vars => [PublicationsCurrent]_vars
  BY PublicationStep
<1> QED
  BY CurrentInit, CurrentStep, <1>1, PTL DEF Spec, PublishCurrent
=============================================================================
