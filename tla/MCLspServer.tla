---------------------------- MODULE MCLspServer ----------------------------
(***************************************************************************)
(* Small sessions of LspServer for TLC.  A budget says how many messages   *)
(* of each kind the client may send and how many faults may occur; the     *)
(* kinds it does not name do not occur.                                    *)
(***************************************************************************)
EXTENDS LspServer, TLC

CONSTANTS u1, u2, t1, t2, f1, f2, r1, r2, r3, r4

Symmetry == Permutations(Ids) \cup Permutations(Texts) \cup Permutations(Uris)
              \cup Permutations(Files)

Session(inputs) == inputs @@ [kind \in InputKinds |-> 0]

\* Two documents are opened, changed and closed in every order.
EditSession == Session([initialize |-> 1, didOpen |-> 2, didChange |-> 1, didClose |-> 1])

\* Files change on disk while a document is analyzed, until shutdown.
WatchSession == Session([initialize |-> 1, didOpen |-> 1, didClose |-> 1,
                         didChangeWatchedFiles |-> 2, shutdown |-> 1])
WatchLists == {<<f1>>, <<f2>>, <<f1, f2>>, <<f2, f1>>, <<>>}

\* Files change while a code action waits.
WaitSession == Session([initialize |-> 1, didOpen |-> 1, codeAction |-> 1,
                        didChangeWatchedFiles |-> 1, shutdown |-> 1])

\* Code actions wait for an analysis that an edit supersedes, until the end of input.
RequestSession == Session([initialize |-> 1, didOpen |-> 1, didChange |-> 1,
                           codeAction |-> 2, eof |-> 1])

\* A waiting code action is canceled, and an edit supersedes its analysis.
RejectSession == Session([initialize |-> 1, didOpen |-> 1, didChange |-> 1,
                          codeAction |-> 1, cancelRequest |-> 1])

\* Cancellations race the requests and the end of the session.
CancelSession == Session([initialize |-> 1, didOpen |-> 1, codeAction |-> 2,
                          cancelRequest |-> 2, eof |-> 1, exit |-> 1])

\* A session of one document that ends in every way a session can end.
FaultSession == Session([initialize |-> 1, didOpen |-> 1, formatting |-> 1,
                         initialized |-> 1, response |-> 1, readError |-> 1,
                         shutdown |-> 1, endContext |-> 1, outputError |-> 1,
                         analysisError |-> 1])

\* A session of one document with messages the server does not take.
InvalidSession == Session([initialize |-> 1, didOpen |-> 1, unknown |-> 1,
                           notification |-> 1, malformed |-> 1, badParams |-> 1,
                           shutdown |-> 1])

\* The client cancels an answered request, and then one that waits.
OverflowSession == Session([initialize |-> 1, didOpen |-> 1, codeAction |-> 2,
                            cancelRequest |-> 2])

\* A document is opened and changed while files change and a request waits.
LiveSession == Session([initialize |-> 1, didOpen |-> 1, didChange |-> 1, eof |-> 1,
                        didChangeWatchedFiles |-> 1, codeAction |-> 1])
LiveLists == {<<f1>>}

SafetySessions == {EditSession, WatchSession, WaitSession, RequestSession,
                   RejectSession, CancelSession, FaultSession, InvalidSession}
OverflowSessions == {OverflowSession}
LiveSessions == {LiveSession}

NoLists == {}
=============================================================================
