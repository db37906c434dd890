SPECIFICATION FairSpec
CHECK_DEADLOCK FALSE
CONSTANTS
    u1 = u1
    u2 = u2
    t1 = t1
    t2 = t2
    f1 = f1
    f2 = f2
    r1 = r1
    r2 = r2
    r3 = r3
    r4 = r4
    Nil = Nil
    Uris = {u1}
    Texts = {t1}
    Versions = {1, 2}
    Files = {f1}
    Ids = {r1, r2}
    FileBackend = TRUE
    MaximumPendingAnalysisRequests = 1
    MaximumPendingCancellations = 1
    MaximumWatchedFileChanges = 1
    ReadCapacity = 1
    ResultCapacity = 1
    Notifications <- LiveLists
    Sessions <- LiveSessions
PROPERTIES
    RequestsAnswered
    DiagnosticsConverge
