SPECIFICATION FairSpec
CHECK_DEADLOCK FALSE
CONSTANTS
    w1 = w1
    w2 = w2
    TaskCount = 3
    Workers = {w1, w2}
INVARIANTS
    TypeOK
    PreparedFirst
    FailureIndependent
    Disclosed
    OutcomeTrue
PROPERTIES
    Terminates
