\* Two operations of any kind against one change by another program.
SPECIFICATION Spec
CONSTANTS
    p1 = p1
    p2 = p2
    old = old
    edited = edited
    formatted = formatted
    Nil = Nil
    Torn = Torn
    Procs <- MCProcs
    Contents <- MCContents
    Modes = {"0600", "0644"}
    Private = "0600"
    Size <- MCSize
    Rewrite <- MCRewrite
    Created = old
    CreateMode = "0644"
    MaxEdits = 1
\* Operations end and other programs stop changing the file.
SYMMETRY MCSymmetry
CHECK_DEADLOCK FALSE
INVARIANTS
    TypeOK
    SuccessDurable
    NoTemporaryLeft
PROPERTIES
    NoChangeOverwritten
    InstalledWhole
    ImplementsContract
