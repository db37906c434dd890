SPECIFICATION Spec
CHECK_DEADLOCK FALSE
CONSTANTS
    FileCount = 3
    MaxEdits = 2
INVARIANTS
    TypeOK
    ReportTrue
    ReportCurrent
PROPERTIES
    FreshSelections
