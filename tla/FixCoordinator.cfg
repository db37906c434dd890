SPECIFICATION Spec
CHECK_DEADLOCK FALSE
CONSTANTS
    Length = 4
    Shapes <- MCShapes
    MaxSelections = 3
    Authorized = {"safe"}
INVARIANTS
    TypeOK
    SweepFindsClashes
    AppliedWhole
