\* Any operations of three goroutines in two processes.
SPECIFICATION Spec
CONSTANTS
    p1 = p1
    p2 = p2
    p3 = p3
    one = one
    other = other
    small = small
    large = large
    Corrupt = Corrupt
    Absent = Absent
    Procs <- MCProcs
    Stores <- MCStores
    StoreOf <- MCStoreOf
    Keys = {1, 2}
    Values <- MCValues
    Size <- MCSize
    Workloads <- MCWorkloads
    MaxEntries = 1
    MaxBytes = 2
    MaxDamage = 1
    MaxTime = 2
\* Operations end.
SYMMETRY MCSymmetry
CHECK_DEADLOCK FALSE
INVARIANTS
    TypeOK
PROPERTIES
    OutcomesTrue
    NoOverwrite
    RepairSparesOwnStore
    PruneKeepsNewest
