\* Writes of two processes to one key; nothing is pruned or spoiled.
SPECIFICATION Spec
CONSTANTS
    p1 = p1
    p2 = p2
    p3 = p3
    one = one
    other = other
    small = small
    large = large
    Corrupt = Corrupt
    Absent = Absent
    Procs <- MCProcs
    Stores <- MCStores
    StoreOf <- MCStoreOf
    Keys = {1, 2}
    Values <- MCValues
    Size <- MCSize
    Workloads <- ConflictWorkloads
    MaxEntries = 1
    MaxBytes = 2
    MaxDamage = 0
    MaxTime = 2
\* Operations end.
CHECK_DEADLOCK FALSE
INVARIANTS
    DifferentValuesConflict
