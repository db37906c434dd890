\* Two packages of one root, of which one may not fit beside the other.
SPECIFICATION Spec
CONSTANTS
    lib = lib
    gen = gen
    app = app
    mod = mod
    old = old
    new = new
    main = main
    Absent = Absent
    Unchecked = Unchecked
    Groups = {1, 2}
    Roots = {main}
    RootOf <- MCRootOf
    Covers <- MCCovers
    Imports <- MCImports
    WithDependencies = {}
    Files = {lib, gen, app}
    GroupOf <- MCGroupOf
    Opened <- MCOpened
    Saved <- MCSaved
    Ungrouped = {lib}
    Controls = {mod}
    Texts = {old, new}
    Size <- MCSize
    MaximumEntries = 2
    MaximumBytes = 4
    MaximumChangedFiles = 1
    InitialDisk <- MCDisk
    MaxChanges = 2
CHECK_DEADLOCK FALSE
INVARIANTS
    TypeOK
    GuardedCurrent
    ChangesKept
