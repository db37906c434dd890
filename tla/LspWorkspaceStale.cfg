\* A result that imports a package whose own result is not retained.
SPECIFICATION Spec
CONSTANTS
    lib = lib
    gen = gen
    app = app
    mod = mod
    old = old
    new = new
    main = main
    Absent = Absent
    Unchecked = Unchecked
    Groups = {1, 2}
    Roots = {main}
    RootOf <- MCRootOf
    Covers <- MCCovers
    Imports <- MCImports
    WithDependencies = {1, 2}
    Files = {lib, gen, app}
    GroupOf <- MCGroupOf
    Opened <- MCOpened
    Saved <- MCSaved
    Ungrouped = {}
    Controls = {mod}
    Texts = {old, new}
    Size <- MCSize
    MaximumEntries = 1
    MaximumBytes = 4
    MaximumChangedFiles = 1
    InitialDisk <- MCDisk
    MaxChanges = 1
CHECK_DEADLOCK FALSE
INVARIANT ResultsCurrent
