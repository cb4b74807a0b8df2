CONSTANTS
    x = x
    y = y
    all = all
    narrow = narrow
    None = None
    Ids <- MCIds
    Scopes <- MCScopes
    Initially <- MCBoth
    Openings <- MCOnX
    InScope <- MCInScope
    HomeScope <- MCHomeScope
    Rules <- MCOneRule
    r1 = r1
    r2 = r2
    MaxUser = 2
    MaxWorld = 1
    MaxSaveFailures = 2
SPECIFICATION TSpec
INVARIANTS
    UnsavedIsFlagged
