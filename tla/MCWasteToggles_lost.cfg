CONSTANTS
    x = x
    y = y
    all = all
    narrow = narrow
    None = None
    Ids <- MCIds
    Scopes <- MCScopes
    Initially <- MCOne
    Openings <- MCOnX
    InScope <- MCInScope
    HomeScope <- MCHomeScope
    Rules <- MCRules
    r1 = r1
    r2 = r2
    MaxUser = 2
    MaxWorld = 0
    MaxSaveFailures = 0
SPECIFICATION TSpec
PROPERTIES
    SavedChoiceKept
