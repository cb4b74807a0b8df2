CONSTANTS
    log = log
    x = x
    y = y
    NoPath = NoPath
    Logs <- MCLogs
    Dbs <- MCDbs
    Imports <- MCImports
    Ids <- MCIds
    MayName <- MCMayName
    MayHold <- MCMayHold
    MaxWrites = 3
    MaxCrashes = 1
    MaxPatches = 0
    MaxFailures = 0
SPECIFICATION WSpec
INVARIANTS
    ObservedIsHandled
PROPERTIES
    Converges
    DropsGoneFiles
