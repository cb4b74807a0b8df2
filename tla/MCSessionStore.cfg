CONSTANTS
    log = log
    db = db
    imported = imported
    x = x
    y = y
    NoPath = NoPath
    Logs <- MCLogs
    Dbs <- MCDbs
    Imports <- MCImports
    Ids <- MCIds
    MayName <- MCMayName
    MayHold <- MCMayHold
    MaxWrites = 3
    MaxCrashes = 1
    MaxPatches = 1
SPECIFICATION Spec
INVARIANTS
    TypeOK
    TogglesMatchSources
    FingerprintIsOfSource
    DbSessionsListed
    CleanDumpIsComplete
PROPERTIES
    NeverOlder
    DbPrecedence
    UserTogglesKept
    ImportKeepsExisting
