CONSTANTS
    log = log
    imported = imported
    p1 = p1
    p2 = p2
    None = None
    Watched <- MCLog
    Imported <- MCImported
    Posts <- MCPosts
    MaxDays = 1
    MaxDeletes = 1
    MaxFailures = 1
    MaxCrashes = 1
SPECIFICATION Spec
INVARIANTS
    QwenPricesCurrent
    CodexPricesSettled
PROPERTY QwenKeepsUp
