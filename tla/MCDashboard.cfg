CONSTANTS
    x = x
    y = y
    all = all
    narrow = narrow
    None = None
    Ids <- MCIds
    Scopes <- MCScopes
    Initially <- MCOne
    Openings <- MCEither
    InScope <- MCInScope
    HomeScope <- MCHomeScope
    Rules = {}
    MaxUser = 2
    MaxWorld = 1
SPECIFICATION Spec
INVARIANTS
    TypeOK
    LoadingIsReal
    ConfirmedImportListed
    UpdateReachesList
PROPERTIES
    ListNeverOlder
    ShowsLatest
