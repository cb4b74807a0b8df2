CONSTANTS
    None = None
    FastMultiplier = 2
    UsdPerCredit = 3
    Card <- MCCard
    ApiPrices <- MCApiPrices
    Aliases <- MCAliases
    ApiProviders = {"first"}
    ClaudeModels = {}
    SpinMin = 1
    SpinMax = 2
    TtftEdges <- MCTtftEdges
    TpsEdges <- MCTpsEdges
    PerSecond = 2
    Toggles <- MCToggles
    DefaultToggles <- MCDefaults
    DayLength = 3
    MaxDays = 2
    Unnamed = Unnamed
    Earlier = Earlier
    Later = Later
    Sessions = {"p", "c", "g", "n"}
    SourceOf <- MCSourceOf
    Families <- MCFamilies
    Histories <- MCHistories
    NamesOf <- MCNamesOf
    Event <- MCEvent
    UserChoices <- MCUserChoices
    Removable = {"c"}
    LiveFor = 3
    Start = 6
    MaxTime = 7
    MaxWrites = 1
    Queries <- MCQueries
SPECIFICATION ReportSpec
CHECK_DEADLOCK FALSE
INVARIANTS
    TreesAddUp
    WasteCountsOnce
    OverviewAddsUp
    TasksWithinLedger
    RereadsAreRepeats
