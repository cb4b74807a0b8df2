CONSTANTS
    None = None
    Null = Null
    hello = hello
    Prompts = {hello}
    Usages = {1, 2}
    MaxLines = 7
    MaxTiers = 2
    Builds <- MCBuilds
    MaxEntries = 4
    MaxTime = 1
    MaxDetours = 2
SPECIFICATION LogsSpec
CHECK_DEADLOCK FALSE
INVARIANTS
    TurnsAreRequests
    ToolsAreTheirTurns
    WarnsOfLoss
    TimingIsOwn
    SpendCountedOnce
    PromptIsOfBranch
