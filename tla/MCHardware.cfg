CONSTANTS
    None = None
    Idle = Idle
    Asked = Asked
    GpuLimits <- MCLimits
    WarmMargin = 8
    CpuSensors = {"temp1"}
    Scalars = {"fan"}
    PowerKeys = {"cpu", "machine"}
    Second = 2
    MaxTime = 6
    MaxFaults = 1
    Labels <- MCLabels
    Scrapes <- MCScrapes
    Failures <- MCFailures
    Value <- MCValue
    SnapWindow = 1
    HistWindow = 2
    HistStep = 1
    Stale = 1
    QuickRanges = {4, 5}
    DefaultRange = 4
    SampleSteps <- MCSteps
    WideSteps <- MCWideSteps
    MaxSamples = 2
    MaxColumns = 1
    InstantStep = 2
    MaxSpan = 6
    Windows <- MCWindows
SPECIFICATION Spec
INVARIANTS
    ReadingsAreReal
    LinkFollowsPolls
    EnergyIsMeasured
PROPERTIES
    GetsLive
