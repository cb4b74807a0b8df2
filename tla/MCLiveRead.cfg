CONSTANTS
    None = None
    a = a
    Sessions <- MCSessions
    MaxChanges = 5
    MaxOthers = 1
    MaxRace = 1
SPECIFICATION Spec
INVARIANTS
    HeldFits
    PricedCurrent
PROPERTIES
    Promise
