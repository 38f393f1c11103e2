SPECIFICATION Spec
CONSTANTS
    Measurements = {m1, m2}
    Categories = {c1}
    Ids = {i1}
    Measured = {c1, All}
    Times = {1, 3}
    Counts <- MCCounts
    TimeWords = 4
    CounterWords = 64
    MaxMakes = 2
    All = All
    None = None
SYMMETRY MCSymmetry
INVARIANTS
    AverageInRange
    SentToLivingStage
PROPERTY PersistentKept
CHECK_DEADLOCK FALSE
