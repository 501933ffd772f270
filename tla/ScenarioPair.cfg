SPECIFICATION Spec
CONSTANTS
    t1 = t1
    t2 = t2
    x = x
    a = a
    b = b
    None = None
    Test = {t1, t2, x}
    Scenario = {a, b}
    Libraries <- PairLibraries
    Requests <- AnyRequest
    MaxRequests = 2
INVARIANTS
    OneScenario
    NoOrphans
    PanicNeedsSecondRequest
PROPERTIES
    RunGoesForward
CHECK_DEADLOCK FALSE
