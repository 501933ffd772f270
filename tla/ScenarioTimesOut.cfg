SPECIFICATION Spec
CONSTANTS
    t1 = t1
    t2 = t2
    x = x
    a = a
    b = b
    None = None
    Test = {t1, t2, x}
    Scenario = {a}
    Libraries <- TimedScenario
    Requests <- StartOnly
    MaxRequests = 1
INVARIANTS
    AllTestsPassed
CHECK_DEADLOCK FALSE
