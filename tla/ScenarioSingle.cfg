SPECIFICATION FairSpec
CONSTANTS
    t1 = t1
    t2 = t2
    x = x
    a = a
    b = b
    None = None
    Test = {t1, t2, x}
    Scenario = {a}
    Libraries <- SingleLibraries
    Requests <- StartOnly
    MaxRequests = 2
INVARIANTS
    TypeOK
    ReportedOnce
    OneDriver
    ResultFromRunningTest
    SuccessMeansAllPassed
    ShownIsRecorded
PROPERTIES
    RunEnds
    KeepsPromise
CHECK_DEADLOCK FALSE
