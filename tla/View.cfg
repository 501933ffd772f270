SPECIFICATION FairSpec
CONSTANTS
    j1 = j1
    j2 = j2
    s1 = s1
    i1 = i1
    Jig = {j1, j2}
    Test = {}
    Scenario = {s1}
    Interface = {i1}
    Logger = {}
    Trigger = {}
    Jigs <- MCJigs
    TestsOf <- MCTestsOf
    Default <- MCDefault
    None = None
    MaxInputs = 3
    MaxChanged = 1
INVARIANTS
    StaleIsAnnounced
PROPERTIES
    Greeted
CHECK_DEADLOCK FALSE
