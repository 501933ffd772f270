SPECIFICATION Spec
CONSTANTS
    j1 = j1
    j2 = j2
    t = t
    s1 = s1
    s2 = s2
    i = i
    Jig = {j1, j2}
    Test = {t}
    Scenario = {s1, s2}
    Interface = {i}
    Logger = {}
    Trigger = {}
    Jigs <- MCJigs
    TestsOf <- MCTestsOf
    Default <- MCDefault
    None = None
    Listings <- MCListings
    MaxReports = 5
INVARIANTS
    JigDependentsLoad
CHECK_DEADLOCK FALSE
