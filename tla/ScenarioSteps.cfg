SPECIFICATION Spec
CONSTANTS
    t1 = t1
    t2 = t2
    t3 = t3
    None = None
    Test = {t1, t2, t3}
    Descriptions <- AllDescriptions
INVARIANTS
    FindNextStateAgrees
    EveryTestHasVerdict
