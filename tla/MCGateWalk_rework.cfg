SPECIFICATION Spec
CONSTANTS
    t1 = t1
    t2 = t2
    Trees = {t1, t2}
    NoTree = NoTree
    Last = 2
    Production = FALSE
    Verdicts = {"approve", "request-changes"}
    Meddling = {}
    MaxRework = 1
    MaxReject = 0
    MaxReopen = 0
    MaxCrash = 1
SYMMETRY TreeSymmetry
INVARIANTS OpenOnlyAfterCompletedRun
CHECK_DEADLOCK FALSE
