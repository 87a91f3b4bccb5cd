SPECIFICATION Spec
CONSTANTS
    t1 = t1
    t2 = t2
    Trees = {t1, t2}
    NoTree = NoTree
    Last = 3
    Production = FALSE
    Verdicts = {"approve", "approve-with-conditions", "request-changes", "waive", "reopen"}
    Meddling = {}
    MaxRework = 0
    MaxReject = 0
    MaxReopen = 1
    MaxCrash = 1
SYMMETRY TreeSymmetry
INVARIANTS TypeOK WalkInOrder ShipNeedsApproval SucceededIsComplete
PROPERTIES ShipOnlyReleasable
CHECK_DEADLOCK FALSE
