SPECIFICATION FairSpec
CONSTANTS
    t1 = t1
    t2 = t2
    Trees = {t1, t2}
    NoTree = NoTree
    Last = 2
    Production = TRUE
    Verdicts = {"approve", "reject"}
    Meddling = {"edit", "drift", "repo"}
    MaxRework = 0
    MaxReject = 1
    MaxReopen = 0
    MaxCrash = 1
INVARIANTS OnlyVerifiedTreesShip ShipNeedsFreshScreening UnlockedOnlyAfterDemotion
PROPERTIES PendingReleaseResolves
CHECK_DEADLOCK FALSE
