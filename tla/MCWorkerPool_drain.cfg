SPECIFICATION FairSpec
CONSTANTS
    w1 = w1
    w2 = w2
    Worker = {w1, w2}
    N = 2
    MaxAttempts = 2
    Stores = {"postgres", "memory"}
    Faults = {"claim", "heartbeat", "complete", "fail", "git"}
    MaxFaults = 2
INVARIANTS TypeOK PostgresClaimsExclusive MergedAreDone ReportAgrees NeverDropped
PROPERTY EndsOrDies
CHECK_DEADLOCK FALSE
