SPECIFICATION Spec
CONSTANTS
    a = a
    b = b
    c = c
    p = p
    q = q
    r = r
    Contender = {a, b, c}
    Process = {p, q, r}
    ProcOf <- OneEach
    HostOf <- Hosts
    MaxAttempts = 3
    Locks = {"delivery", "finalization"}
    MaxUses <- Uses
    NoTicket = NoTicket
INVARIANTS TypeOK ExclusiveUnlessRobbed
PROPERTIES RobbedOnlyByLateUnlink CrashNeverDeadlocks
CHECK_DEADLOCK FALSE
