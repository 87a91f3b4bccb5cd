SPECIFICATION Spec
CONSTANTS
    a = a
    b = b
    c = c
    p = p
    q = q
    r = r
    Contender = {a, b}
    Process = {p, q, r}
    ProcOf <- OneEach
    HostOf <- Hosts
    MaxAttempts = 3
    Locks = {"delivery"}
    MaxUses <- Uses
    NoTicket = NoTicket
INVARIANT MutualExclusion
CHECK_DEADLOCK FALSE
