SPECIFICATION FairSpec
CONSTANTS
    Callers = {app, user}
    Setup = app
    app = app
    Clients = {k}
    Cap = 1
    MaxGen = 2
    MaxFaults = 1
INVARIANTS TypeOK StatusFollowsNewest
PROPERTIES ReplacedEnginesEnd NeverBlind
CHECK_DEADLOCK FALSE
