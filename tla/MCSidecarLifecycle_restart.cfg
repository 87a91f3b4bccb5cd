SPECIFICATION Spec
CONSTANTS
    Callers = {app}
    Setup = app
    app = app
    Clients = {}
    Cap = 1
    MaxGen = 2
    MaxFaults = 0
INVARIANTS RestartConnects
CHECK_DEADLOCK FALSE
