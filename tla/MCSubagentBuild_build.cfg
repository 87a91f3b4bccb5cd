SPECIFICATION FairSpec
CONSTANTS
    a = a
    b = b
    ux = ux
    N = 3
    Deps <- MCDeps
    Cases = {a, b, ux}
    CasesOf <- MCCasesOf
    Flaky = {b}
    Plans <- MCPlans
    MaxLines = 1
    StallRounds = 2
    FixCycles = 1
    Guard = 4
    MaxBuilds = 2
INVARIANTS TypeOK WallsBeforeEvidence NoWorkOnRedPrerequisite ConvergeOrStall CancelIsFinal
PROPERTIES KeepsContract BuildEnds
CHECK_DEADLOCK FALSE
