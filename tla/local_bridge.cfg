SPECIFICATION Spec
CONSTANTS
    Tools = {1, 2}
    Approval = {2}
    Closers = {c1}
    Plans <- MCPlans
    MaxTurns = 2
INVARIANT TypeOK
INVARIANT ToldIsBackends
INVARIANT QuietEnd
INVARIANT ClosedEndsRun
INVARIANT NotLeftWaiting
CHECK_DEADLOCK FALSE
