SPECIFICATION Spec
CONSTANTS
    Tools = {1, 2}
    Approval = {2}
    Closers = {c1}
    Plans <- MCPlans
    MaxTurns = 2
INVARIANT PendingUntilResolved
CHECK_DEADLOCK FALSE
