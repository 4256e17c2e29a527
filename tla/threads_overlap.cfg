CONSTANTS
    first = first other = other later = later
    Calls = {first, other, later}
    Plans <- MCOverlap
    Tools = {"m"}
    MaxConn = 1
    MaxEvents = 1
    MaxCrash = 0
SPECIFICATION Spec
CHECK_DEADLOCK FALSE
INVARIANT OneActiveTurn
