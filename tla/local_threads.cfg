CONSTANTS
    first = first other = other later = later
    Calls = {first, other, later}
    Plans <- MCPlans
    Tools = {"m"}
    MaxConn = 2
    MaxEvents = 1
    MaxCrash = 1
SPECIFICATION Spec
CHECK_DEADLOCK FALSE
INVARIANT TypeOK
INVARIANT NoTurnBeside
INVARIANT RecordedUnlessArchived
INVARIANT AttachmentsReleased
INVARIANT NoRunningOrphan
INVARIANT NoUnseenTurn
