SPECIFICATION Spec
CONSTANTS
    Clients = {c1, c2}
    Cells = {x1, x2}
    Asker = c1
    Editors = {c1, c2}
    Plans <- MCPlans
    MaxEdits = 2
    MaxDrops = 1
    MaxReads = 1
    MaxSent = 2
INVARIANT TypeOK
INVARIANT BaseIsHistory
INVARIANT InFlightAnswered
INVARIANT UnsavedIsDue
INVARIANT EditsKept
CHECK_DEADLOCK FALSE
