CONSTANTS
    a1 = a1 a2 = a2 a3 = a3 a4 = a4
    p1 = p1 p2 = p2 p3 = p3 p4 = p4
    u1 = u1 u2 = u2 u3 = u3
    Assets = {a1, a2, a3, a4}
    Projects = {p1, p2, p3, p4}
    Users = {u1, u2, u3}
    Owner <- MCOwner
    Plans <- MCPlans
    MaxEdits = 3
SPECIFICATION Spec
CHECK_DEADLOCK FALSE
INVARIANT TypeOK
INVARIANT IsolatedUnlessCrossed
INVARIANT EditsKept
 
INVARIANT BatchDeletedStaysDeleted
SYMMETRY Symmetric
