---------------------------- MODULE MCUserDataSync ----------------------------
(* Three users.  The plans of one user are u1's, who owns two assets and     *)
(* two canvases, or u2's; where the user changes it is u2 and u3, who have   *)
(* one of each.  In MCDropPlan, where an answer crosses the change, it is    *)
(* u1 who leaves: one of two assets is deleted, the other is in the list.    *)
EXTENDS UserDataSync, TLC

CONSTANTS a1, a2, a3, a4, p1, p2, p3, p4, u1, u2, u3

MCOwner == [i \in {a1, a2, a3, a4, p1, p2, p3, p4} |->
                IF i \in {a3, p3} THEN u2 ELSE IF i \in {a4, p4} THEN u3 ELSE u1]
Plan(us, os, fs) == [users |-> us, ops |-> os, faults |-> fs]
MCPlans == {
    Plan(<<u1>>, {"edit", "save"}, {"upload"}),
    Plan(<<u2>>, {"edit", "save"}, {"request", "answer", "upload"}),
    Plan(<<u1>>, {"edit", "drop", "other"}, {"request", "answer"}),
    Plan(<<u1>>, {"edit", "save", "other"}, {}),
    Plan(<<u1>>, {"new", "agent"}, {}),
    Plan(<<u1>>, {"agent"}, {"request", "answer"}),
    Plan(<<u2>>, {"new", "delete"}, {"request", "answer"}),
    Plan(<<u1>>, {"new", "delete"}, {}),
    Plan(<<u2>>, {"new", "edit", "delete"}, {}),
    Plan(<<u1, u1>>, {"agent", "other"}, {}),
    Plan(<<u2, u3, u2>>, {"edit"}, {}),
    Plan(<<u2, u3>>, {"edit", "drop"}, {}),
    Plan(<<u2, u3>>, {"edit", "save"}, {}),
    Plan(<<u2, u3>>, {"new", "delete"}, {}),
    Plan(<<u2, u3>>, {"agent", "edit"}, {})}
MCDropPlan == {Plan(<<u1, u2>>, {"edit", "drop"}, {})}
Symmetric == Permutations({a1, a2}) \cup Permutations({p1, p2})

=============================================================================
