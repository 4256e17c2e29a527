--------------------------- MODULE MCLocalThreads ---------------------------
(* Instances of LocalThreads for TLC. *)
EXTENDS LocalThreads

CONSTANTS first, other, later

Asks(op, id) == [op |-> op, id |-> id]
\* A thread is started; then come a second and a third call.
Plan(second, third, fs, serial) ==
    [asks |-> [x \in Calls |-> IF x = first THEN Asks("start", first) ELSE IF x = other THEN second ELSE third],
     faults |-> fs, serial |-> serial]

\* The request is repeated, the thread is resumed, continued for a repair, or
\* archived.  In the last two plans requests overlap.
MCPlans == {
    Plan(Asks("resume", other), Asks("archive", later), FaultKinds, TRUE),
    Plan(Asks("start", first), Asks("archive", later), {"store", "run", "crash"}, TRUE),
    Plan(Asks("resume", other), Asks("resume", other), {"store", "run", "crash"}, TRUE),
    Plan(Asks("repair", other), Asks("resume", later), {"stream"}, TRUE),
    Plan(Asks("repair", other), Asks("resume", later), {"store", "run", "codex", "crash"}, TRUE),
    Plan(Asks("repair", other), Asks("resume", later), {"store", "run", "codex"}, FALSE),
    Plan(Asks("resume", other), Asks("archive", later), {"cleanup", "stream"}, FALSE)}
MCOverlap == {Plan(Asks("resume", other), Asks("resume", later), {}, FALSE)}
=============================================================================
