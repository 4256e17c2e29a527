-------------------------- MODULE MCTaskExecution --------------------------
(***************************************************************************)
(* Small instances of TaskExecution for TLC: one task with two billing     *)
(* orders (the first attempt and one retry), two workers of one process,   *)
(* so that they share a lease owner, and clients in another process.  The  *)
(* liveness instance has two tasks of different kinds and one worker.      *)
(***************************************************************************)
EXTENDS TaskExecution, TLC

CONSTANTS pa, pb,        \* the workers' process and the clients' process
          PlainTasks,    \* the tasks whose adapter has no creation boundary
          KindOf,        \* the kind of the other tasks
          CrashBound, StallBound, CancelBound, RetryBound

MCProc == [x \in Workers \cup Clients |-> IF x \in Workers THEN pa ELSE pb]
MCKind == [t \in Tasks |-> IF t \in PlainTasks THEN "plain" ELSE KindOf]
MCBudget == [crash |-> CrashBound, stall |-> StallBound,
             cancel |-> CancelBound, retry |-> RetryBound]

\* Workers of one process and orders not yet used are interchangeable.
Symmetry == Permutations(Workers) \cup Permutations(Orders)
=============================================================================
