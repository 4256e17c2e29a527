SPECIFICATION Spec
CONSTANTS
  None = None
  pa = pa
  pb = pb
  Tasks = {t1}
  Orders = {o1, o2}
  Workers = {w1, w2}
  Clients = {c1}
  Procs = {pa, pb}
  Proc <- MCProc
  PlainTasks = {}
  KindOf = "fenced"
  Kind <- MCKind
  Faults = {"definite", "ambiguous", "record", "persist", "save"}
  Crashable = {pa, pb}
  Resolutions = {"settled"}
  Reconciles = TRUE
  MaxGen = 5
  CrashBound = 0
  StallBound = 0
  CancelBound = 1
  RetryBound = 1
  Budget <- MCBudget
SYMMETRY Symmetry
INVARIANT NoGuessedRefund
INVARIANT FailedIsResolved
INVARIANT SucceededIsCharged
INVARIANT RetryWaitsForReview
CHECK_DEADLOCK FALSE
