SPECIFICATION FairSpec
CONSTANTS
  None = None
  pa = pa
  pb = pb
  Tasks = {t1, t2}
  Orders = {o1, o2}
  Workers = {w1}
  Clients = {c1}
  Procs = {pa, pb}
  Proc <- MCProc
  PlainTasks = {t2}
  KindOf = "fenced"
  Kind <- MCKind
  Faults = {"save"}
  Crashable = {pa, pb}
  Resolutions = {}
  Reconciles = FALSE
  MaxGen = 9
  CrashBound = 1
  StallBound = 0
  CancelBound = 1
  RetryBound = 0
  Budget <- MCBudget
INVARIANT RunningIsRetryable
INVARIANT CancelledResultStorable
PROPERTY TaskEnds
PROPERTY CancelledResultKept
CHECK_DEADLOCK FALSE
