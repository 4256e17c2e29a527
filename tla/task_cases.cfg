SPECIFICATION CasesSpec
CONSTANTS
  None = None
  pa = pa
  pb = pb
  Tasks = {t1}
  Orders = {o1, o2}
  Workers = {w1, w2}
  Clients = {c1}
  Procs = {pa, pb}
  Proc <- MCProc
  PlainTasks = {}
  KindOf = "fenced"
  Kind <- MCKind
  Faults = {"definite", "ambiguous"}
  Crashable = {pa, pb}
  Resolutions = {"settled", "refunded"}
  Reconciles = TRUE
  LeaseFaults = {"definite", "renew"}
  TakeoverFaults = {"envelope", "definite", "ambiguous", "slot", "persist", "save"}
  TokenFaults = {"record"}
  MaxGen = 4
  CrashBound = 1
  StallBound = 1
  CancelBound = 0
  RetryBound = 1
  Budget <- MCBudget
SYMMETRY Symmetry
INVARIANT TypeOK
INVARIANT NoSharedLease
INVARIANT ResultFromOwnOrder
INVARIANT OnePostPerOrder
PROPERTY ImplementsBilling
CHECK_DEADLOCK FALSE
