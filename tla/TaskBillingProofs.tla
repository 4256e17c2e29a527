------------------------- MODULE TaskBillingProofs -------------------------
(***************************************************************************)
(* TaskExecution implements BillingLifecycle, for every instance: each     *)
(* transaction of each actor moves at most one order, along its life cycle.*)
(*                                                                         *)
(* Then how a charge ends.  The lemmas of the first sections list every    *)
(* way a step can change one row, one order, one worker, one request or    *)
(* one job; each theorem's invariant is proved from the few changes that   *)
(* concern it.                                                             *)
(***************************************************************************)
EXTENDS TaskAttemptProofs

\* The moves BillingLifecycle allows, staying included.
Legal(s, r) ==
    \/ r = s
    \/ s = "unused" /\ r = "reserved"
    \/ s = "reserved" /\ r = "running"
    \/ s \in {"reserved", "running"} /\ r = "uncertain"
    \/ s \in {"reserved", "running", "uncertain"} /\ r \in {"settled", "refunded"}

\* At most order o moves, and legally.
Moved(o) ==
    /\ Legal(order[o].status, order'[o].status)
    /\ \A x \in Orders \ {o} : order'[x].status = order[x].status

OrderStatus == [o \in Orders |-> order[o].status]

LEMMA MovedImplements ==
    ASSUME NEW o \in Orders, Moved(o)
    PROVE  [Billing!Next]_OrderStatus
  <1> DEFINE s == order[o].status
             r == order'[o].status
  <1>1. OrderStatus' = [OrderStatus EXCEPT ![o] = r]
      BY DEF Moved, OrderStatus
  <1>2. OrderStatus[o] = s
      BY DEF OrderStatus
  <1>3. CASE r = s
      BY <1>1, <1>2, <1>3 DEF OrderStatus
  <1>4. CASE s = "unused" /\ r = "reserved"
      <2>1. Billing!Reserve(o)
          BY <1>1, <1>2, <1>4 DEF Billing!Reserve, Billing!Move, OrderStatus
      <2> QED BY <2>1 DEF Billing!Next
  <1>5. CASE s = "reserved" /\ r = "running"
      <2>1. Billing!Start(o)
          BY <1>1, <1>2, <1>5 DEF Billing!Start, Billing!Move, OrderStatus
      <2> QED BY <2>1 DEF Billing!Next
  <1>6. CASE s \in {"reserved", "running"} /\ r = "uncertain"
      <2>1. Billing!Review(o)
          BY <1>1, <1>2, <1>6 DEF Billing!Review, Billing!Move, OrderStatus
      <2> QED BY <2>1 DEF Billing!Next
  <1>7. CASE s \in {"reserved", "running", "uncertain"} /\ r \in {"settled", "refunded"}
      <2>1. Billing!Close(o)
          BY <1>1, <1>2, <1>7
             DEF Billing!Close, Billing!Move, Billing!Open, Billing!Closed, OrderStatus
      <2> QED BY <2>1 DEF Billing!Next
  <1> QED BY <1>3, <1>4, <1>5, <1>6, <1>7 DEF Moved, Legal

\* A legal step of the orders.
Follows == [Billing!Next]_OrderStatus

LEMMA SameFollows == ASSUME UNCHANGED order PROVE Follows
  BY DEF Follows, OrderStatus

LEMMA SetFollows ==
    ASSUME OrderOK, NEW o \in Orders, NEW s, Legal(order[o].status, s),
           order' = SetBilling(o, s)
    PROVE  Follows
  <1>1. Moved(o)
      BY DEF Moved, SetBilling, OrderOK, OrderRow
  <1> QED BY <1>1, MovedImplements DEF Follows

LEMMA MarkFollows ==
    ASSUME OrderOK, NEW o \in Orders, order' = MarkedUncertain(o)
    PROVE  Follows
  <1>1. CASE order[o].status \in OpenBilling
      <2>1. Legal(order[o].status, "uncertain")
          BY <1>1 DEF OpenBilling, Legal
      <2> QED BY <1>1, <2>1, SetFollows DEF MarkedUncertain
  <1>2. CASE order[o].status \notin OpenBilling
      BY <1>2, SameFollows DEF MarkedUncertain
  <1> QED BY <1>1, <1>2

\* The provider request id may be written with the status.
LEMMA SetProvFollows ==
    ASSUME OrderOK, NEW o \in Orders, NEW s, NEW j, Legal(order[o].status, s),
           order' = [order EXCEPT ![o].status = s, ![o].prov = j]
    PROVE  Follows
  <1>1. Moved(o)
      BY DEF Moved, OrderOK, OrderRow
  <1> QED BY <1>1, MovedImplements DEF Follows

LEMMA MarkProvFollows ==
    ASSUME OrderOK, NEW o \in Orders, NEW j,
           \/ order' = [order EXCEPT ![o].prov = j]
           \/ order' = [MarkedUncertain(o) EXCEPT ![o].prov = j]
    PROVE  Follows
  <1>0. CASE \/ order' = [order EXCEPT ![o].prov = j]
             \/ /\ order[o].status \notin OpenBilling
                /\ order' = [MarkedUncertain(o) EXCEPT ![o].prov = j]
      <2>1. order' = [order EXCEPT ![o].prov = j]
          BY <1>0 DEF MarkedUncertain
      <2>2. Moved(o)
          BY <2>1 DEF Moved, Legal, OrderOK, OrderRow
      <2> QED BY <2>2, MovedImplements DEF Follows
  <1>1. CASE /\ order[o].status \in OpenBilling
             /\ order' = [MarkedUncertain(o) EXCEPT ![o].prov = j]
      <2>1. order' = [SetBilling(o, "uncertain") EXCEPT ![o].prov = j]
          BY <1>1 DEF MarkedUncertain
      <2>2. /\ order'[o].status = "uncertain"
            /\ \A x \in Orders \ {o} : order'[x].status = order[x].status
          BY <2>1 DEF SetBilling, OrderOK, OrderRow
      <2>3. Moved(o)
          BY <1>1, <2>2 DEF Moved, Legal, OpenBilling
      <2> QED BY <2>3, MovedImplements DEF Follows
  <1> QED BY <1>0, <1>1

LEMMA ReserveFollows ==
    ASSUME OrderOK, NEW o \in Orders, NEW t, order[o].status = "unused",
           order' = [order EXCEPT ![o] = [status |-> "reserved", prov |-> None, task |-> t]]
    PROVE  Follows
  <1>1. Moved(o)
      BY DEF Moved, Legal, OrderOK
  <1> QED BY <1>1, MovedImplements DEF Follows

LEMMA LoggedFollows ==
    ASSUME OrderOK, NEW o \in Orders, order' \in FailureLogged(o)
    PROVE  Follows
  BY MarkFollows, SameFollows DEF FailureLogged

----------------------------------------------------------------------------
(* The steps that touch an order *)

LEMMA WorkerFollows ==
    ASSUME TypeInv, NEW p \in Workers, WorkerStep(p) PROVE Follows
  <1> DEFINE w == worker[p]
             o == worker[p].ord
  <1>1. OrderOK /\ (w.pc \notin {"idle", "claimed"} => o \in Orders)
      BY Parts, WorkerFacts
  <1>2. CASE \/ Reread(p) \/ VerifyEnvelope(p) \/ UpdateTaskProgress(p)
             \/ ReadBilling(p) \/ CallFails(p) \/ ResumeJob(p)
             \/ BeginProviderCreate(p) \/ HandleError(p) \/ ScheduleReconciliation(p)
             \/ ReadLatest(p) \/ ClaimCancelledTaskResult(p) \/ UpdateTaskProgress90(p)
      <2>1. UNCHANGED order
          BY <1>2 DEF Reread, VerifyEnvelope, UpdateTaskProgress, ReadBilling,
             CallFails, ResumeJob, BeginProviderCreate, HandleError,
             ScheduleReconciliation, ReadLatest, ClaimCancelledTaskResult,
             UpdateTaskProgress90
      <2> QED BY <2>1, SameFollows
  <1>3. CASE StartBilling(p)
      <2>1. o \in Orders
          BY <1>1, <1>3 DEF StartBilling, At
      <2>2. CASE Startable(p)
          <3>1. order' = SetBilling(o, "running")
              BY <1>3, <2>2 DEF StartBilling
          <3>2. Legal(order[o].status, "running")
              BY <2>2 DEF Startable, Legal
          <3> HIDE DEF o
          <3> QED BY <1>1, <2>1, <3>1, <3>2, SetFollows
      <2>3. CASE ~Startable(p)
          BY <1>3, <2>3, SameFollows DEF StartBilling
      <2> QED BY <2>2, <2>3
  <1>4. CASE Post(p)
      <2>1. o \in Orders /\ (UNCHANGED order \/ order' \in FailureLogged(o))
          BY <1>1, <1>4 DEF Post, At
      <2> HIDE DEF o
      <2> QED BY <1>1, <2>1, SameFollows, LoggedFollows
  <1>5. CASE SaveProviderCall(p)
      <2> DEFINE f == MarkedUncertain(o)
      <2>1. o \in Orders
          BY <1>1, <1>5 DEF SaveProviderCall, At
      <2>2. \/ order' = [order EXCEPT ![o].prov = w.job]
            \/ order' = [f EXCEPT ![o].prov = w.job]
            \/ order' = [f EXCEPT ![o].prov = f[o].prov]
          BY <1>5 DEF SaveProviderCall
      <2> HIDE DEF o
      <2> QED BY <1>1, <2>1, <2>2, MarkProvFollows
  <1>6. CASE Poll(p)
      <2>1. /\ o \in Orders
            /\ \/ UNCHANGED order \/ order' \in FailureLogged(o)
               \/ order' = MarkedUncertain(o)
          BY <1>1, <1>6 DEF Poll, At
      <2> HIDE DEF o
      <2> QED BY <1>1, <2>1, SameFollows, LoggedFollows, MarkFollows
  <1>7. CASE WorkerMarkUncertain(p)
      <2>1. o \in Orders /\ order' = MarkedUncertain(o)
          BY <1>1, <1>7 DEF WorkerMarkUncertain, At
      <2> HIDE DEF o
      <2> QED BY <1>1, <2>1, MarkFollows
  <1>8. CASE FinalizeFailed(p)
      <2> DEFINE j == IF w.err = "uncertain" /\ w.prov # None THEN w.prov
                                                              ELSE order[o].prov
                 s == FailedBilling(p)
      <2>1. o \in Orders
          BY <1>1, <1>8 DEF FinalizeFailed, At
      <2>2. \/ UNCHANGED order
            \/ /\ FailedBillingOK(p)
               /\ order' = [order EXCEPT ![o].status = s, ![o].prov = j]
          BY <1>8 DEF FinalizeFailed
      <2>3. FailedBillingOK(p) => Legal(order[o].status, s)
          BY DEF FailedBillingOK, FailedBilling, Legal, OpenBilling
      <2> HIDE DEF o, j, s
      <2> QED BY <1>1, <2>1, <2>2, <2>3, SameFollows, SetProvFollows
  <1>9. CASE SaveCancelledTaskResult(p)
      <2>1. o \in Orders
          BY <1>1, <1>9 DEF SaveCancelledTaskResult, At
      <2>2. \/ UNCHANGED order
            \/ order[o].status \in OpenBilling /\ order' = SetBilling(o, "uncertain")
          BY <1>9 DEF SaveCancelledTaskResult
      <2>3. order[o].status \in OpenBilling => Legal(order[o].status, "uncertain")
          BY DEF Legal, OpenBilling
      <2> HIDE DEF o
      <2> QED BY <1>1, <2>1, <2>2, <2>3, SameFollows, SetFollows
  <1>10. CASE FinalizeSucceeded(p)
      <2> DEFINE s == CompletedBilling(p)
      <2>1. o \in Orders
          BY <1>1, <1>10 DEF FinalizeSucceeded, At
      <2>2. \/ UNCHANGED order
            \/ CompletedBillingOK(p) /\ order' = SetBilling(o, s)
          BY <1>10 DEF FinalizeSucceeded
      <2>3. CompletedBillingOK(p) => Legal(order[o].status, s)
          BY DEF CompletedBillingOK, CompletedBilling, Settleable, Legal, OpenBilling
      <2> HIDE DEF o, s
      <2> QED BY <1>1, <2>1, <2>2, <2>3, SameFollows, SetFollows
  <1>11. CASE SettleCompleted(p)
      <2>1. o \in Orders
          BY <1>1, <1>11 DEF SettleCompleted, At
      <2>2. \/ UNCHANGED order
            \/ order[o].status \in OpenBilling /\ order' = SetBilling(o, "settled")
          BY <1>11 DEF SettleCompleted
      <2>3. order[o].status \in OpenBilling => Legal(order[o].status, "settled")
          BY DEF Legal, OpenBilling
      <2> HIDE DEF o
      <2> QED BY <1>1, <2>1, <2>2, <2>3, SameFollows, SetFollows
  <1> QED BY <1>2, <1>3, <1>4, <1>5, <1>6, <1>7, <1>8, <1>9, <1>10, <1>11
          DEF WorkerStep

LEMMA ClientFollows ==
    ASSUME TypeInv, NEW c \in Clients, ClientStep(c) PROVE Follows
  <1> DEFINE o == client[c].ord
  <1>1. OrderOK /\ (client[c].pc # "idle" => o \in Orders)
      BY Parts, ClientFacts
  <1>2. CASE \/ CancelTaskIfQueued(c) \/ CancelTaskIfRunning(c) \/ CancelReread(c)
             \/ ResumeTaskWithUncertainBilling(c)
      BY <1>2, SameFollows DEF CancelTaskIfQueued, CancelTaskIfRunning, CancelReread,
         ResumeTaskWithUncertainBilling
  <1>3. CASE CancelRefund(c)
      <2>1. /\ o \in Orders
            /\ UNCHANGED order \/ (Refundable(o) /\ order' = SetBilling(o, "refunded"))
          BY <1>1, <1>3 DEF CancelRefund
      <2>2. Refundable(o) => Legal(order[o].status, "refunded")
          BY DEF Refundable, Legal, OpenBilling
      <2> HIDE DEF o
      <2> QED BY <1>1, <2>1, <2>2, SameFollows, SetFollows
  <1>4. CASE CancelMarkUncertain(c)
      <2>1. o \in Orders /\ order' = MarkedUncertain(o)
          BY <1>1, <1>4 DEF CancelMarkUncertain
      <2> HIDE DEF o
      <2> QED BY <1>1, <2>1, MarkFollows
  <1>5. CASE RetryTaskWithBilling(c)
      BY <1>1, <1>5, SameFollows, ReserveFollows DEF RetryTaskWithBilling
  <1> QED BY <1>2, <1>3, <1>4, <1>5 DEF ClientStep

LEMMA OrdersFollow == TypeInv /\ [Next]_vars => Follows
  <1> SUFFICES ASSUME TypeInv, [Next]_vars PROVE Follows
      OBVIOUS
  <1>1. ASSUME NEW t \in Tasks, CreateTask(t) PROVE Follows
      BY <1>1, ReserveFollows, Parts DEF CreateTask
  <1>2. ASSUME NEW o \in Orders, ResolveBillingOrder(o) \/ ReconcileBillingOrder(o)
        PROVE  Follows
      <2>1. /\ order[o].status \in OpenBilling
            /\ order' = SetBilling(o, "settled") \/ order' = SetBilling(o, "refunded")
          BY <1>2, ShapeAssumption DEF ResolveBillingOrder, ReconcileBillingOrder, OpenBilling
      <2>2. Legal(order[o].status, "settled") /\ Legal(order[o].status, "refunded")
          BY <2>1 DEF Legal, OpenBilling
      <2> QED BY <2>1, <2>2, SetFollows, Parts
  <1>3. CASE \/ \E t \in Tasks : LeaseExpires(t)
             \/ \E p \in Workers : ClaimNextTask(p) \/ RenewTaskLease(p)
             \/ \E c \in Clients, t \in Tasks : CancelTask(c, t) \/ RetryTask(c, t)
             \/ \E o \in Orders : ProviderFinishes(o)
             \/ \E x \in Crashable : Crash(x)
             \/ UNCHANGED vars
      BY <1>3, SameFollows DEF LeaseExpires, ClaimNextTask, ClaimTask, RenewTaskLease,
         CancelTask, RetryTask, ProviderFinishes, Crash, vars
  <1> QED BY <1>1, <1>2, <1>3, WorkerFollows, ClientFollows DEF Next

\* Whoever acts on an order, in whatever interleaving, the order follows its
\* life cycle: no closed order is reopened or closed the other way, and none
\* under review is spent again.
THEOREM BillingImplemented == Spec => ImplementsBilling
  <1>1. Init => Billing!Init
      BY DEF Init, Billing!Init, UnusedOrder
  <1>2. TypeInv /\ [Next]_vars => [Billing!Next]_OrderStatus
      BY OrdersFollow DEF Follows
  <1> QED BY <1>1, <1>2, TypeInit, TypeStep, PTL
          DEF Spec, ImplementsBilling, Billing!Spec, OrderStatus

----------------------------------------------------------------------------
(* How rows change *)

\* A status, order and job that stay; the creation boundary is passed by a
\* running task only.
Still(k, n) == /\ n.status = k.status /\ n.order = k.order /\ n.prov = k.prov
               /\ n.stage = "creating" => k.stage = "creating" \/ k.status = "running"

Stands(t) == Still(task[t], task'[t])

\* The transactions that change more, each with what it changes.
Reserves(t, o) == /\ order[o].status = "unused"
                  /\ order' = [order EXCEPT ![o] = [status |-> "reserved", prov |-> None, task |-> t]]
                  /\ task'[t].status = "queued" /\ task'[t].order = o
                  /\ task'[t].prov = None /\ task'[t].stage = ""
Turns(t, s) == /\ task'[t].status = s
               /\ task'[t].order = task[t].order

Created(t) == task[t].status = "absent" /\ \E o \in Orders : Reserves(t, o)
Claimed(p, t) == /\ ClaimTask(p, t) /\ task[t].status \in {"queued", "running"}
                 /\ Turns(t, "running")
                 /\ task'[t].prov = task[t].prov /\ task'[t].stage = task[t].stage
Rejected(p, t) == /\ VerifyEnvelope(p) /\ "envelope" \in Faults
                  /\ RunningLease(p) /\ Turns(t, "failed")
                  /\ task'[t].prov = task[t].prov /\ task'[t].stage = task[t].stage
Recorded(p, t) == /\ SaveProviderCall(p) /\ Kind[t] = "fenced"
                  /\ SavesRunning(p) \/ SavesCancelled(p)
                  /\ Turns(t, task[t].status)
                  /\ task'[t].prov = worker[p].ord
                  /\ task'[t].stage \in {"accepted", "cancel_reconcile"}
Failed(p, t) == /\ FinalizeFailed(p) /\ RunningLease(p) /\ FailedBillingOK(p)
                /\ Turns(t, "failed")
                /\ task'[t].prov = worker[p].prov /\ task'[t].stage = worker[p].stage
Succeeded(p, t) == /\ FinalizeSucceeded(p) /\ RunningLease(p) /\ CompletedBillingOK(p)
                   /\ Turns(t, "succeeded")
                   /\ task'[t].prov = worker[p].prov /\ task'[t].stage = worker[p].stage
CancelledBy(c, t) == /\ \/ CancelTaskIfQueued(c) /\ task[t].status = "queued"
                        \/ CancelTaskIfRunning(c) /\ task[t].status = "running"
                     /\ Turns(t, "cancelled")
                     /\ task'[t].prov = task[t].prov
                     /\ task'[t].stage \in {task[t].stage, "cancel_reconcile"}
Retried(c, t) == /\ RetryTaskWithBilling(c)
                 /\ task[t].status \in {"failed", "cancelled"}
                 /\ \E o \in Orders : Reserves(t, o)
Resumed(c, t) == /\ ResumeTaskWithUncertainBilling(c) /\ Resumable(t)
                 /\ Turns(t, "queued")
                 /\ task'[t].prov = task[t].prov /\ task'[t].stage = "provider_resume"

WorkerTurns(t) ==
    \E p \in Workers :
        /\ worker[p].pc \notin {"idle", "claimed"} /\ worker[p].t = t
        /\ Rejected(p, t) \/ Recorded(p, t) \/ Failed(p, t) \/ Succeeded(p, t)
ClientTurns(t) ==
    \E c \in Clients :
        /\ client[c].pc # "idle" /\ client[c].t = t
        /\ CancelledBy(c, t) \/ Retried(c, t) \/ Resumed(c, t)

LEMMA Untouched == ASSUME NEW t \in Tasks, task'[t] = task[t] PROVE Stands(t)
  BY DEF Stands, Still

LEMMA StepsStand ==
    ASSUME TypeInv, NEW t \in Tasks, NEW p \in Workers,
           \/ Reread(p) \/ UpdateTaskProgress(p) \/ ReadBilling(p) \/ StartBilling(p)
           \/ CallFails(p) \/ ResumeJob(p) \/ Post(p) \/ Poll(p) \/ HandleError(p)
           \/ WorkerMarkUncertain(p) \/ ReadLatest(p) \/ UpdateTaskProgress90(p)
           \/ SettleCompleted(p)
    PROVE  Stands(t)
  BY Untouched DEF Reread, UpdateTaskProgress, ReadBilling, StartBilling, CallFails,
     ResumeJob, Post, Poll, HandleError, WorkerMarkUncertain, ReadLatest,
     UpdateTaskProgress90, SettleCompleted

\* One row is written, and stands or turns.
LEMMA OneRow ==
    ASSUME TaskOK, NEW u \in Tasks, NEW n, task' = [task EXCEPT ![u] = n]
    PROVE  task'[u] = n /\ \A t \in Tasks \ {u} : Stands(t)
  BY Untouched DEF TaskOK

LEMMA BoundaryStands ==
    ASSUME TypeInv, NEW t \in Tasks, NEW p \in Workers,
           \/ BeginProviderCreate(p) \/ ScheduleReconciliation(p)
           \/ ClaimCancelledTaskResult(p) \/ SaveCancelledTaskResult(p) \/ RenewTaskLease(p)
    PROVE  Stands(t)
  <1> DEFINE u == worker[p].t
             k == task[u]
  <1>1. worker[p].pc # "idle"
      BY DEF BeginProviderCreate, ScheduleReconciliation, ClaimCancelledTaskResult,
         SaveCancelledTaskResult, RenewTaskLease, Registered, At
  <1>2. u \in Tasks /\ k \in TaskRow
      BY <1>1, WorkerFacts
  <1>3. \/ UNCHANGED task
        \/ k.status = "running" /\ task' = [task EXCEPT ![u] = [k EXCEPT !.stage = "creating"]]
        \/ task' = [task EXCEPT ![u] = [k EXCEPT !.owner = None, !.expired = FALSE, !.stage = "cancel_reconcile"]]
        \/ \E x, g : task' = [task EXCEPT ![u] = [k EXCEPT !.owner = x, !.expired = FALSE, !.gen = g]]
        \/ \E j : task' = [task EXCEPT ![u] = [k EXCEPT !.owner = None, !.expired = FALSE, !.result = j,
                                                        !.stage = "cancel_reconciled"]]
        \/ task' = [task EXCEPT ![u] = [k EXCEPT !.expired = FALSE]]
      <2> DEFINE A == task' = [task EXCEPT ![u] = [k EXCEPT !.owner = None, !.expired = FALSE, !.stage = "cancel_reconcile"]]
                 B == \E x, g : task' = [task EXCEPT ![u] = [k EXCEPT !.owner = x, !.expired = FALSE, !.gen = g]]
                 C == \E j : task' = [task EXCEPT ![u] = [k EXCEPT !.owner = None, !.expired = FALSE, !.result = j,
                                                                   !.stage = "cancel_reconciled"]]
                 D == task' = [task EXCEPT ![u] = [k EXCEPT !.expired = FALSE]]
      <2>1. CASE BeginProviderCreate(p)
          BY <1>2, <2>1, Parts DEF BeginProviderCreate, CreateAllowed, RunningLease, TaskOK
      <2>2. ScheduleReconciliation(p) => UNCHANGED task \/ A
          BY <1>2, Parts DEF ScheduleReconciliation, Unlease, TaskOK
      <2>3. ClaimCancelledTaskResult(p) => UNCHANGED task \/ B
          <3>1. ClaimCancelledTaskResult(p) => UNCHANGED task \/ task' = [task EXCEPT ![u] = [k EXCEPT !.owner = Proc[p], !.expired = FALSE, !.gen = k.gen + 1]]
              BY <1>2, Parts DEF ClaimCancelledTaskResult, TaskOK
          <3> QED BY <3>1
      <2>4. SaveCancelledTaskResult(p) => UNCHANGED task \/ C
          <3>1. SaveCancelledTaskResult(p) => UNCHANGED task \/ task' = [task EXCEPT ![u] = [k EXCEPT !.owner = None, !.expired = FALSE, !.result = worker[p].job, !.stage = "cancel_reconciled"]]
              BY <1>2, Parts DEF SaveCancelledTaskResult, Unlease, TaskOK
          <3> QED BY <3>1
      <2>5. RenewTaskLease(p) => UNCHANGED task \/ D
          BY <1>2, Parts DEF RenewTaskLease, TaskOK
      <2> QED BY <2>1, <2>2, <2>3, <2>4, <2>5
  <1>4. /\ k.status = "running" => Still(k, [k EXCEPT !.stage = "creating"])
        /\ Still(k, [k EXCEPT !.owner = None, !.expired = FALSE, !.stage = "cancel_reconcile"])
        /\ \A x, g : Still(k, [k EXCEPT !.owner = x, !.expired = FALSE, !.gen = g])
        /\ \A j : Still(k, [k EXCEPT !.owner = None, !.expired = FALSE, !.result = j,
                                     !.stage = "cancel_reconciled"])
        /\ Still(k, [k EXCEPT !.expired = FALSE])
      BY <1>2 DEF Still, TaskRow
  <1>5. UNCHANGED task \/ \E n : Still(k, n) /\ task' = [task EXCEPT ![u] = n]
      <2> HIDE DEF k, u
      <2> QED BY <1>3, <1>4
  <1> QED BY <1>2, <1>5, OneRow, Untouched, Parts DEF Stands

LEMMA CreateTurns ==
    ASSUME TypeInv, Attempts, NEW t \in Tasks, NEW u \in Tasks, CreateTask(u)
    PROVE  Stands(t) \/ Created(t)
  <1> PICK o \in Orders : /\ order[o].status = "unused"
                         /\ order' = [order EXCEPT ![o] = [status |-> "reserved", prov |-> None, task |-> u]]
                         /\ task' = [task EXCEPT ![u].status = "queued", ![u].order = o]
      BY DEF CreateTask
  <1> DEFINE k == task[u]
             n == [k EXCEPT !.status = "queued", !.order = o]
  <1>1. k \in TaskRow /\ k = AbsentTask /\ task' = [task EXCEPT ![u] = n]
      BY Parts DEF CreateTask, TaskOK, Attempts, RowInv, RowFits
  <1>2. n.status = "queued" /\ n.order = o /\ n.prov = None /\ n.stage = "" /\ k.status = "absent"
      <2> DEFINE m == [AbsentTask EXCEPT !.status = "queued", !.order = o]
      <2>1. m.status = "queued" /\ m.order = o /\ m.prov = None /\ m.stage = ""
          BY DEF AbsentTask
      <2>2. AbsentTask.status = "absent"
          BY DEF AbsentTask
      <2>3. n = m
          BY <1>1
      <2> HIDE DEF n, m
      <2> QED BY <1>1, <2>1, <2>2, <2>3
  <1> HIDE DEF n
  <1>3. CASE t # u
      BY <1>1, <1>3, OneRow, Parts
  <1>4. CASE t = u
      BY <1>1, <1>2, <1>4, OneRow, Parts DEF Created, Reserves
  <1> QED BY <1>3, <1>4

LEMMA ClaimTurns ==
    ASSUME TypeInv, NEW t \in Tasks, NEW p \in Workers, NEW u \in Tasks, ClaimTask(p, u)
    PROVE  Stands(t) \/ Claimed(p, t)
  <1> DEFINE k == task[u]
             s == IF k.status = "cancelled" THEN "cancelled" ELSE "running"
             n == [k EXCEPT !.status = s, !.owner = Proc[p], !.expired = FALSE, !.gen = k.gen + 1]
  <1>1. k \in TaskRow /\ task' = [task EXCEPT ![u] = n]
      BY Parts DEF ClaimTask, TaskOK
  <1>2. n.status = s /\ n.order = k.order /\ n.prov = k.prov /\ n.stage = k.stage
      BY <1>1 DEF TaskRow
  <1>3. k.status \in {"queued", "running", "cancelled"}
      BY DEF ClaimTask, Claimable
  <1> HIDE DEF n
  <1>4. CASE t # u
      BY <1>1, <1>4, OneRow, Parts
  <1>5. CASE t = u
      BY <1>1, <1>2, <1>3, <1>5, OneRow, Parts DEF Claimed, Turns, Stands, Still
  <1> QED BY <1>4, <1>5

LEMMA VerifyTurns ==
    ASSUME TypeInv, NEW t \in Tasks, NEW p \in Workers, VerifyEnvelope(p)
    PROVE  Stands(t) \/ (worker[p].t = t /\ Rejected(p, t))
  <1> DEFINE u == worker[p].t
             k == task[u]
             n == [k EXCEPT !.owner = None, !.expired = FALSE, !.status = "failed"]
  <1>1. u \in Tasks /\ k \in TaskRow
      BY WorkerFacts DEF VerifyEnvelope, At
  <1>2. \/ UNCHANGED task
        \/ "envelope" \in Faults /\ RunningLease(p) /\ task' = [task EXCEPT ![u] = n]
      BY <1>1, Parts DEF VerifyEnvelope, Unlease, TaskOK
  <1>3. n.status = "failed" /\ n.order = k.order /\ n.prov = k.prov /\ n.stage = k.stage
      BY <1>1 DEF TaskRow
  <1> HIDE DEF n
  <1>4. CASE UNCHANGED task \/ t # u
      BY <1>1, <1>2, <1>4, OneRow, Untouched, Parts
  <1>5. CASE t = u /\ ~UNCHANGED task
      BY <1>1, <1>2, <1>3, <1>5, OneRow, Parts DEF Rejected, Turns
  <1> QED BY <1>4, <1>5

LEMMA SaveTurns ==
    ASSUME TypeInv, Attempts, NEW t \in Tasks, NEW p \in Workers, SaveProviderCall(p)
    PROVE  Stands(t) \/ (worker[p].t = t /\ Recorded(p, t))
  <1> DEFINE u == worker[p].t
             k == task[u]
  <1>1. u \in Tasks /\ k \in TaskRow /\ worker[p].job = worker[p].ord
      BY WorkerFacts, OwnFits DEF SaveProviderCall, At, JobPC
  <1>2. \/ UNCHANGED task
        \/ /\ Kind[u] = "fenced" /\ (SavesRunning(p) \/ SavesCancelled(p))
           /\ \E s \in {"accepted", "cancel_reconcile"} :
                 task' = [task EXCEPT ![u] = [k EXCEPT !.prov = worker[p].ord, !.stage = s]]
      <2>1. CASE ~(Kind[u] = "fenced" /\ (SavesRunning(p) \/ SavesCancelled(p)))
          BY <2>1 DEF SaveProviderCall
      <2>2. CASE Kind[u] = "fenced" /\ (SavesRunning(p) \/ SavesCancelled(p))
          <3> DEFINE s == IF SavesRunning(p) THEN "accepted" ELSE "cancel_reconcile"
          <3>1. task' = [task EXCEPT ![u].prov = worker[p].job, ![u].stage = s]
              BY <2>2 DEF SaveProviderCall
          <3>2. task' = [task EXCEPT ![u] = [k EXCEPT !.prov = worker[p].ord, !.stage = s]]
              BY <1>1, <3>1, Parts DEF TaskOK
          <3> QED BY <2>2, <3>2
      <2> QED BY <2>1, <2>2
  <1>3. \A s : LET n == [k EXCEPT !.prov = worker[p].ord, !.stage = s]
               IN  n.status = k.status /\ n.order = k.order /\ n.prov = worker[p].ord /\ n.stage = s
      BY <1>1 DEF TaskRow
  <1>4. CASE UNCHANGED task
      BY <1>4, Untouched
  <1>5. ASSUME NEW s \in {"accepted", "cancel_reconcile"},
               Kind[u] = "fenced" /\ (SavesRunning(p) \/ SavesCancelled(p)),
               task' = [task EXCEPT ![u] = [k EXCEPT !.prov = worker[p].ord, !.stage = s]]
        PROVE  Stands(t) \/ (worker[p].t = t /\ Recorded(p, t))
      <2> DEFINE n == [k EXCEPT !.prov = worker[p].ord, !.stage = s]
      <2>1. n.status = k.status /\ n.order = k.order /\ n.prov = worker[p].ord /\ n.stage = s
          BY <1>3
      <2>2. task' = [task EXCEPT ![u] = n]
          BY <1>5
      <2> HIDE DEF n
      <2>3. task'[u] = n /\ (t # u => Stands(t))
          BY <1>1, <2>2, OneRow, Parts
      <2> QED BY <1>5, <2>1, <2>3 DEF Recorded, Turns
  <1> QED BY <1>2, <1>4, <1>5

LEMMA FailTurns ==
    ASSUME TypeInv, NEW t \in Tasks, NEW p \in Workers, FinalizeFailed(p)
    PROVE  Stands(t) \/ (worker[p].t = t /\ Failed(p, t))
  <1> DEFINE w == worker[p]
             u == w.t
             k == task[u]
             n == [k EXCEPT !.owner = None, !.expired = FALSE, !.status = "failed",
                            !.prov = w.prov, !.stage = w.stage]
  <1>1. u \in Tasks /\ k \in TaskRow
      BY WorkerFacts DEF FinalizeFailed, At
  <1>2. \/ UNCHANGED task
        \/ FailedBillingOK(p) /\ RunningLease(p) /\ task' = [task EXCEPT ![u] = n]
      BY <1>1, Parts DEF FinalizeFailed, Unlease, TaskOK
  <1>3. n.status = "failed" /\ n.order = k.order /\ n.prov = w.prov /\ n.stage = w.stage
      BY <1>1 DEF TaskRow
  <1> HIDE DEF n
  <1>4. CASE UNCHANGED task \/ t # u
      BY <1>1, <1>2, <1>4, OneRow, Untouched, Parts
  <1>5. CASE t = u /\ ~UNCHANGED task
      BY <1>1, <1>2, <1>3, <1>5, OneRow, Parts DEF Failed, Turns
  <1> QED BY <1>4, <1>5

LEMMA SucceedTurns ==
    ASSUME TypeInv, NEW t \in Tasks, NEW p \in Workers, FinalizeSucceeded(p)
    PROVE  Stands(t) \/ (worker[p].t = t /\ Succeeded(p, t))
  <1> DEFINE w == worker[p]
             u == w.t
             k == task[u]
             n == [k EXCEPT !.owner = None, !.expired = FALSE, !.status = "succeeded",
                            !.result = w.job, !.prov = w.prov, !.stage = w.stage]
  <1>1. u \in Tasks /\ k \in TaskRow
      BY WorkerFacts DEF FinalizeSucceeded, At
  <1>2. \/ UNCHANGED task
        \/ CompletedBillingOK(p) /\ RunningLease(p) /\ task' = [task EXCEPT ![u] = n]
      BY <1>1, Parts DEF FinalizeSucceeded, Unlease, TaskOK
  <1>3. n.status = "succeeded" /\ n.order = k.order /\ n.prov = w.prov /\ n.stage = w.stage
      BY <1>1 DEF TaskRow
  <1> HIDE DEF n
  <1>4. CASE UNCHANGED task \/ t # u
      BY <1>1, <1>2, <1>4, OneRow, Untouched, Parts
  <1>5. CASE t = u /\ ~UNCHANGED task
      BY <1>1, <1>2, <1>3, <1>5, OneRow, Parts DEF Succeeded, Turns
  <1> QED BY <1>4, <1>5

LEMMA CancelTurns ==
    ASSUME TypeInv, NEW t \in Tasks, NEW c \in Clients,
           CancelTaskIfQueued(c) \/ CancelTaskIfRunning(c)
    PROVE  Stands(t) \/ (client[c].pc # "idle" /\ client[c].t = t /\ CancelledBy(c, t))
  <1> DEFINE u == client[c].t
             k == task[u]
             n == Cancelled(k)
  <1>1. client[c].pc # "idle" /\ u \in Tasks /\ k \in TaskRow
      BY ClientFacts DEF CancelTaskIfQueued, CancelTaskIfRunning
  <1>2. \/ UNCHANGED task
        \/ /\ task' = [task EXCEPT ![u] = n]
           /\ \/ CancelTaskIfQueued(c) /\ k.status = "queued"
              \/ CancelTaskIfRunning(c) /\ k.status = "running"
      BY <1>1, Parts DEF CancelTaskIfQueued, CancelTaskIfRunning, TaskOK
  <1>3. n.status = "cancelled" /\ n.order = k.order /\ n.prov = k.prov
        /\ n.stage \in {k.stage, "cancel_reconcile"}
      <2> DEFINE s == IF k.prov # None THEN "cancel_reconcile" ELSE k.stage
      <2>1. n = [k EXCEPT !.owner = None, !.expired = FALSE, !.status = "cancelled", !.gen = k.gen + 1, !.stage = s]
          BY <1>1 DEF Cancelled, Unlease, TaskRow
      <2>2. s \in {k.stage, "cancel_reconcile"}
          OBVIOUS
      <2> HIDE DEF s
      <2> QED BY <1>1, <2>1, <2>2 DEF TaskRow
  <1> HIDE DEF n
  <1>4. CASE UNCHANGED task \/ t # u
      BY <1>1, <1>2, <1>4, OneRow, Untouched, Parts
  <1>5. CASE t = u /\ ~UNCHANGED task
      BY <1>1, <1>2, <1>3, <1>5, OneRow, Parts DEF CancelledBy, Turns
  <1> QED BY <1>4, <1>5

LEMMA RetryTurns ==
    ASSUME TypeInv, NEW t \in Tasks, NEW c \in Clients, RetryTaskWithBilling(c)
    PROVE  Stands(t) \/ (client[c].pc # "idle" /\ client[c].t = t /\ Retried(c, t))
  <1> DEFINE u == client[c].t
             k == task[u]
  <1>1. client[c].pc # "idle" /\ u \in Tasks /\ k \in TaskRow
      BY ClientFacts DEF RetryTaskWithBilling
  <1>2. CASE UNCHANGED task
      BY <1>2, Untouched
  <1>3. ASSUME k.status \in {"failed", "cancelled"},
               NEW o \in Orders, order[o].status = "unused",
               order' = [order EXCEPT ![o] = [status |-> "reserved", prov |-> None, task |-> u]],
               task' = [task EXCEPT ![u] = [AbsentTask EXCEPT !.status = "queued", !.order = o, !.gen = k.gen]]
        PROVE  Stands(t) \/ (client[c].pc # "idle" /\ client[c].t = t /\ Retried(c, t))
      <2> DEFINE n == [AbsentTask EXCEPT !.status = "queued", !.order = o, !.gen = k.gen]
      <2>1. n.status = "queued" /\ n.order = o /\ n.prov = None /\ n.stage = ""
          BY DEF AbsentTask
      <2>2. task' = [task EXCEPT ![u] = n]
          BY <1>3
      <2> HIDE DEF n
      <2>3. task'[u] = n /\ (t # u => Stands(t))
          BY <1>1, <2>2, OneRow, Parts
      <2>4. t = u => Reserves(t, o)
          BY <1>3, <2>1, <2>3 DEF Reserves
      <2> QED BY <1>1, <1>3, <2>3, <2>4 DEF Retried
  <1> QED BY <1>2, <1>3 DEF RetryTaskWithBilling

LEMMA ResumeTurns ==
    ASSUME TypeInv, NEW t \in Tasks, NEW c \in Clients, ResumeTaskWithUncertainBilling(c)
    PROVE  Stands(t) \/ (client[c].pc # "idle" /\ client[c].t = t /\ Resumed(c, t))
  <1> DEFINE u == client[c].t
             k == task[u]
             n == [k EXCEPT !.owner = None, !.expired = FALSE, !.status = "queued",
                            !.result = None, !.stage = "provider_resume"]
  <1>1. client[c].pc # "idle" /\ u \in Tasks /\ k \in TaskRow
      BY ClientFacts DEF ResumeTaskWithUncertainBilling
  <1>2. UNCHANGED task \/ (Resumable(u) /\ task' = [task EXCEPT ![u] = n])
      BY <1>1, Parts DEF ResumeTaskWithUncertainBilling, Unlease, TaskOK
  <1>3. n.status = "queued" /\ n.order = k.order /\ n.prov = k.prov /\ n.stage = "provider_resume"
      BY <1>1 DEF TaskRow
  <1> HIDE DEF n
  <1>4. CASE UNCHANGED task \/ t # u
      BY <1>1, <1>2, <1>4, OneRow, Untouched, Parts
  <1>5. CASE t = u /\ ~UNCHANGED task
      BY <1>1, <1>2, <1>3, <1>5, OneRow, Parts DEF Resumed, Turns
  <1> QED BY <1>4, <1>5

LEMMA ExpiryStands ==
    ASSUME TypeInv, NEW t \in Tasks, NEW u \in Tasks, LeaseExpires(u) PROVE Stands(t)
  <1> DEFINE k == task[u]
             n == [k EXCEPT !.expired = TRUE]
  <1>1. k \in TaskRow /\ task' = [task EXCEPT ![u] = n]
      BY Parts DEF LeaseExpires, TaskOK
  <1>2. Still(k, n)
      BY <1>1 DEF Still, TaskRow
  <1> HIDE DEF n
  <1> QED BY <1>1, <1>2, OneRow, Parts DEF Stands

\* Every step leaves a row standing or is one of the transactions above.
LEMMA RowTurns ==
    ASSUME TypeInv, Attempts, [Next]_vars, NEW t \in Tasks
    PROVE  \/ Stands(t) \/ Created(t) \/ \E p \in Workers : Claimed(p, t)
           \/ WorkerTurns(t) \/ ClientTurns(t)
  <1> DEFINE Goal == \/ Stands(t) \/ Created(t) \/ \E p \in Workers : Claimed(p, t)
                     \/ WorkerTurns(t) \/ ClientTurns(t)
  <1>1. ASSUME UNCHANGED task PROVE Goal
      BY <1>1, Untouched
  <1>2. ASSUME NEW u \in Tasks, CreateTask(u) \/ LeaseExpires(u) PROVE Goal
      BY <1>2, CreateTurns, ExpiryStands
  <1>3. ASSUME NEW p \in Workers, ClaimNextTask(p) PROVE Goal
      BY <1>3, ClaimTurns DEF ClaimNextTask
  <1>4. ASSUME NEW p \in Workers, RenewTaskLease(p) PROVE Goal
      BY <1>4, BoundaryStands
  <1>5. ASSUME NEW p \in Workers, WorkerStep(p) PROVE Goal
      <2>1. VerifyEnvelope(p) \/ SaveProviderCall(p) \/ FinalizeFailed(p) \/ FinalizeSucceeded(p)
               => worker[p].pc \notin {"idle", "claimed"}
          BY DEF VerifyEnvelope, SaveProviderCall, FinalizeFailed, FinalizeSucceeded, At
      <2>2. VerifyEnvelope(p) \/ SaveProviderCall(p) \/ FinalizeFailed(p) \/ FinalizeSucceeded(p)
               => Stands(t) \/ WorkerTurns(t)
          BY <2>1, VerifyTurns, SaveTurns, FailTurns, SucceedTurns DEF WorkerTurns
      <2> QED BY <1>5, <2>2, StepsStand, BoundaryStands DEF WorkerStep
  <1>6. ASSUME NEW c \in Clients, ClientStep(c) PROVE Goal
      <2>1. CancelRefund(c) \/ CancelMarkUncertain(c) \/ CancelReread(c) => UNCHANGED task
          BY DEF CancelRefund, CancelMarkUncertain, CancelReread
      <2>2. CancelTaskIfQueued(c) \/ CancelTaskIfRunning(c) \/ RetryTaskWithBilling(c)
               \/ ResumeTaskWithUncertainBilling(c) => Stands(t) \/ ClientTurns(t)
          BY CancelTurns, RetryTurns, ResumeTurns DEF ClientTurns
      <2> QED BY <1>1, <1>6, <2>1, <2>2 DEF ClientStep
  <1>7. ASSUME NEW c \in Clients, NEW u \in Tasks, CancelTask(c, u) \/ RetryTask(c, u) PROVE Goal
      BY <1>1, <1>7 DEF CancelTask, RetryTask
  <1>8. ASSUME NEW o \in Orders,
               ResolveBillingOrder(o) \/ ReconcileBillingOrder(o) \/ ProviderFinishes(o)
        PROVE  Goal
      BY <1>1, <1>8 DEF ResolveBillingOrder, ReconcileBillingOrder, ProviderFinishes
  <1>9. ASSUME NEW x \in Crashable, Crash(x) PROVE Goal
      BY <1>1, <1>9 DEF Crash
  <1>10. UNCHANGED vars => UNCHANGED task
      BY DEF vars
  <1> QED BY <1>1, <1>2, <1>3, <1>4, <1>5, <1>6, <1>7, <1>8, <1>9, <1>10 DEF Next

----------------------------------------------------------------------------
(* How orders and jobs change *)

LEMMA LegalMoves ==
    ASSUME TypeInv, [Next]_vars, NEW o \in Orders
    PROVE  Legal(order[o].status, order'[o].status)
  <1> DEFINE s == OrderStatus
             r == OrderStatus'
  <1>1. [Billing!Next]_OrderStatus
      BY OrdersFollow DEF Follows
  <1>2. s[o] = order[o].status /\ r[o] = order'[o].status
      BY DEF OrderStatus
  <1>3. CASE UNCHANGED OrderStatus
      BY <1>2, <1>3 DEF Legal
  <1>4. ASSUME NEW x \in Orders,
               Billing!Reserve(x) \/ Billing!Start(x) \/ Billing!Review(x) \/ Billing!Close(x)
        PROVE  Legal(order[o].status, order'[o].status)
      <2> DEFINE By(e) == OrderStatus' = [OrderStatus EXCEPT ![x] = e] /\ Legal(OrderStatus[x], e)
      <2>1. Billing!Reserve(x) => By("reserved")
          BY DEF Billing!Reserve, Billing!Move, OrderStatus, Legal
      <2>2. Billing!Start(x) => By("running")
          BY DEF Billing!Start, Billing!Move, OrderStatus, Legal
      <2>3. Billing!Review(x) => By("uncertain")
          BY DEF Billing!Review, Billing!Move, OrderStatus, Legal
      <2>4. Billing!Close(x) => By("settled") \/ By("refunded")
          BY DEF Billing!Close, Billing!Move, Billing!Open, Billing!Closed, OrderStatus, Legal
      <2> PICK e : By(e)
          BY <1>4, <2>1, <2>2, <2>3, <2>4
      <2>5. order'[o].status = IF o = x THEN e ELSE order[o].status
          BY <1>2 DEF OrderStatus
      <2> QED BY <1>2, <2>5 DEF Legal
  <1> QED BY <1>1, <1>3, <1>4 DEF Billing!Next

----------------------------------------------------------------------------
(* How workers move *)

Flagged(p) == worker'[p].lost = worker[p].lost /\ worker'[p].ctx = worker[p].ctx
Leads(p, pc) == Goes(p, pc) /\ Flagged(p)

\* Where each step of processClaimedTask leads, unless it is the last.
Edge(p) ==
    \/ worker'[p] = IdleWorker
    \/ /\ Flagged(p)
       /\ \/ Reread(p) /\ HoldsLease(p) /\ worker'[p].pc = "verify"
          \/ ResumeJob(p) /\ worker'[p].pc = "poll"
          \/ Post(p) /\ worker'[p].pc = "save"
          \/ ClaimCancelledTaskResult(p) /\ ResultClaimable(p) /\ worker'[p].pc = "saveres"
    \/ VerifyEnvelope(p) /\ Leads(p, IF worker[p].rec THEN "call" ELSE "progress")
    \/ UpdateTaskProgress(p) /\ RunningLease(p) /\ Leads(p, IF worker[p].prov = None THEN "startbill" ELSE "readbill")
    \/ ReadBilling(p) /\ order[worker[p].ord].status = "uncertain" /\ Leads(p, "call")
    \/ ReadBilling(p) /\ Leads(p, "startbill")
    \/ StartBilling(p) /\ Startable(p) /\ Leads(p, "call")
    \/ StartBilling(p) /\ ~Startable(p) /\ Leads(p, "final")
    \/ BeginProviderCreate(p) /\ Leads(p, "post")
    \/ SaveProviderCall(p) /\ Kind[worker[p].t] = "token" /\ Leads(p, "succeeded")
    \/ SaveProviderCall(p) /\ Kind[worker[p].t] # "token" /\ Leads(p, "poll")
    \/ Poll(p) /\ up[worker[p].job] = "done" /\ Leads(p, "succeeded")
    \/ /\ CallFails(p) \/ BeginProviderCreate(p) \/ Post(p) \/ SaveProviderCall(p) \/ Poll(p)
       /\ Leads(p, "error")
    \/ HandleError(p) /\ task[worker[p].t].status = "cancelled" /\ (Leads(p, "schedule") \/ Leads(p, "markunc"))
    \/ HandleError(p) /\ task[worker[p].t].status # "cancelled" /\ Leads(p, "final")
    \/ ScheduleReconciliation(p) /\ task[worker[p].t].status = "cancelled" /\ Leads(p, "markunc")
    \/ ReadLatest(p) /\ task[worker[p].t].status # "cancelled" /\ Leads(p, "persist")
    \/ ReadLatest(p) /\ task[worker[p].t].status = "cancelled" /\ (Leads(p, "saveres") \/ Leads(p, "claimres"))
    \/ ClaimCancelledTaskResult(p) /\ Leads(p, "markunc")
    \/ SaveCancelledTaskResult(p) /\ Leads(p, "markunc")
    \/ UpdateTaskProgress90(p) /\ RunningLease(p) /\ Leads(p, "complete")
    \/ FinalizeSucceeded(p) /\ RunningLease(p) /\ CompletedBillingOK(p) /\ Leads(p, "settle")
    \/ FinalizeSucceeded(p) /\ Leads(p, "final")

LEMMA Lead ==
    ASSUME WorkerOK, NEW p \in Workers, NEW pc, Goto(p, pc)
    PROVE  Leads(p, pc)
  BY DEF WorkerOK, WorkerState, Goto, Leads, Goes, Copy, Flagged

LEMMA LeadWith ==
    ASSUME WorkerOK, NEW p \in Workers, NEW pc, NEW e,
           worker' = [worker EXCEPT ![p].pc = pc, ![p].err = e]
    PROVE  Leads(p, pc)
  BY DEF WorkerOK, WorkerState, Leads, Goes, Copy, Flagged

LEMMA LeadFail ==
    ASSUME WorkerOK, NEW p \in Workers
    PROVE  \A e \in Errors : Fail(p, e) => Leads(p, "error")
  BY LeadWith DEF Fail

LEMMA LeadOut ==
    ASSUME WorkerOK, NEW p \in Workers, Return(p)
    PROVE  worker'[p] = IdleWorker
  BY DEF WorkerOK, Return

LEMMA Edges ==
    ASSUME TypeInv, NEW p \in Workers, WorkerStep(p)
    PROVE  Edge(p)
  <1>0. WorkerOK
      BY Parts
  <1>1. CASE Reread(p)
      <2>1. CASE HoldsLease(p)
          <3>1. worker'[p].pc = "verify" /\ Flagged(p)
              BY <1>0, <1>1, <2>1 DEF Reread, Flagged, WorkerOK, WorkerState
          <3> QED BY <1>1, <2>1, <3>1 DEF Edge
      <2>2. CASE ~HoldsLease(p)
          BY <1>0, <1>1, <2>2, LeadOut DEF Reread, Edge
      <2> QED BY <2>1, <2>2
  <1>2. CASE VerifyEnvelope(p)
      <2> DEFINE pc == IF worker[p].rec THEN "call" ELSE "progress"
      <2>1. Goto(p, pc) \/ Return(p)
          BY <1>2 DEF VerifyEnvelope
      <2> HIDE DEF pc
      <2>2. Leads(p, pc) \/ worker'[p] = IdleWorker
          BY <1>0, <2>1, Lead, LeadOut
      <2> QED BY <1>2, <2>2 DEF Edge, pc
  <1>3. CASE UpdateTaskProgress(p)
      <2> DEFINE pc == IF worker[p].prov = None THEN "startbill" ELSE "readbill"
      <2>1. (RunningLease(p) /\ Goto(p, pc)) \/ Return(p)
          BY <1>3 DEF UpdateTaskProgress
      <2> HIDE DEF pc
      <2>2. (RunningLease(p) /\ Leads(p, pc)) \/ worker'[p] = IdleWorker
          BY <1>0, <2>1, Lead, LeadOut
      <2> QED BY <1>3, <2>2 DEF Edge, pc
  <1>4. CASE ReadBilling(p)
      <2>1. (order[worker[p].ord].status = "uncertain" /\ Goto(p, "call")) \/ Goto(p, "startbill")
          BY <1>4 DEF ReadBilling
      <2> QED BY <1>0, <1>4, <2>1, Lead DEF Edge
  <1>5. CASE StartBilling(p)
      <2> DEFINE e == IF Kind[worker[p].t] = "token" THEN "uncertain" ELSE "refund"
      <2>1. \/ Startable(p) /\ Goto(p, "call")
            \/ ~Startable(p) /\ worker' = [worker EXCEPT ![p].pc = "final", ![p].err = e]
          BY <1>5 DEF StartBilling
      <2> HIDE DEF e
      <2> QED BY <1>0, <1>5, <2>1, Lead, LeadWith DEF Edge
  <1>6. CASE CallFails(p)
      <2>1. Leads(p, "error")
          BY <1>0, <1>6, LeadFail, Errs DEF CallFails
      <2> QED BY <1>6, <2>1 DEF Edge
  <1>7. CASE ResumeJob(p)
      <2>1. worker'[p].pc = "poll" /\ Flagged(p)
          BY <1>0, <1>7 DEF ResumeJob, Flagged, WorkerOK, WorkerState
      <2> QED BY <1>7, <2>1 DEF Edge
  <1>8. CASE BeginProviderCreate(p)
      <2>1. Goto(p, "post") \/ Fail(p, "ambiguous")
          BY <1>8 DEF BeginProviderCreate
      <2>2. Leads(p, "post") \/ Leads(p, "error")
          BY <1>0, <2>1, Lead, LeadFail, Errs
      <2> QED BY <1>8, <2>2 DEF Edge
  <1>9. CASE Post(p)
      <2>1. \/ Fail(p, "ambiguous") \/ Fail(p, "canceled") \/ Fail(p, "definite")
            \/ worker' = [worker EXCEPT ![p].pc = "save", ![p].job = worker[p].ord]
          BY <1>9 DEF Post
      <2>2. CASE worker' = [worker EXCEPT ![p].pc = "save", ![p].job = worker[p].ord]
          <3>1. worker'[p].pc = "save" /\ Flagged(p)
              BY <1>0, <2>2 DEF Flagged, WorkerOK, WorkerState
          <3> QED BY <1>9, <3>1 DEF Edge
      <2>3. CASE Fail(p, "ambiguous") \/ Fail(p, "canceled") \/ Fail(p, "definite")
          <3>1. Leads(p, "error")
              BY <1>0, <2>3, LeadFail, Errs
          <3> QED BY <1>9, <3>1 DEF Edge
      <2> QED BY <2>1, <2>2, <2>3
  <1>10. CASE SaveProviderCall(p)
      <2>1. \/ Kind[worker[p].t] = "token" /\ Goto(p, "succeeded")
            \/ Kind[worker[p].t] # "token" /\ Goto(p, "poll")
            \/ Fail(p, "ambiguous") \/ Fail(p, "definite")
          BY <1>10 DEF SaveProviderCall
      <2>2. \/ Kind[worker[p].t] = "token" /\ Leads(p, "succeeded")
            \/ Kind[worker[p].t] # "token" /\ Leads(p, "poll")
            \/ Leads(p, "error")
          BY <1>0, <2>1, Lead, LeadFail, Errs
      <2> QED BY <1>10, <2>2 DEF Edge
  <1>11. CASE Poll(p)
      <2>1. \/ up[worker[p].job] = "done" /\ Goto(p, "succeeded")
            \/ \E e \in Errors : Fail(p, e)
          BY <1>11, Errs DEF Poll
      <2>2. (up[worker[p].job] = "done" /\ Leads(p, "succeeded")) \/ Leads(p, "error")
          BY <1>0, <2>1, Lead, LeadFail
      <2> QED BY <1>11, <2>2 DEF Edge
  <1>12. CASE HandleError(p)
      <2> DEFINE e == IF RequiresReview(p) THEN "uncertain" ELSE "refund"
                 x == task[worker[p].t].status = "cancelled"
      <2>1. \/ Return(p) \/ (x /\ (Goto(p, "schedule") \/ Goto(p, "markunc")))
            \/ (~x /\ worker' = [worker EXCEPT ![p].pc = "final", ![p].err = e])
          BY <1>12 DEF HandleError
      <2> HIDE DEF e, x
      <2>2. \/ worker'[p] = IdleWorker \/ (x /\ (Leads(p, "schedule") \/ Leads(p, "markunc")))
            \/ (~x /\ Leads(p, "final"))
          BY <1>0, <2>1, Lead, LeadWith, LeadOut
      <2> QED BY <1>12, <2>2 DEF Edge, x
  <1>13. CASE ScheduleReconciliation(p)
      <2>1. (task[worker[p].t].status = "cancelled" /\ Goto(p, "markunc")) \/ Return(p)
          BY <1>13 DEF ScheduleReconciliation
      <2> QED BY <1>0, <1>13, <2>1, Lead, LeadOut DEF Edge
  <1>14. CASE WorkerMarkUncertain(p) \/ FinalizeFailed(p) \/ SettleCompleted(p)
      <2>1. Return(p)
          BY <1>14 DEF WorkerMarkUncertain, FinalizeFailed, SettleCompleted
      <2> QED BY <1>0, <2>1, LeadOut DEF Edge
  <1>15. CASE ReadLatest(p)
      <2>1. \/ task[worker[p].t].status # "cancelled" /\ Goto(p, "persist")
            \/ task[worker[p].t].status = "cancelled" /\ (Goto(p, "saveres") \/ Goto(p, "claimres"))
          BY <1>15 DEF ReadLatest
      <2> QED BY <1>0, <1>15, <2>1, Lead DEF Edge
  <1>16. CASE ClaimCancelledTaskResult(p)
      <2>1. CASE ResultClaimable(p)
          <3>1. worker'[p].pc = "saveres" /\ Flagged(p)
              BY <1>0, <1>16, <2>1 DEF ClaimCancelledTaskResult, Flagged, WorkerOK, WorkerState
          <3> QED BY <1>16, <2>1, <3>1 DEF Edge
      <2>2. CASE ~ResultClaimable(p)
          BY <1>0, <1>16, <2>2, Lead DEF ClaimCancelledTaskResult, Edge
      <2> QED BY <2>1, <2>2
  <1>17. CASE SaveCancelledTaskResult(p)
      <2>1. Goto(p, "markunc") \/ Return(p)
          BY <1>17 DEF SaveCancelledTaskResult
      <2> QED BY <1>0, <1>17, <2>1, Lead, LeadOut DEF Edge
  <1>18. CASE UpdateTaskProgress90(p)
      <2>1. (RunningLease(p) /\ Goto(p, "complete")) \/ Return(p)
          BY <1>18 DEF UpdateTaskProgress90
      <2> QED BY <1>0, <1>18, <2>1, Lead, LeadOut DEF Edge
  <1>19. CASE FinalizeSucceeded(p)
      <2>1. \/ RunningLease(p) /\ CompletedBillingOK(p) /\ Goto(p, "settle")
            \/ worker' = [worker EXCEPT ![p].pc = "final", ![p].err = "uncertain"]
          BY <1>19 DEF FinalizeSucceeded
      <2> QED BY <1>0, <1>19, <2>1, Lead, LeadWith DEF Edge
  <1> QED BY <1>1, <1>2, <1>3, <1>4, <1>5, <1>6, <1>7, <1>8, <1>9, <1>10, <1>11,
             <1>12, <1>13, <1>14, <1>15, <1>16, <1>17, <1>18, <1>19 DEF WorkerStep

----------------------------------------------------------------------------
(* How requests move *)

Keeps(c) == client'[c].t = client[c].t /\ client'[c].ord = client[c].ord

\* Where a request is after a step, unless it has ended.
Request(c) ==
    \/ client'[c] = client[c]
    \/ Keeps(c) /\ CancelTaskIfQueued(c) /\ task[client[c].t].status = "queued"
                /\ client'[c].pc = "refund"
    \/ Keeps(c) /\ CancelTaskIfRunning(c) /\ task[client[c].t].status = "running"
                /\ client'[c].pc = "markunc"
    \/ Keeps(c) /\ client[c].pc # "idle" /\ client'[c].pc \in {"reread", "lastread"}
    \/ /\ CancelReread(c) /\ task[client[c].t].status = "running" /\ UNCHANGED <<task, order>>
       /\ client'[c].pc = "cancelRunning" /\ client'[c].t = client[c].t
       /\ client'[c].ord = task[client[c].t].order
    \/ \E t \in Tasks :
          /\ client[c].pc = "idle" /\ UNCHANGED <<task, order>>
          /\ client'[c].t = t /\ client'[c].ord = task[t].order
          /\ \/ /\ task[t].status \in {"queued", "running"}
                /\ client'[c].pc \in {"cancelQueued", "cancelRunning"}
             \/ /\ task[t].status \in {"failed", "cancelled"} /\ left["retry"] > 0
                /\ client'[c].pc \in {"retry", "resume"}
                /\ client'[c].pc = "retry" => ~HasUncertainBilling(t)

LEMMA ClientMove ==
    ASSUME TypeInv, NEW d \in Clients, NEW c \in Clients, NEW pc,
           client' = [client EXCEPT ![d].pc = pc]
    PROVE  Keeps(d) /\ client'[d].pc = pc /\ (c # d => client'[c] = client[c])
  BY Parts DEF Keeps, ClientOK, ClientState

LEMMA ClientSets ==
    ASSUME TypeInv, NEW d \in Clients, NEW c \in Clients, NEW r,
           client' = [client EXCEPT ![d] = r]
    PROVE  client'[d] = r /\ (c # d => client'[c] = client[c])
  BY Parts DEF ClientOK, ClientState

LEMMA StepRequests ==
    ASSUME TypeInv, NEW d \in Clients, ClientStep(d), NEW c \in Clients,
           client'[c].pc # "idle"
    PROVE  Request(c)
  <1>0. ASSUME Finish(d) PROVE Request(c)
      <2>1. IdleClient.pc = "idle"
          BY DEF IdleClient
      <2>2. client'[d].pc = "idle" /\ (c # d => client'[c] = client[c])
          BY <1>0, <2>1, ClientSets DEF Finish
      <2> QED BY <2>2 DEF Request
  <1>1. CASE CancelTaskIfQueued(d)
      <2>1. client[d].pc # "idle"
          BY <1>1 DEF CancelTaskIfQueued
      <2>2. \/ task[client[d].t].status = "queued" /\ client' = [client EXCEPT ![d].pc = "refund"]
            \/ client' = [client EXCEPT ![d].pc = "reread"]
          BY <1>1 DEF CancelTaskIfQueued
      <2>3. \/ /\ task[client[d].t].status = "queued" /\ Keeps(d) /\ client'[d].pc = "refund"
               /\ (c # d => client'[c] = client[c])
            \/ Keeps(d) /\ client'[d].pc = "reread" /\ (c # d => client'[c] = client[c])
          BY <2>2, ClientMove
      <2> QED BY <1>1, <2>1, <2>3 DEF Request
  <1>2. CASE CancelTaskIfRunning(d)
      <2>1. client[d].pc # "idle"
          BY <1>2 DEF CancelTaskIfRunning
      <2>2. \/ task[client[d].t].status = "running" /\ client' = [client EXCEPT ![d].pc = "markunc"]
            \/ client' = [client EXCEPT ![d].pc = "lastread"]
          BY <1>2 DEF CancelTaskIfRunning
      <2>3. \/ /\ task[client[d].t].status = "running" /\ Keeps(d) /\ client'[d].pc = "markunc"
               /\ (c # d => client'[c] = client[c])
            \/ Keeps(d) /\ client'[d].pc = "lastread" /\ (c # d => client'[c] = client[c])
          BY <2>2, ClientMove
      <2> QED BY <1>2, <2>1, <2>3 DEF Request
  <1>3. CASE CancelRefund(d) \/ CancelMarkUncertain(d)
      <2>1. client[d].pc # "idle"
          BY <1>3 DEF CancelRefund, CancelMarkUncertain
      <2>2. \/ client' = [client EXCEPT ![d].pc = "reread"]
            \/ client' = [client EXCEPT ![d].pc = "lastread"]
            \/ Finish(d)
          BY <1>3 DEF CancelRefund, CancelMarkUncertain
      <2>3. \/ Keeps(d) /\ client'[d].pc \in {"reread", "lastread"} /\ (c # d => client'[c] = client[c])
            \/ Finish(d)
          BY <2>2, ClientMove
      <2> QED BY <1>0, <2>1, <2>3 DEF Request
  <1>4. CASE CancelReread(d)
      <2> DEFINE o == task[client[d].t].order
      <2>1. \/ Finish(d)
            \/ /\ task[client[d].t].status = "running" /\ UNCHANGED <<task, order>>
               /\ client' = [client EXCEPT ![d].pc = "cancelRunning", ![d].ord = o]
          BY <1>4 DEF CancelReread
      <2>2. client' = [client EXCEPT ![d].pc = "cancelRunning", ![d].ord = o]
               => /\ client'[d].pc = "cancelRunning" /\ client'[d].t = client[d].t
                  /\ client'[d].ord = o /\ (c # d => client'[c] = client[c])
          <3> HIDE DEF o
          <3> QED BY Parts DEF ClientOK, ClientState
      <2> QED BY <1>0, <1>4, <2>1, <2>2 DEF Request
  <1>5. CASE RetryTaskWithBilling(d) \/ ResumeTaskWithUncertainBilling(d)
      BY <1>0, <1>5 DEF RetryTaskWithBilling, ResumeTaskWithUncertainBilling
  <1> QED BY <1>1, <1>2, <1>3, <1>4, <1>5 DEF ClientStep

LEMMA WorkersOnly ==
    ASSUME NEW p \in Workers, WorkerStep(p) PROVE UNCHANGED <<client, left>>
  <1>1. CASE \/ Reread(p) \/ VerifyEnvelope(p) \/ UpdateTaskProgress(p) \/ ReadBilling(p)
             \/ StartBilling(p) \/ CallFails(p) \/ ResumeJob(p)
      BY <1>1 DEF Reread, VerifyEnvelope, UpdateTaskProgress, ReadBilling, StartBilling,
         CallFails, ResumeJob
  <1>2. CASE BeginProviderCreate(p) \/ Post(p) \/ SaveProviderCall(p) \/ Poll(p)
      BY <1>2 DEF BeginProviderCreate, Post, SaveProviderCall, Poll
  <1>3. CASE \/ HandleError(p) \/ ScheduleReconciliation(p) \/ WorkerMarkUncertain(p)
             \/ FinalizeFailed(p) \/ ReadLatest(p) \/ ClaimCancelledTaskResult(p)
      BY <1>3 DEF HandleError, ScheduleReconciliation, WorkerMarkUncertain, FinalizeFailed,
         ReadLatest, ClaimCancelledTaskResult
  <1>4. CASE \/ SaveCancelledTaskResult(p) \/ UpdateTaskProgress90(p)
             \/ FinalizeSucceeded(p) \/ SettleCompleted(p)
      BY <1>4 DEF SaveCancelledTaskResult, UpdateTaskProgress90, FinalizeSucceeded, SettleCompleted
  <1> QED BY <1>1, <1>2, <1>3, <1>4 DEF WorkerStep

LEMMA Requests ==
    ASSUME TypeInv, [Next]_vars, NEW c \in Clients, client'[c].pc # "idle"
    PROVE  Request(c)
  <1>1. CASE UNCHANGED client
      BY <1>1 DEF Request
  <1>2. ASSUME NEW d \in Clients, ClientStep(d) PROVE Request(c)
      BY <1>2, StepRequests
  <1>3. ASSUME NEW d \in Clients, NEW t \in Tasks, CancelTask(d, t) PROVE Request(c)
      <2> DEFINE r == [pc |-> IF task[t].status = "queued" THEN "cancelQueued"
                                                          ELSE "cancelRunning",
                       t |-> t, ord |-> task[t].order]
      <2>1. CASE UNCHANGED client
          BY <2>1 DEF Request
      <2>2. CASE task[t].status \in {"queued", "running"} /\ client' = [client EXCEPT ![d] = r]
          <3>1. r.pc \in {"cancelQueued", "cancelRunning"} /\ r.t = t /\ r.ord = task[t].order
              OBVIOUS
          <3> HIDE DEF r
          <3>2. client'[d] = r /\ (c # d => client'[c] = client[c])
              BY <2>2, ClientSets
          <3>3. client[d].pc = "idle" /\ UNCHANGED <<task, order>>
              BY <1>3 DEF CancelTask
          <3> QED BY <2>2, <3>1, <3>2, <3>3 DEF Request
      <2> QED BY <1>3, <2>1, <2>2 DEF CancelTask
  <1>4. ASSUME NEW d \in Clients, NEW t \in Tasks, RetryTask(d, t) PROVE Request(c)
      <2> DEFINE r == [pc |-> IF HasUncertainBilling(t) THEN "resume" ELSE "retry",
                       t |-> t, ord |-> task[t].order]
      <2>1. /\ r.pc \in {"retry", "resume"} /\ r.t = t /\ r.ord = task[t].order
            /\ r.pc = "retry" => ~HasUncertainBilling(t)
          OBVIOUS
      <2>2. client' = [client EXCEPT ![d] = r]
          BY <1>4 DEF RetryTask
      <2> HIDE DEF r
      <2>3. client'[d] = r /\ (c # d => client'[c] = client[c])
          BY <2>2, ClientSets
      <2>4. /\ client[d].pc = "idle" /\ UNCHANGED <<task, order>>
            /\ task[t].status \in {"failed", "cancelled"} /\ left["retry"] > 0
          BY <1>4 DEF RetryTask
      <2> QED BY <2>1, <2>3, <2>4 DEF Request
  <1>5. ASSUME NEW x \in Crashable, Crash(x) PROVE Request(c)
      <2>1. IdleClient.pc = "idle"
          BY DEF IdleClient
      <2>2. client'[c] = IF Proc[c] = x THEN IdleClient ELSE client[c]
          BY <1>5 DEF Crash
      <2> QED BY <2>1, <2>2 DEF Request
  <1>6. CASE \/ \E t \in Tasks : CreateTask(t) \/ LeaseExpires(t)
             \/ \E p \in Workers : ClaimNextTask(p) \/ WorkerStep(p) \/ RenewTaskLease(p)
             \/ \E o \in Orders : ResolveBillingOrder(o) \/ ReconcileBillingOrder(o) \/ ProviderFinishes(o)
             \/ UNCHANGED vars
      <2>1. \A p \in Workers : WorkerStep(p) => UNCHANGED client
          BY WorkersOnly
      <2>2. UNCHANGED client
          BY <1>6, <2>1 DEF CreateTask, LeaseExpires, ClaimNextTask, ClaimTask, RenewTaskLease,
             ResolveBillingOrder, ReconcileBillingOrder, ProviderFinishes, vars
      <2> QED BY <1>1, <2>2
  <1> QED BY <1>2, <1>3, <1>4, <1>5, <1>6 DEF Next

----------------------------------------------------------------------------
(* How workers are found after a step *)

Worked(p) ==
    \/ worker'[p] = worker[p]
    \/ worker'[p] = IdleWorker
    \/ RenewTaskLease(p) /\ Stays(p) /\ worker'[p].err = worker[p].err
    \/ /\ Stays(p) /\ worker'[p].err = worker[p].err /\ worker'[p].lost = worker[p].lost
       /\ Registered(p) /\ task[worker[p].t].status = "cancelled" /\ UNCHANGED <<task, order, up, log>>
    \/ /\ At(p, "idle") /\ worker'[p].pc = "claimed" /\ worker'[p].lost = worker[p].lost
       /\ worker'[p].ctx = worker[p].ctx
       /\ \E t \in Tasks : ClaimTask(p, t) /\ worker'[p].t = t /\ worker'[p].gen = task[t].gen + 1
    \/ WorkerStep(p)

LEMMA Interrupted ==
    ASSUME TypeInv, NEW c \in Clients, NEW t \in Tasks, CancelActiveTask(c, t),
           task[t].status = "cancelled", UNCHANGED <<task, order, up, log>>, NEW p \in Workers
    PROVE  Worked(p)
  <1>1. CASE UNCHANGED worker
      BY <1>1 DEF Worked
  <1>2. ASSUME NEW q \in Workers, Registered(q), worker[q].t = t,
               worker' = [worker EXCEPT ![q].ctx = TRUE]
        PROVE  Worked(p)
      <2>1. CASE p # q
          BY <1>2, <2>1, Parts DEF Worked, WorkerOK
      <2>2. CASE p = q
          <3>1. Stays(p) /\ worker'[p].err = worker[p].err /\ worker'[p].lost = worker[p].lost
              BY <1>2, <2>2, Parts DEF Stays, Copy, WorkerOK, WorkerState
          <3> QED BY <1>2, <2>2, <3>1 DEF Worked
      <2> QED BY <2>1, <2>2
  <1> QED BY <1>1, <1>2 DEF CancelActiveTask

LEMMA OneWorks ==
    ASSUME TypeInv, Attempts, NEW q \in Workers, WorkerStep(q), NEW p \in Workers, p # q
    PROVE  worker'[p] = worker[p]
  <1>1. Acts(q)
      BY WorkerStepActs
  <1> QED BY <1>1 DEF Acts

LEMMA Workings ==
    ASSUME TypeInv, Attempts, [Next]_vars, NEW p \in Workers
    PROVE  Worked(p)
  <1>1. CASE UNCHANGED worker
      BY <1>1 DEF Worked
  <1>2. ASSUME NEW q \in Workers, WorkerStep(q) PROVE Worked(p)
      BY <1>2, OneWorks DEF Worked
  <1>3. ASSUME NEW q \in Workers, ClaimNextTask(q) PROVE Worked(p)
      <2> PICK t \in Tasks : ClaimTask(q, t)
          BY <1>3 DEF ClaimNextTask
      <2>1. /\ worker' = [worker EXCEPT ![q].pc = "claimed", ![q].t = t, ![q].gen = task[t].gen + 1]
            /\ At(q, "idle")
          BY DEF ClaimTask
      <2>2. CASE p # q
          BY <2>1, <2>2, Parts DEF Worked, WorkerOK
      <2>3. CASE p = q
          <3>1. /\ worker'[p].pc = "claimed" /\ worker'[p].lost = worker[p].lost
                /\ worker'[p].ctx = worker[p].ctx /\ worker'[p].t = t /\ worker'[p].gen = task[t].gen + 1
              BY <2>1, <2>3, Parts DEF WorkerOK, WorkerState
          <3> QED BY <2>1, <2>3, <3>1 DEF Worked
      <2> QED BY <2>2, <2>3
  <1>4. ASSUME NEW q \in Workers, RenewTaskLease(q) PROVE Worked(p)
      <2>1. UNCHANGED worker \/ worker' = [worker EXCEPT ![q].lost = TRUE, ![q].ctx = TRUE]
          BY <1>4 DEF RenewTaskLease
      <2>2. CASE worker' = [worker EXCEPT ![q].lost = TRUE, ![q].ctx = TRUE]
          <3>1. CASE p # q
              BY <2>2, <3>1, Parts DEF Worked, WorkerOK
          <3>2. CASE p = q
              <4>1. Stays(p) /\ worker'[p].err = worker[p].err
                  BY <2>2, <3>2, Parts DEF Stays, Copy, WorkerOK, WorkerState
              <4> QED BY <1>4, <3>2, <4>1 DEF Worked
          <3> QED BY <3>1, <3>2
      <2> QED BY <1>1, <2>1, <2>2
  <1>5. ASSUME NEW c \in Clients, ClientStep(c) PROVE Worked(p)
      <2>1. CASE CancelReread(c) /\ ~UNCHANGED worker
          <3>1. /\ CancelActiveTask(c, client[c].t) /\ task[client[c].t].status = "cancelled"
                /\ UNCHANGED <<task, order, up, log>> /\ client[c].pc # "idle"
              BY <2>1 DEF CancelReread
          <3> QED BY <3>1, ClientFacts, Interrupted
      <2>2. CASE ~CancelReread(c)
          BY <1>1, <1>5, <2>2 DEF ClientStep, CancelTaskIfQueued, CancelTaskIfRunning, CancelRefund,
             CancelMarkUncertain, RetryTaskWithBilling, ResumeTaskWithUncertainBilling
      <2> QED BY <1>1, <2>1, <2>2
  <1>6. ASSUME NEW c \in Clients, NEW t \in Tasks, CancelTask(c, t) PROVE Worked(p)
      <2>1. \/ UNCHANGED worker
            \/ /\ CancelActiveTask(c, t) /\ task[t].status = "cancelled"
               /\ UNCHANGED <<task, order, up, log>>
          BY <1>6 DEF CancelTask
      <2> QED BY <1>1, <2>1, Interrupted
  <1>7. ASSUME NEW x \in Crashable, Crash(x) PROVE Worked(p)
      BY <1>7 DEF Crash, Worked
  <1>8. CASE \/ \E t \in Tasks : CreateTask(t) \/ LeaseExpires(t)
             \/ \E c \in Clients, t \in Tasks : RetryTask(c, t)
             \/ \E o \in Orders : ResolveBillingOrder(o) \/ ReconcileBillingOrder(o) \/ ProviderFinishes(o)
             \/ UNCHANGED vars
      <2>1. UNCHANGED worker
          BY <1>8 DEF CreateTask, LeaseExpires, RetryTask, ResolveBillingOrder,
             ReconcileBillingOrder, ProviderFinishes, vars
      <2> QED BY <1>1, <2>1
  <1> QED BY <1>2, <1>3, <1>4, <1>5, <1>6, <1>7, <1>8 DEF Next

----------------------------------------------------------------------------
(* Who changes an order *)

\* An order changes its status and keeps the job it knows.
Sets(o, s) == order'[o].status = s /\ order'[o].prov = order[o].prov
Marks(o) == order[o].status \in OpenBilling /\ Sets(o, "uncertain")

\* The worker p, for its order o.
ByWorker(p, o) ==
    \/ StartBilling(p) /\ order[o].status \in {"reserved", "running"} /\ Sets(o, "running")
    \/ (Post(p) \/ Poll(p)) /\ "record" \in Faults /\ Marks(o)
    \/ /\ SaveProviderCall(p) /\ order'[o].prov \in {order[o].prov, o}
       /\ \/ order'[o].status = order[o].status
          \/ /\ order[o].status \in OpenBilling /\ order'[o].status = "uncertain"
             /\ \/ "record" \in Faults
                \/ Kind[worker[p].t] = "fenced" /\ ~SavesRunning(p) /\ ~SavesCancelled(p)
    \/ WorkerMarkUncertain(p) /\ Marks(o)
    \/ /\ FinalizeFailed(p) /\ FailedBillingOK(p) /\ RunningLease(p)
       /\ order'[o].status = FailedBilling(p) /\ order'[o].prov \in {order[o].prov, o}
    \/ /\ FinalizeSucceeded(p) /\ CompletedBillingOK(p) /\ RunningLease(p)
       /\ Sets(o, CompletedBilling(p))
    \/ SettleCompleted(p) /\ Kind[worker[p].t] = "token" /\ Sets(o, "settled")
    \/ /\ SaveCancelledTaskResult(p) /\ HoldsLease(p) /\ task[worker[p].t].status = "cancelled"
       /\ Marks(o)

ByRequest(c, o) ==
    \/ CancelRefund(c) /\ Sets(o, "refunded")
    \/ CancelMarkUncertain(c) /\ Marks(o)

ByReview(o) ==
    /\ Reconciles /\ order[o].status = "uncertain" /\ order[o].prov # None
    /\ Kind[order[o].task] # "plain" /\ UNCHANGED <<up, task>>
    /\ \/ up[order[o].prov] = "done" /\ Sets(o, "settled")
       \/ up[order[o].prov] = "failed" /\ Sets(o, "refunded")

Taken(o) == order[o].status = "unused" /\ order'[o].status = "reserved" /\ order'[o].prov = None

LEMMA SetOrder ==
    ASSUME OrderOK, NEW x \in Orders, NEW o \in Orders, NEW s, order' = SetBilling(x, s)
    PROVE  IF o = x THEN Sets(o, s) ELSE order'[o] = order[o]
  BY DEF OrderOK, OrderRow, SetBilling, Sets

LEMMA MarkOrder ==
    ASSUME OrderOK, NEW x \in Orders, NEW o \in Orders, order' = MarkedUncertain(x)
    PROVE  order'[o] = order[o] \/ (o = x /\ Marks(o))
  BY SetOrder DEF MarkedUncertain, Marks

LEMMA LogOrder ==
    ASSUME OrderOK, NEW x \in Orders, NEW o \in Orders, order' \in FailureLogged(x)
    PROVE  order'[o] = order[o] \/ (o = x /\ Marks(o) /\ "record" \in Faults)
  BY MarkOrder DEF FailureLogged

LEMMA ProvOrder ==
    ASSUME NEW f \in [Orders -> OrderRow], NEW x \in Orders, NEW o \in Orders, NEW j,
           order' = [f EXCEPT ![x].prov = j]
    PROVE  IF o = x THEN order'[o].status = f[o].status /\ order'[o].prov = j
                    ELSE order'[o] = f[o]
  BY DEF OrderRow

LEMMA FailOrder ==
    ASSUME OrderOK, NEW x \in Orders, NEW o \in Orders, NEW s, NEW j,
           order' = [order EXCEPT ![x].status = s, ![x].prov = j]
    PROVE  IF o = x THEN order'[o].status = s /\ order'[o].prov = j ELSE order'[o] = order[o]
  BY DEF OrderOK, OrderRow

LEMMA WorkerCharges ==
    ASSUME TypeInv, Attempts, NEW p \in Workers, WorkerStep(p), NEW o \in Orders
    PROVE  \/ order'[o] = order[o]
           \/ worker[p].pc \notin {"idle", "claimed"} /\ worker[p].ord = o /\ ByWorker(p, o)
  <1> DEFINE w == worker[p]
             x == worker[p].ord
             Goal == \/ order'[o] = order[o]
                     \/ w.pc \notin {"idle", "claimed"} /\ x = o /\ ByWorker(p, o)
  <1>0. OrderOK /\ (w.pc \notin {"idle", "claimed"} => x \in Orders /\ (w.prov # None => w.prov = x))
      BY Parts, WorkerFacts, OwnFits DEF Fits
  <1>1. CASE \/ Reread(p) \/ VerifyEnvelope(p) \/ UpdateTaskProgress(p)
             \/ ReadBilling(p) \/ CallFails(p) \/ ResumeJob(p)
             \/ BeginProviderCreate(p) \/ HandleError(p) \/ ScheduleReconciliation(p)
             \/ ReadLatest(p) \/ ClaimCancelledTaskResult(p) \/ UpdateTaskProgress90(p)
      BY <1>1 DEF Reread, VerifyEnvelope, UpdateTaskProgress, ReadBilling,
         CallFails, ResumeJob, BeginProviderCreate, HandleError,
         ScheduleReconciliation, ReadLatest, ClaimCancelledTaskResult, UpdateTaskProgress90
  <1>2. CASE StartBilling(p)
      <2>1. w.pc = "startbill" /\ x \in Orders
          BY <1>0, <1>2 DEF StartBilling, At
      <2>2. \/ UNCHANGED order
            \/ order' = SetBilling(x, "running") /\ order[x].status \in {"reserved", "running"}
          BY <1>2 DEF StartBilling, Startable
      <2> HIDE DEF x
      <2>3. order'[o] = order[o] \/ (x = o /\ Sets(o, "running") /\ order[o].status \in {"reserved", "running"})
          BY <1>0, <2>1, <2>2, SetOrder
      <2> QED BY <1>2, <2>1, <2>3 DEF ByWorker, x
  <1>3. CASE Post(p)
      <2>1. w.pc = "post" /\ x \in Orders /\ (UNCHANGED order \/ order' \in FailureLogged(x))
          BY <1>0, <1>3 DEF Post, At
      <2> HIDE DEF x
      <2>2. order'[o] = order[o] \/ (o = x /\ Marks(o) /\ "record" \in Faults)
          BY <1>0, <2>1, LogOrder
      <2> QED BY <1>3, <2>1, <2>2 DEF ByWorker, x
  <1>4. CASE Poll(p)
      <2>1. /\ w.pc = "poll" /\ x \in Orders
            /\ \/ UNCHANGED order \/ order' \in FailureLogged(x)
               \/ order' = MarkedUncertain(x) /\ "record" \in Faults
          BY <1>0, <1>4 DEF Poll, At
      <2> HIDE DEF x
      <2>2. order'[o] = order[o] \/ (o = x /\ Marks(o) /\ "record" \in Faults)
          BY <1>0, <2>1, LogOrder, MarkOrder
      <2> QED BY <1>4, <2>1, <2>2 DEF ByWorker, x
  <1>5. CASE SaveProviderCall(p)
      <2> DEFINE f == MarkedUncertain(x)
                 lost == \/ "record" \in Faults
                         \/ Kind[w.t] = "fenced" /\ ~SavesRunning(p) /\ ~SavesCancelled(p)
      <2>1. w.pc = "save" /\ x \in Orders /\ w.job = x
          BY <1>0, <1>5, OwnFits DEF SaveProviderCall, At, JobPC
      <2>2. \/ order' = [order EXCEPT ![x].prov = w.job]
            \/ lost /\ \E j \in {w.job, f[x].prov} : order' = [f EXCEPT ![x].prov = j]
          BY <1>5 DEF SaveProviderCall
      <2>3. f \in [Orders -> OrderRow] /\ f[x].prov = order[x].prov
            /\ (f[o] = order[o] \/ (o = x /\ f[o].status = "uncertain" /\ order[o].status \in OpenBilling))
          <3> HIDE DEF x
          <3>1. f \in [Orders -> OrderRow]
              BY <1>0, <2>1, MarkedType DEF OrderOK
          <3>2. CASE order[x].status \in OpenBilling
              <4>1. f = [order EXCEPT ![x].status = "uncertain"]
                  BY <3>2 DEF MarkedUncertain, SetBilling
              <4>2. f[x].prov = order[x].prov /\ f[x].status = "uncertain" /\ (o # x => f[o] = order[o])
                  BY <1>0, <2>1, <4>1 DEF OrderOK, OrderRow
              <4> HIDE DEF f
              <4> QED BY <3>1, <3>2, <4>2
          <3>3. CASE order[x].status \notin OpenBilling
              BY <1>0, <3>1, <3>3 DEF MarkedUncertain
          <3> QED BY <3>2, <3>3
      <2>4. CASE order' = [order EXCEPT ![x].prov = w.job]
          <3>1. order'[o] = order[o] \/ (o = x /\ order'[o].status = order[o].status /\ order'[o].prov = o)
              <4> HIDE DEF x
              <4> QED BY <1>0, <2>1, <2>4, ProvOrder DEF OrderOK
          <3> QED BY <1>5, <2>1, <3>1 DEF ByWorker
      <2>5. ASSUME lost, NEW j \in {w.job, f[x].prov}, order' = [f EXCEPT ![x].prov = j] PROVE Goal
          <3>1. \/ order'[o] = order[o]
                \/ /\ o = x /\ order'[o].prov \in {order[o].prov, o}
                   /\ order'[o].status = order[o].status \/ (order'[o].status = "uncertain" /\ order[o].status \in OpenBilling)
              <4> HIDE DEF x, f, lost
              <4> QED BY <2>1, <2>3, <2>5, ProvOrder
          <3> QED BY <1>5, <2>1, <2>5, <3>1 DEF ByWorker
      <2> QED BY <2>2, <2>4, <2>5
  <1>6. CASE WorkerMarkUncertain(p)
      <2>1. w.pc = "markunc" /\ x \in Orders /\ order' = MarkedUncertain(x)
          BY <1>0, <1>6 DEF WorkerMarkUncertain, At
      <2> HIDE DEF x
      <2>2. order'[o] = order[o] \/ (o = x /\ Marks(o))
          BY <1>0, <2>1, MarkOrder
      <2> QED BY <1>6, <2>1, <2>2 DEF ByWorker, x
  <1>7. CASE FinalizeFailed(p)
      <2> DEFINE j == IF w.err = "uncertain" /\ w.prov # None THEN w.prov ELSE order[x].prov
                 s == FailedBilling(p)
      <2>1. w.pc = "final" /\ x \in Orders /\ j \in {order[x].prov, x}
          BY <1>0, <1>7 DEF FinalizeFailed, At
      <2>2. \/ UNCHANGED order
            \/ /\ FailedBillingOK(p) /\ RunningLease(p)
               /\ order' = [order EXCEPT ![x].status = s, ![x].prov = j]
          BY <1>7 DEF FinalizeFailed
      <2> HIDE DEF x, j, s
      <2>3. \/ order'[o] = order[o]
            \/ FailedBillingOK(p) /\ RunningLease(p) /\ o = x /\ order'[o].status = s /\ order'[o].prov \in {order[o].prov, o}
          BY <1>0, <2>1, <2>2, FailOrder
      <2> QED BY <1>7, <2>1, <2>3 DEF ByWorker, x, s
  <1>8. CASE SaveCancelledTaskResult(p)
      <2>1. w.pc = "saveres" /\ x \in Orders
          BY <1>0, <1>8 DEF SaveCancelledTaskResult, At
      <2>2. \/ UNCHANGED order
            \/ /\ HoldsLease(p) /\ task[w.t].status = "cancelled" /\ order[x].status \in OpenBilling
               /\ order' = SetBilling(x, "uncertain")
          BY <1>8 DEF SaveCancelledTaskResult
      <2> HIDE DEF x
      <2>3. \/ order'[o] = order[o]
            \/ HoldsLease(p) /\ task[w.t].status = "cancelled" /\ o = x /\ Marks(o)
          BY <1>0, <2>1, <2>2, SetOrder DEF Marks
      <2> QED BY <1>8, <2>1, <2>3 DEF ByWorker, x
  <1>9. CASE FinalizeSucceeded(p)
      <2> DEFINE s == CompletedBilling(p)
      <2>1. w.pc = "complete" /\ x \in Orders
          BY <1>0, <1>9 DEF FinalizeSucceeded, At
      <2>2. \/ UNCHANGED order
            \/ CompletedBillingOK(p) /\ RunningLease(p) /\ order' = SetBilling(x, s)
          BY <1>9 DEF FinalizeSucceeded
      <2> HIDE DEF x, s
      <2>3. \/ order'[o] = order[o]
            \/ CompletedBillingOK(p) /\ RunningLease(p) /\ o = x /\ Sets(o, s)
          BY <1>0, <2>1, <2>2, SetOrder
      <2> QED BY <1>9, <2>1, <2>3 DEF ByWorker, x, s
  <1>10. CASE SettleCompleted(p)
      <2>1. w.pc = "settle" /\ x \in Orders
          BY <1>0, <1>10 DEF SettleCompleted, At
      <2>2. UNCHANGED order \/ (Kind[w.t] = "token" /\ order' = SetBilling(x, "settled"))
          BY <1>10 DEF SettleCompleted
      <2> HIDE DEF x
      <2>3. order'[o] = order[o] \/ (Kind[w.t] = "token" /\ o = x /\ Sets(o, "settled"))
          BY <1>0, <2>1, <2>2, SetOrder
      <2> QED BY <1>10, <2>1, <2>3 DEF ByWorker, x
  <1> QED BY <1>1, <1>2, <1>3, <1>4, <1>5, <1>6, <1>7, <1>8, <1>9, <1>10 DEF WorkerStep

LEMMA RequestCharges ==
    ASSUME TypeInv, NEW c \in Clients, ClientStep(c), NEW o \in Orders
    PROVE  \/ order'[o] = order[o]
           \/ client[c].pc # "idle" /\ client[c].ord = o /\ ByRequest(c, o)
           \/ RetryTaskWithBilling(c)
  <1> DEFINE x == client[c].ord
  <1>0. OrderOK /\ (client[c].pc # "idle" => x \in Orders)
      BY Parts, ClientFacts
  <1>1. CASE CancelTaskIfQueued(c) \/ CancelTaskIfRunning(c) \/ CancelReread(c) \/ ResumeTaskWithUncertainBilling(c)
      BY <1>1 DEF CancelTaskIfQueued, CancelTaskIfRunning, CancelReread, ResumeTaskWithUncertainBilling
  <1>2. CASE CancelRefund(c)
      <2>1. client[c].pc = "refund" /\ x \in Orders /\ (UNCHANGED order \/ order' = SetBilling(x, "refunded"))
          BY <1>0, <1>2 DEF CancelRefund
      <2> HIDE DEF x
      <2>2. order'[o] = order[o] \/ (o = x /\ Sets(o, "refunded"))
          BY <1>0, <2>1, SetOrder
      <2> QED BY <1>2, <2>1, <2>2 DEF ByRequest, x
  <1>3. CASE CancelMarkUncertain(c)
      <2>1. client[c].pc = "markunc" /\ x \in Orders /\ order' = MarkedUncertain(x)
          BY <1>0, <1>3 DEF CancelMarkUncertain
      <2> HIDE DEF x
      <2>2. order'[o] = order[o] \/ (o = x /\ Marks(o))
          BY <1>0, <2>1, MarkOrder
      <2> QED BY <1>3, <2>1, <2>2 DEF ByRequest, x
  <1> QED BY <1>1, <1>2, <1>3 DEF ClientStep

\* An order changes in one of these ways.
LEMMA Charges ==
    ASSUME TypeInv, Attempts, [Next]_vars, NEW o \in Orders
    PROVE  \/ order'[o] = order[o]
           \/ Taken(o)
           \/ \E p \in Workers : worker[p].pc \notin {"idle", "claimed"} /\ worker[p].ord = o /\ ByWorker(p, o)
           \/ \E c \in Clients : client[c].pc # "idle" /\ client[c].ord = o /\ ByRequest(c, o)
           \/ ByReview(o)
           \/ \E s \in Resolutions : Sets(o, s)
  <1>0. OrderOK
      BY Parts
  <1>1. ASSUME NEW t \in Tasks, CreateTask(t) PROVE order'[o] = order[o] \/ Taken(o)
      BY <1>0, <1>1 DEF CreateTask, OrderOK, Taken
  <1>2. ASSUME NEW c \in Clients, RetryTaskWithBilling(c) PROVE order'[o] = order[o] \/ Taken(o)
      <2>1. ASSUME NEW x \in Orders, order[x].status = "unused",
                   order' = [order EXCEPT ![x] = [status |-> "reserved", prov |-> None, task |-> client[c].t]]
            PROVE  order'[o] = order[o] \/ Taken(o)
          BY <1>0, <2>1 DEF OrderOK, Taken
      <2> QED BY <1>2, <2>1 DEF RetryTaskWithBilling
  <1>3. ASSUME NEW x \in Orders, ReconcileBillingOrder(x)
        PROVE  order'[o] = order[o] \/ ByReview(o)
      <2>1. /\ Reconciles /\ order[x].status = "uncertain" /\ order[x].prov # None
            /\ Kind[order[x].task] # "plain" /\ UNCHANGED <<up, task>>
            /\ \/ up[order[x].prov] = "done" /\ order' = SetBilling(x, "settled")
               \/ up[order[x].prov] = "failed" /\ order' = SetBilling(x, "refunded")
          BY <1>3 DEF ReconcileBillingOrder
      <2>2. \/ order'[o] = order[o]
            \/ /\ o = x
               /\ \/ up[order[x].prov] = "done" /\ Sets(o, "settled")
                  \/ up[order[x].prov] = "failed" /\ Sets(o, "refunded")
          BY <1>0, <2>1, SetOrder
      <2> QED BY <2>1, <2>2 DEF ByReview
  <1>4. CASE \/ \E t \in Tasks : LeaseExpires(t)
             \/ \E p \in Workers : ClaimNextTask(p) \/ RenewTaskLease(p)
             \/ \E c \in Clients, t \in Tasks : CancelTask(c, t) \/ RetryTask(c, t)
             \/ \E x \in Orders : ProviderFinishes(x)
             \/ \E x \in Crashable : Crash(x)
             \/ UNCHANGED vars
      BY <1>4 DEF LeaseExpires, ClaimNextTask, ClaimTask, RenewTaskLease,
         CancelTask, RetryTask, ProviderFinishes, Crash, vars
  <1>5. ASSUME NEW x \in Orders, ResolveBillingOrder(x)
        PROVE  order'[o] = order[o] \/ \E s \in Resolutions : Sets(o, s)
      BY <1>0, <1>5, SetOrder DEF ResolveBillingOrder
  <1> QED BY <1>1, <1>2, <1>3, <1>4, <1>5, WorkerCharges, RequestCharges DEF Next

----------------------------------------------------------------------------
(* What the provider knows *)

UpMoves(o) ==
    \/ up'[o] = up[o]
    \/ up[o] = "open" /\ up'[o] \in {"done", "failed"} /\ ~\E p \in Workers : Post(p)
    \/ \E p \in Workers : /\ Post(p) /\ worker[p].ord = o
                          /\ up'[o] = IF Kind[worker[p].t] = "token" \/ up[o] = "done"
                                      THEN "done" ELSE "open"

LEMMA UpSteps ==
    ASSUME TypeInv, [Next]_vars, NEW o \in Orders PROVE UpMoves(o)
  <1>0. up \in [Orders -> Jobs]
      BY Parts DEF RestOK
  <1>1. CASE UNCHANGED up
      BY <1>1 DEF UpMoves
  <1>2. ASSUME NEW p \in Workers, WorkerStep(p) PROVE UpMoves(o)
      <2>1. CASE Post(p)
          <3> DEFINE x == worker[p].ord
                     a == IF Kind[worker[p].t] = "token" \/ up[x] = "done" THEN "done" ELSE "open"
          <3>1. up' = up \/ up' = [up EXCEPT ![x] = a]
              BY <2>1 DEF Post
          <3>2. up'[o] = up[o] \/ (o = x /\ up'[o] = a)
              BY <1>0, <3>1
          <3> QED BY <2>1, <3>2 DEF UpMoves
      <2>2. CASE ~Post(p)
          <3>1. UNCHANGED up
              BY <1>2, <2>2 DEF WorkerStep, Reread, VerifyEnvelope, UpdateTaskProgress,
             ReadBilling, StartBilling, CallFails, ResumeJob, BeginProviderCreate,
             SaveProviderCall, Poll, HandleError, ScheduleReconciliation,
             WorkerMarkUncertain, FinalizeFailed, ReadLatest,
             ClaimCancelledTaskResult, SaveCancelledTaskResult,
             UpdateTaskProgress90, FinalizeSucceeded, SettleCompleted
          <3> QED BY <1>1, <3>1
      <2> QED BY <2>1, <2>2
  <1>3. ASSUME NEW x \in Orders, ProviderFinishes(x) PROVE UpMoves(o)
      <2>1. up[x] = "open" /\ up' \in {[up EXCEPT ![x] = "done"], [up EXCEPT ![x] = "failed"]}
            /\ UNCHANGED <<posts>>
          BY <1>3 DEF ProviderFinishes
      <2>2. ASSUME NEW p \in Workers, Post(p) PROVE FALSE
          <3>1. worker[p].ord \in Orders /\ posts \in [Orders -> Nat]
              BY <2>2, WorkerFacts, Parts DEF Post, At, RestOK
          <3>2. posts' = [posts EXCEPT ![worker[p].ord] = posts[worker[p].ord] + 1]
              BY <2>2 DEF Post
          <3>3. posts'[worker[p].ord] = posts[worker[p].ord] + 1 /\ posts[worker[p].ord] \in Nat
              BY <3>1, <3>2
          <3> QED BY <2>1, <3>3
      <2>3. up'[o] = up[o] \/ (up[o] = "open" /\ up'[o] \in {"done", "failed"})
          BY <1>0, <2>1
      <2> QED BY <2>2, <2>3 DEF UpMoves
  <1>4. ASSUME NEW c \in Clients, ClientStep(c) PROVE UNCHANGED up
      BY <1>4 DEF ClientStep, CancelTaskIfQueued, CancelTaskIfRunning, CancelRefund,
         CancelMarkUncertain, CancelReread, RetryTaskWithBilling, ResumeTaskWithUncertainBilling
  <1>5. CASE \/ \E t \in Tasks : CreateTask(t) \/ LeaseExpires(t)
             \/ \E p \in Workers : ClaimNextTask(p) \/ RenewTaskLease(p)
             \/ \E c \in Clients, t \in Tasks : CancelTask(c, t) \/ RetryTask(c, t)
             \/ \E x \in Orders : ResolveBillingOrder(x) \/ ReconcileBillingOrder(x)
             \/ \E x \in Crashable : Crash(x)
             \/ UNCHANGED vars
      BY <1>1, <1>5 DEF CreateTask, LeaseExpires, ClaimNextTask, ClaimTask, RenewTaskLease,
         CancelTask, RetryTask, ResolveBillingOrder, ReconcileBillingOrder, Crash, vars
  <1> QED BY <1>1, <1>2, <1>3, <1>4, <1>5 DEF Next

\* A job once done stays done.
LEMMA DoneStays ==
    ASSUME TypeInv, [Next]_vars, NEW o \in Orders, up[o] = "done" PROVE up'[o] = "done"
  BY UpSteps DEF UpMoves

----------------------------------------------------------------------------
(* A failed task holds nothing *)

LEMMA InUse ==
    ASSUME TypeInv, Attempts, NEW t \in Tasks, task[t].status # "absent"
    PROVE  /\ task[t].order \in Orders /\ order[task[t].order].task = t
           /\ order[task[t].order].status # "unused"
  <1>1. task[t].order \in Orders /\ order[task[t].order].task = t /\ t # None
      BY Parts, NoneAssumption DEF TaskOK, Attempts, RowInv
  <1> QED BY <1>1 DEF Attempts, OrderInv

LEMMA FailedCharge ==
    ASSUME TypeInv, Attempts, NEW t \in Tasks, NEW p \in Workers, worker[p].t = t,
           worker[p].pc \notin {"idle", "claimed"}, Failed(p, t)
    PROVE  order'[task[t].order].status \in {"refunded", "uncertain"}
  <1> DEFINE o == worker[p].ord
             s == FailedBilling(p)
             j == IF worker[p].err = "uncertain" /\ worker[p].prov # None THEN worker[p].prov ELSE order[o].prov
  <1>1. o = task[t].order /\ o \in Orders
      BY HolderFacts, WorkerFacts DEF Failed, RunningLease
  <1>2. order' = [order EXCEPT ![o].status = s, ![o].prov = j]
      BY DEF Failed, FinalizeFailed
  <1>3. s \in {"refunded", "uncertain"}
      BY DEF FailedBilling
  <1> HIDE DEF o, s, j
  <1> QED BY <1>1, <1>2, <1>3, FailOrder, Parts

\* The status of a row after a step.
LEMMA RowStatus ==
    ASSUME TypeInv, Attempts, [Next]_vars, NEW t \in Tasks
    PROVE  /\ task'[t].status = "failed" =>
                 \/ Stands(t)
                 \/ \E p \in Workers : /\ worker[p].pc \notin {"idle", "claimed"} /\ worker[p].t = t
                                       /\ Rejected(p, t) \/ Failed(p, t)
           /\ task'[t].status = "succeeded" =>
                 \/ Stands(t)
                 \/ \E p \in Workers : /\ worker[p].pc \notin {"idle", "claimed"} /\ worker[p].t = t
                                       /\ Succeeded(p, t)
           /\ task'[t].status = "cancelled" =>
                 \/ task[t].status = "cancelled" /\ task'[t].order = task[t].order
                 \/ \E c \in Clients : client[c].pc # "idle" /\ client[c].t = t /\ CancelledBy(c, t)
  <1>1. ASSUME Created(t) PROVE task'[t].status = "queued"
      BY <1>1 DEF Created, Reserves
  <1>2. ASSUME NEW p \in Workers, Claimed(p, t) PROVE task'[t].status = "running"
      BY <1>2 DEF Claimed, Turns
  <1>3. ASSUME NEW p \in Workers, worker[p].pc \notin {"idle", "claimed"}, worker[p].t = t, Recorded(p, t)
        PROVE  /\ task'[t].status = task[t].status /\ task'[t].order = task[t].order
               /\ task'[t].status \in {"running", "cancelled"}
      BY <1>3 DEF Recorded, Turns, SavesRunning, SavesCancelled, RunningLease
  <1>4. ASSUME NEW p \in Workers, Rejected(p, t) \/ Failed(p, t) PROVE task'[t].status = "failed"
      BY <1>4 DEF Rejected, Failed, Turns
  <1>5. ASSUME NEW p \in Workers, Succeeded(p, t) PROVE task'[t].status = "succeeded"
      BY <1>5 DEF Succeeded, Turns
  <1>6. ASSUME NEW c \in Clients, CancelledBy(c, t) PROVE task'[t].status = "cancelled"
      BY <1>6 DEF CancelledBy, Turns
  <1>7. ASSUME NEW c \in Clients, Retried(c, t) \/ Resumed(c, t) PROVE task'[t].status = "queued"
      BY <1>7 DEF Retried, Resumed, Reserves, Turns
  <1>8. Stands(t) => task'[t].status = task[t].status /\ task'[t].order = task[t].order
      BY DEF Stands, Still
  <1> QED BY <1>1, <1>2, <1>3, <1>4, <1>5, <1>6, <1>7, <1>8, RowTurns DEF WorkerTurns, ClientTurns

LEMMA FailedStep ==
    ASSUME TypeInv, Attempts, [Next]_vars, "envelope" \notin Faults, FailedIsResolved
    PROVE  FailedIsResolved'
  <1> SUFFICES ASSUME NEW t \in Tasks, task'[t].status = "failed"
               PROVE  order'[task'[t].order].status \notin {"reserved", "running"}
      BY DEF FailedIsResolved
  <1>1. CASE Stands(t)
      <2>1. task[t].status = "failed" /\ task'[t].order = task[t].order
          BY <1>1 DEF Stands, Still
      <2>2. order[task[t].order].status \notin {"reserved", "running", "unused"} /\ task[t].order \in Orders
          BY <2>1, InUse DEF FailedIsResolved
      <2> QED BY <2>1, <2>2, LegalMoves DEF Legal
  <1>2. ASSUME NEW p \in Workers, worker[p].pc \notin {"idle", "claimed"}, worker[p].t = t, Failed(p, t)
        PROVE  order'[task'[t].order].status \notin {"reserved", "running"}
      BY <1>2, FailedCharge DEF Failed, Turns
  <1>3. \A p \in Workers : ~Rejected(p, t)
      BY DEF Rejected
  <1> QED BY <1>1, <1>2, <1>3, RowStatus

\* A failed task does not hold credits nobody is going to look at: the error
\* path of processClaimedTask ends the task and closes its order, or hands it
\* to review, in one transaction.  FailClaimedTaskFacts, the answer to an
\* envelope that fails its check, is the path that does not.
THEOREM FailedResolved ==
    ASSUME "envelope" \notin Faults
    PROVE  Spec => []FailedIsResolved
  <1>1. Init => FailedIsResolved
      <2> SUFFICES ASSUME Init, NEW t \in Tasks PROVE task[t].status # "failed"
          BY DEF FailedIsResolved
      <2>1. AbsentTask.status = "absent"
          BY DEF AbsentTask
      <2> QED BY <2>1 DEF Init
  <1>2. TypeInv /\ Attempts /\ FailedIsResolved /\ [Next]_vars => FailedIsResolved'
      BY FailedStep
  <1> QED BY <1>1, <1>2, TypeInit, TypeStep, LeaseInit, LeaseStep, AttemptsInit, AttemptsStep, PTL DEF Spec

----------------------------------------------------------------------------
(* A result is charged *)

\* From the answer on, a worker has the output of a finished job.
Produced == {"succeeded", "claimres", "saveres", "persist", "complete"}
HasOutput(w) == w.pc \in Produced \/ (w.pc = "save" /\ Kind[w.t] = "token")
DoneInv == \A p \in Workers : HasOutput(worker[p]) => up[worker[p].job] = "done"

\* Only fenced jobs are known to the task.
UnfencedInv ==
    /\ \A t \in Tasks : Kind[t] # "fenced" => task[t].prov = None
    /\ \A p \in Workers : worker[p].pc \notin {"idle", "claimed"} /\ Kind[worker[p].t] # "fenced"
           => worker[p].prov = None

\* An order knows no job but its own.
ProvInv == \A o \in Orders : order[o].prov \in {None, o}

\* A request follows an order of its task, and refunds one of a task that is
\* cancelled, or has a new order.
RequestInv == \A c \in Clients : client[c].pc # "idle" =>
    order[client[c].ord].task = client[c].t
RefundInv == \A c \in Clients :
    /\ client[c].pc = "refund" /\ Kind[client[c].t] # "fenced"
    /\ task[client[c].t].order = client[c].ord
    => task[client[c].t].status = "cancelled"

LEMMA ProvStep ==
    ASSUME TypeInv, Attempts, [Next]_vars, ProvInv
    PROVE  ProvInv'
  <1> SUFFICES ASSUME NEW o \in Orders PROVE order'[o].prov \in {None, o}
      BY DEF ProvInv
  <1>1. order[o].prov \in {None, o}
      BY DEF ProvInv
  <1> QED BY <1>1, Charges DEF ByWorker, ByRequest, ByReview, Marks, Sets, Taken

LEMMA DoneStep ==
    ASSUME TypeInv, Attempts, [Next]_vars, DoneInv
    PROVE  DoneInv'
  <1> SUFFICES ASSUME NEW p \in Workers, HasOutput(worker'[p])
               PROVE  up'[worker'[p].job] = "done"
      BY DEF DoneInv, HasOutput
  <1> DEFINE w == worker[p]
  <1>1. ASSUME HasOutput(w), worker'[p].job = w.job PROVE up'[worker'[p].job] = "done"
      <2>1. w.job \in Orders /\ up[w.job] = "done"
          BY <1>1, WorkerFacts DEF DoneInv, HasOutput, Produced, JobPC
      <2> QED BY <1>1, <2>1, DoneStays
  <1>2. CASE worker'[p] = w \/ Stays(p)
      BY <1>1, <1>2 DEF Stays, Copy, HasOutput
  <1>3. CASE worker'[p] = IdleWorker \/ worker'[p].pc = "claimed"
      <2>1. IdleWorker.pc = "idle"
          BY DEF IdleWorker
      <2> QED BY <1>3, <2>1 DEF HasOutput, Produced
  <1>4. CASE WorkerStep(p)
      <2>1. CASE Post(p) /\ worker'[p].pc = "save"
          <3>1. w.pc = "post" /\ w.ord \in Orders /\ w \in WorkerState
              BY <2>1, WorkerFacts DEF Post, At
          <3>2. worker' = [worker EXCEPT ![p].pc = "save", ![p].job = w.ord]
                /\ up' = [up EXCEPT ![w.ord] = IF Kind[w.t] = "token" \/ up[w.ord] = "done" THEN "done" ELSE "open"]
              <4>1. \A e \in Errors : ~Fail(p, e)
                  BY <2>1, LeadFail, Parts DEF Leads, Goes
              <4> QED BY <2>1, <4>1, Errs DEF Post
          <3>3. worker'[p].t = w.t /\ worker'[p].job = w.ord
              BY <3>2, Parts DEF WorkerOK, WorkerState
          <3>4. Kind[w.t] = "token"
              BY <2>1, <3>3 DEF HasOutput, Produced
          <3> QED BY <3>1, <3>2, <3>3, <3>4, Parts DEF RestOK
      <2>2. CASE ClaimCancelledTaskResult(p)
          <3>1. w.pc = "claimres" /\ worker'[p].job = w.job
              BY <2>2, Parts DEF ClaimCancelledTaskResult, At, Goto, WorkerOK, WorkerState
          <3> QED BY <1>1, <3>1 DEF HasOutput, Produced
      <2>3. ASSUME NEW pc, Leads(p, pc)
            PROVE  worker'[p].pc = pc /\ worker'[p].job = w.job /\ worker'[p].t = w.t
          BY <2>3 DEF Leads, Goes, Copy
      <2>4. CASE SaveProviderCall(p) /\ Kind[w.t] = "token" /\ Leads(p, "succeeded")
          <3>1. w.pc = "save"
              BY <2>4 DEF SaveProviderCall, At
          <3> QED BY <1>1, <2>3, <2>4, <3>1 DEF HasOutput
      <2>5. CASE Poll(p) /\ up[w.job] = "done" /\ Leads(p, "succeeded")
          <3>1. w.pc = "poll" /\ w.job \in Orders
              BY <2>5, WorkerFacts DEF Poll, At, JobPC
          <3> QED BY <2>3, <2>5, <3>1, DoneStays
      <2>6. CASE \/ ReadLatest(p) /\ (Leads(p, "persist") \/ Leads(p, "saveres") \/ Leads(p, "claimres"))
                 \/ UpdateTaskProgress90(p) /\ Leads(p, "complete")
          <3>1. w.pc \in Produced
              BY <2>6 DEF ReadLatest, UpdateTaskProgress90, At, Produced
          <3> QED BY <1>1, <2>3, <2>6, <3>1 DEF HasOutput
      <2>7. ASSUME NEW pc, Leads(p, pc), pc \notin Produced \cup {"save"} PROVE FALSE
          BY <2>3, <2>7 DEF HasOutput
      <2>8. CASE worker'[p].pc \in {"verify", "poll"}
          BY <2>8 DEF HasOutput, Produced
      <2> QED BY <1>3, <1>4, <2>1, <2>2, <2>4, <2>5, <2>6, <2>7, <2>8, Edges DEF Edge, Produced
  <1> QED BY <1>2, <1>3, <1>4, Workings DEF Worked

----------------------------------------------------------------------------
(* How a worker comes to a position *)

Reaches(p) ==
    /\ worker'[p].pc = "verify" => Reread(p) /\ HoldsLease(p)
    /\ worker'[p].pc = "progress" => VerifyEnvelope(p) /\ ~worker[p].rec
    /\ worker'[p].pc = "readbill" => UpdateTaskProgress(p) /\ RunningLease(p) /\ worker[p].prov # None
    /\ worker'[p].pc = "startbill" =>
          \/ UpdateTaskProgress(p) /\ RunningLease(p) /\ worker[p].prov = None
          \/ ReadBilling(p)
    /\ worker'[p].pc = "call" =>
          \/ VerifyEnvelope(p) /\ worker[p].rec
          \/ ReadBilling(p) /\ order[worker[p].ord].status = "uncertain"
          \/ StartBilling(p) /\ Startable(p)
    /\ worker'[p].pc = "post" => BeginProviderCreate(p)
    /\ worker'[p].pc = "save" => Post(p)
    /\ worker'[p].pc = "poll" => ResumeJob(p) \/ (SaveProviderCall(p) /\ Kind[worker[p].t] # "token")
    /\ worker'[p].pc = "error" =>
          CallFails(p) \/ BeginProviderCreate(p) \/ Post(p) \/ SaveProviderCall(p) \/ Poll(p)
    /\ worker'[p].pc = "schedule" => HandleError(p) /\ task[worker[p].t].status = "cancelled"
    /\ worker'[p].pc = "markunc" =>
          \/ HandleError(p) /\ task[worker[p].t].status = "cancelled"
          \/ ScheduleReconciliation(p) /\ task[worker[p].t].status = "cancelled"
          \/ ClaimCancelledTaskResult(p) \/ SaveCancelledTaskResult(p)
    /\ worker'[p].pc = "final" =>
          \/ HandleError(p) /\ task[worker[p].t].status # "cancelled"
          \/ StartBilling(p) /\ ~Startable(p)
          \/ FinalizeSucceeded(p)
    /\ worker'[p].pc = "succeeded" =>
          \/ SaveProviderCall(p) /\ Kind[worker[p].t] = "token"
          \/ Poll(p) /\ up[worker[p].job] = "done"
    /\ worker'[p].pc \in {"claimres", "saveres"} =>
          \/ ReadLatest(p) /\ task[worker[p].t].status = "cancelled"
          \/ ClaimCancelledTaskResult(p) /\ ResultClaimable(p)
    /\ worker'[p].pc = "persist" => ReadLatest(p) /\ task[worker[p].t].status # "cancelled"
    /\ worker'[p].pc = "complete" => UpdateTaskProgress90(p) /\ RunningLease(p)
    /\ worker'[p].pc = "settle" => FinalizeSucceeded(p) /\ RunningLease(p) /\ CompletedBillingOK(p)

LEMMA IdlePC == IdleWorker.pc = "idle" /\ IdleClient.pc = "idle"
  BY DEF IdleWorker, IdleClient

LEMMA EdgeReaches ==
    ASSUME NEW p \in Workers, Edge(p), worker'[p].pc # "idle"
    PROVE  Reaches(p)
  <1>1. \A pc : Leads(p, pc) => worker'[p].pc = pc
      BY DEF Leads, Goes
  <1>2. worker'[p] # IdleWorker
      BY IdlePC
  <1> QED BY <1>1, <1>2 DEF Edge, Reaches

\* A worker that changes its position makes a step, or has stopped or claimed.
LEMMA Moving ==
    ASSUME TypeInv, Attempts, [Next]_vars, NEW p \in Workers,
           worker'[p].pc # worker[p].pc, worker'[p].pc \notin {"idle", "claimed"}
    PROVE  WorkerStep(p) /\ Reaches(p)
  <1>1. WorkerStep(p)
      BY IdlePC, Workings DEF Worked, Stays
  <1> QED BY <1>1, Edges, EdgeReaches

\* The job of a row after a step.
LEMMA RowProv ==
    ASSUME TypeInv, Attempts, [Next]_vars, NEW t \in Tasks
    PROVE  \/ task'[t].prov = task[t].prov
           \/ task'[t].prov = None /\ task'[t].status = "queued"
           \/ \E p \in Workers : /\ worker[p].pc \notin {"idle", "claimed"} /\ worker[p].t = t
                                 /\ Recorded(p, t) \/ (task'[t].prov = worker[p].prov /\ (Failed(p, t) \/ Succeeded(p, t)))
  <1>1. ASSUME Created(t) PROVE task'[t].prov = None /\ task'[t].status = "queued"
      BY <1>1 DEF Created, Reserves
  <1>2. ASSUME NEW p \in Workers, Claimed(p, t) \/ Rejected(p, t) PROVE task'[t].prov = task[t].prov
      BY <1>2 DEF Claimed, Rejected
  <1>3. ASSUME NEW p \in Workers, Failed(p, t) \/ Succeeded(p, t) PROVE task'[t].prov = worker[p].prov
      BY <1>3 DEF Failed, Succeeded
  <1>4. ASSUME NEW c \in Clients, CancelledBy(c, t) \/ Resumed(c, t) PROVE task'[t].prov = task[t].prov
      BY <1>4 DEF CancelledBy, Resumed
  <1>5. ASSUME NEW c \in Clients, Retried(c, t) PROVE task'[t].prov = None /\ task'[t].status = "queued"
      BY <1>5 DEF Retried, Reserves
  <1>6. Stands(t) => task'[t].prov = task[t].prov
      BY DEF Stands, Still
  <1> QED BY <1>1, <1>2, <1>3, <1>4, <1>5, <1>6, RowTurns DEF WorkerTurns, ClientTurns

\* What a worker knows after a step: what it knew, but for the reading after
\* its claim and for the claim of a late result.
Recalls(p) ==
    /\ worker[p].pc \notin {"idle", "claimed"}
    /\ worker'[p].prov = worker[p].prov /\ worker'[p].rec = worker[p].rec
    /\ \/ worker'[p].gen = worker[p].gen /\ worker'[p].ord = worker[p].ord
       \/ /\ ClaimCancelledTaskResult(p) /\ ResultClaimable(p)
          /\ worker'[p].ord = task[worker[p].t].order
Learns(p) ==
    /\ worker[p].pc = "claimed" /\ Reread(p) /\ HoldsLease(p)
    /\ worker'[p].prov = task[worker[p].t].prov /\ worker'[p].ord = task[worker[p].t].order
    /\ worker'[p].stage = task[worker[p].t].stage /\ worker'[p].gen = worker[p].gen
    /\ worker'[p].rec = (task[worker[p].t].status = "cancelled")

LEMMA WorkerProv ==
    ASSUME TypeInv, Attempts, [Next]_vars, NEW p \in Workers,
           worker'[p].pc \notin {"idle", "claimed"}
    PROVE  worker'[p].t = worker[p].t /\ (Recalls(p) \/ Learns(p))
  <1> DEFINE w == worker[p]
             Goal == worker'[p].t = w.t /\ (Recalls(p) \/ Learns(p))
  <1>1. CASE worker'[p] = w \/ Stays(p)
      BY <1>1 DEF Stays, Copy, Recalls
  <1>2. CASE worker'[p] = IdleWorker
      <2>1. IdleWorker.pc = "idle"
          BY DEF IdleWorker
      <2> QED BY <1>2, <2>1
  <1>3. CASE WorkerStep(p)
      <2>1. CASE Reread(p)
          <3>1. CASE HoldsLease(p)
              <4>1. w.pc = "claimed"
                  BY <2>1 DEF Reread, At
              <4>2. /\ worker'[p].t = w.t /\ worker'[p].prov = task[w.t].prov
                    /\ worker'[p].ord = task[w.t].order /\ worker'[p].stage = task[w.t].stage
                    /\ worker'[p].rec = (task[w.t].status = "cancelled") /\ worker'[p].gen = w.gen
                  BY <2>1, <3>1, Parts DEF Reread, WorkerOK, WorkerState
              <4> QED BY <2>1, <3>1, <4>1, <4>2 DEF Learns
          <3>2. CASE ~HoldsLease(p)
              <4>1. worker'[p] = IdleWorker
                  BY <2>1, <3>2, LeadOut, Parts DEF Reread
              <4> QED BY <1>2, <4>1
          <3> QED BY <3>1, <3>2
      <2>2. CASE ResumeJob(p)
          BY <2>2, Parts DEF ResumeJob, At, WorkerOK, WorkerState, Recalls
      <2>3. CASE Post(p) /\ worker'[p].pc = "save"
          <3>1. \A e \in Errors : ~Fail(p, e)
              BY <2>3, LeadFail, Parts DEF Leads, Goes
          <3>2. worker' = [worker EXCEPT ![p].pc = "save", ![p].job = w.ord] /\ w.pc = "post"
              BY <2>3, <3>1, Errs DEF Post, At
          <3> QED BY <3>2, Parts DEF WorkerOK, WorkerState, Recalls
      <2>4. CASE ClaimCancelledTaskResult(p) /\ ResultClaimable(p)
          BY <2>4, Parts DEF ClaimCancelledTaskResult, At, WorkerOK, WorkerState, Recalls
      <2>5. ASSUME NEW pc, Leads(p, pc), w.pc \notin {"idle", "claimed"} PROVE Goal
          BY <2>5 DEF Leads, Goes, Copy, Recalls
      <2>6. ~Reread(p) => w.pc \notin {"idle", "claimed"}
          BY <1>3 DEF WorkerStep, VerifyEnvelope, UpdateTaskProgress,
             ReadBilling, StartBilling, CallFails, ResumeJob, BeginProviderCreate, Post,
             SaveProviderCall, Poll, HandleError, ScheduleReconciliation,
             WorkerMarkUncertain, FinalizeFailed, ReadLatest,
             ClaimCancelledTaskResult, SaveCancelledTaskResult,
             UpdateTaskProgress90, FinalizeSucceeded, SettleCompleted, At
      <2> QED BY <1>2, <1>3, <2>1, <2>2, <2>3, <2>4, <2>5, <2>6, Edges DEF Edge
  <1> QED BY <1>1, <1>2, <1>3, Workings DEF Worked

LEMMA UnfencedStep ==
    ASSUME TypeInv, Attempts, [Next]_vars, UnfencedInv
    PROVE  UnfencedInv'
  <1>1. ASSUME NEW t \in Tasks, Kind[t] # "fenced" PROVE task'[t].prov = None
      <2>1. task[t].prov = None
          BY <1>1 DEF UnfencedInv
      <2>2. \A p \in Workers : worker[p].pc \notin {"idle", "claimed"} /\ worker[p].t = t
               => worker[p].prov = None /\ ~Recorded(p, t)
          BY <1>1 DEF UnfencedInv, Recorded
      <2> QED BY <2>1, <2>2, RowProv
  <1>2. ASSUME NEW p \in Workers, worker'[p].pc \notin {"idle", "claimed"}, Kind[worker'[p].t] # "fenced"
        PROVE  worker'[p].prov = None
      <2>1. worker[p].t \in Tasks
          BY <1>2, WorkerProv, WorkerFacts DEF Recalls, Learns
      <2> QED BY <1>2, <2>1, WorkerProv DEF UnfencedInv, Recalls, Learns
  <1> QED BY <1>1, <1>2 DEF UnfencedInv

\* An order in use stays with its task.
LEMMA OrderStays ==
    ASSUME TypeInv, Attempts, [Next]_vars, NEW o \in Orders, order[o].task # None
    PROVE  order'[o].task = order[o].task
  <1>1. OrdersMove
      BY StepMoves DEF Passes, Acts
  <1> QED BY <1>1 DEF OrdersMove, OrderKept, Attempts, OrderInv

LEMMA RequestStep ==
    ASSUME TypeInv, Attempts, [Next]_vars, RequestInv
    PROVE  RequestInv'
  <1> SUFFICES ASSUME NEW c \in Clients, client'[c].pc # "idle"
               PROVE  order'[client'[c].ord].task = client'[c].t
      BY DEF RequestInv
  <1>1. CASE client[c].pc # "idle" /\ Keeps(c)
      <2>1. /\ client[c].ord \in Orders /\ client[c].t \in Tasks
            /\ order[client[c].ord].task = client[c].t
          BY <1>1, ClientFacts DEF RequestInv
      <2> QED BY <1>1, <2>1, OrderStays, NoneAssumption DEF Keeps
  <1>2. ASSUME NEW t \in Tasks, task[t].status # "absent", UNCHANGED order,
               client'[c].t = t, client'[c].ord = task[t].order
        PROVE  order'[client'[c].ord].task = client'[c].t
      BY <1>2, InUse
  <1>3. CancelReread(c) => client[c].t \in Tasks
      BY ClientFacts DEF CancelReread
  <1>4. client'[c] = client[c] => client[c].pc # "idle" /\ Keeps(c)
      BY DEF Keeps
  <1>5. CancelTaskIfQueued(c) \/ CancelTaskIfRunning(c) => client[c].pc # "idle"
      BY DEF CancelTaskIfQueued, CancelTaskIfRunning
  <1>6. Request(c)
      BY Requests
  <1> QED BY <1>1, <1>2, <1>3, <1>4, <1>5, <1>6 DEF Request

\* An order not in use belongs to nobody.
LEMMA ReservesUnused ==
    ASSUME Attempts, NEW o \in Orders, NEW t \in Tasks, NEW x \in Orders, Reserves(t, o),
           order[x].task = t
    PROVE  task'[t].order # x
  BY NoneAssumption DEF Reserves, Attempts, OrderInv

LEMMA RefundStep ==
    ASSUME TypeInv, Attempts, [Next]_vars, UnfencedInv, RequestInv, RefundInv
    PROVE  RefundInv'
  <1> SUFFICES ASSUME NEW c \in Clients, client'[c].pc = "refund", Kind[client'[c].t] # "fenced",
                      task'[client'[c].t].order = client'[c].ord
               PROVE  task'[client'[c].t].status = "cancelled"
      BY DEF RefundInv
  <1> DEFINE t == client'[c].t
  <1>1. CASE CancelTaskIfQueued(c) /\ Keeps(c) /\ task[client[c].t].status = "queued"
      <2>1. t = client[c].t /\ t \in Tasks /\ client[c].pc # "idle"
          BY <1>1, ClientFacts DEF Keeps, CancelTaskIfQueued
      <2>2. task' = [task EXCEPT ![t] = Cancelled(task[t])]
          BY <1>1, <2>1 DEF CancelTaskIfQueued
      <2>3. Cancelled(task[t]).status = "cancelled"
          BY <2>1, Parts DEF Cancelled, Unlease, TaskOK, TaskRow
      <2> QED BY <2>1, <2>2, <2>3, Parts DEF TaskOK
  <1>2. CASE client'[c] = client[c]
      <2> DEFINE o == client[c].ord
      <2>1. /\ t \in Tasks /\ o \in Orders /\ order[o].task = t /\ Kind[t] # "fenced"
            /\ task'[t].order = o
          BY <1>2, ClientFacts DEF RequestInv
      <2>2. task[t].order = o => task[t].status = "cancelled"
          BY <1>2, <2>1 DEF RefundInv
      <2>3. Stands(t) => task'[t].status = "cancelled"
          BY <2>1, <2>2 DEF Stands, Still
      <2>4. ~Created(t) /\ \A d \in Clients : ~Retried(d, t)
          BY <2>1, ReservesUnused DEF Created, Retried
      <2>5. \A p \in Workers :
               /\ ~Claimed(p, t)
               /\ worker[p].t = t => ~(Rejected(p, t) \/ Recorded(p, t) \/ Failed(p, t) \/ Succeeded(p, t))
          BY <2>1, <2>2 DEF Claimed, Rejected, Recorded, Failed, Succeeded, Turns, RunningLease
      <2>6. ~WorkerTurns(t) /\ \A p \in Workers : ~Claimed(p, t)
          BY <2>5 DEF WorkerTurns
      <2>7. \A d \in Clients : ~Resumed(d, t)
          BY <2>1 DEF Resumed, Resumable, UnfencedInv
      <2>8. \A d \in Clients : CancelledBy(d, t) => task'[t].status = "cancelled"
          BY DEF CancelledBy, Turns
      <2> QED BY <2>1, <2>3, <2>4, <2>6, <2>7, <2>8, RowTurns DEF ClientTurns
  <1> QED BY <1>1, <1>2, Requests DEF Request

LEMMA SucceededStep ==
    ASSUME TypeInv, Attempts, [Next]_vars, "refunded" \notin Resolutions,
           DoneInv, ProvInv, RequestInv, RefundInv, SucceededIsCharged
    PROVE  SucceededIsCharged'
  <1> SUFFICES ASSUME NEW t \in Tasks, task'[t].status = "succeeded"
               PROVE  /\ up'[task'[t].order] = "done"
                      /\ \/ order'[task'[t].order].status = "settled"
                         \/ Kind[t] = "token" /\ order'[task'[t].order].status = "uncertain"
      BY DEF SucceededIsCharged
  <1> DEFINE o == task[t].order
  <1>1. CASE Stands(t)
      <2>1. task[t].status = "succeeded" /\ task'[t].order = o
          BY <1>1 DEF Stands, Still
      <2>2. /\ o \in Orders /\ order[o].task = t /\ up[o] = "done"
            /\ \/ order[o].status = "settled"
               \/ Kind[t] = "token" /\ order[o].status = "uncertain"
          BY <2>1, InUse DEF SucceededIsCharged
      <2>3. up'[o] = "done"
          BY <2>2, DoneStays
      <2>4. order'[o].status # "refunded"
          <3> SUFFICES ASSUME order'[o].status = "refunded" PROVE FALSE
              OBVIOUS
          <3>0. order[o].status = "uncertain" /\ Kind[t] = "token"
              BY <2>2, LegalMoves DEF Legal
          <3>1. ASSUME NEW p \in Workers, worker[p].pc \notin {"idle", "claimed"}, worker[p].ord = o, ByWorker(p, o) PROVE FALSE
              <4>1. FinalizeFailed(p) /\ FailedBillingOK(p) /\ FailedBilling(p) = "refunded"
                  BY <3>0, <3>1 DEF ByWorker, Marks, Sets, CompletedBilling
              <4> QED BY <3>0, <3>1, <4>1 DEF FailedBillingOK, FailedBilling
          <3>2. ASSUME NEW c \in Clients, client[c].pc # "idle", client[c].ord = o, ByRequest(c, o) PROVE FALSE
              <4>1. client[c].pc = "refund"
                  BY <3>0, <3>2 DEF ByRequest, Marks, Sets, CancelRefund
              <4>2. client[c].t = t
                  BY <2>2, <3>2 DEF RequestInv
              <4> QED BY <2>1, <3>0, <3>2, <4>1, <4>2 DEF RefundInv
          <3>3. ~ByReview(o)
              <4>1. order[o].prov \in {None, o}
                  BY <2>2 DEF ProvInv
              <4> QED BY <2>2, <4>1 DEF ByReview, Sets
          <3>4. ~\E s \in Resolutions : Sets(o, s)
              BY DEF Sets
          <3> QED BY <2>2, <3>0, <3>1, <3>2, <3>3, <3>4, Charges DEF Taken
      <2> QED BY <2>1, <2>2, <2>3, <2>4, LegalMoves DEF Legal
  <1>2. ASSUME NEW p \in Workers, worker[p].pc \notin {"idle", "claimed"}, worker[p].t = t, Succeeded(p, t)
        PROVE  /\ up'[task'[t].order] = "done"
               /\ \/ order'[task'[t].order].status = "settled"
                  \/ Kind[t] = "token" /\ order'[task'[t].order].status = "uncertain"
      <2> DEFINE x == worker[p].ord
                 s == CompletedBilling(p)
      <2>1. x = o /\ x \in Orders /\ task'[t].order = o
          BY <1>2, HolderFacts, WorkerFacts DEF Succeeded, RunningLease, Turns
      <2>2. worker[p].pc = "complete" /\ worker[p].job = x /\ UNCHANGED up
          BY <1>2, OwnFits DEF Succeeded, FinalizeSucceeded, At, JobPC
      <2>3. up[o] = "done"
          BY <2>1, <2>2 DEF DoneInv, HasOutput, Produced
      <2>4. order' = SetBilling(x, s)
          BY <1>2 DEF Succeeded, FinalizeSucceeded, TypeInv, TaskOK, Turns, RunningLease
      <2>5. s = "settled" \/ (Kind[t] = "token" /\ s = "uncertain")
          BY <1>2 DEF CompletedBilling
      <2> HIDE DEF s, x
      <2>6. Sets(x, s)
          BY <2>1, <2>4, SetOrder, Parts
      <2> QED BY <2>1, <2>2, <2>3, <2>5, <2>6 DEF Sets
  <1> QED BY <1>1, <1>2, RowStatus

ChargeInv == DoneInv /\ UnfencedInv /\ ProvInv /\ RequestInv /\ RefundInv

LEMMA ChargeInit == Init => ChargeInv /\ SucceededIsCharged
  <1> SUFFICES ASSUME Init PROVE ChargeInv /\ SucceededIsCharged
      OBVIOUS
  <1>1. AbsentTask.status = "absent" /\ AbsentTask.prov = None
      BY DEF AbsentTask
  <1>2. UnusedOrder.prov = None
      BY DEF UnusedOrder
  <1>3. IdleWorker.pc = "idle" /\ IdleClient.pc = "idle"
      BY DEF IdleWorker, IdleClient
  <1>4. /\ \A t \in Tasks : task[t].status = "absent" /\ task[t].prov = None
        /\ \A o \in Orders : order[o].prov = None
        /\ \A p \in Workers : worker[p].pc = "idle"
        /\ \A c \in Clients : client[c].pc = "idle"
      BY <1>1, <1>2, <1>3 DEF Init
  <1> QED BY <1>4 DEF ChargeInv, DoneInv, HasOutput, Produced, UnfencedInv, ProvInv,
       RequestInv, RefundInv, SucceededIsCharged

\* A succeeded task has a finished provider job, and its charge is settled or,
\* for a token price, still under review, never refunded: not by a request to
\* cancel that comes late, by the error path of another worker or by the
\* reconciliation.  Only an administrator who decides to refund it can.
THEOREM ResultIsCharged ==
    ASSUME "refunded" \notin Resolutions
    PROVE  Spec => []SucceededIsCharged
  <1>1. ChargeInv /\ SucceededIsCharged /\ TypeInv /\ LeaseInv /\ Attempts /\ [Next]_vars
           => (ChargeInv /\ SucceededIsCharged)'
      BY DoneStep, UnfencedStep, ProvStep, RequestStep, RefundStep, SucceededStep DEF ChargeInv
  <1> QED BY <1>1, ChargeInit, TypeInit, TypeStep, LeaseInit, LeaseStep, AttemptsInit, AttemptsStep, PTL DEF Spec

----------------------------------------------------------------------------
(* Tasks that run once *)

\* Without retries a task has one attempt: its row keeps its order and goes
\* one way, and every worker and request follows that order.  What a worker
\* or a request does after a cancellation it does to a cancelled task.
Ended == {"markunc", "schedule", "claimres", "saveres"}
OnceInv ==
    /\ left["retry"] = 0
    /\ \A c \in Clients : /\ client[c].pc \notin {"retry", "resume"}
                          /\ client[c].pc # "idle" => /\ client[c].ord = task[client[c].t].order
                                                      /\ task[client[c].t].status # "absent"
                          /\ client[c].pc \in {"refund", "markunc"} => task[client[c].t].status = "cancelled"
    /\ \A p \in Workers : worker[p].pc \notin {"idle", "claimed"} =>
          /\ worker[p].ord = task[worker[p].t].order
          /\ worker[p].pc \in Ended \/ worker[p].rec => task[worker[p].t].status = "cancelled"
          /\ worker[p].pc = "settle" => task[worker[p].t].status = "succeeded"

OneWay(k, n) ==
    /\ n.order = k.order /\ n.status # "absent"
    /\ k.status # "queued" => n.status # "queued"
    /\ k.status \in {"succeeded", "failed", "cancelled"} => n.status = k.status

LEMMA RowOnce ==
    ASSUME TypeInv, Attempts, [Next]_vars, OnceInv, NEW t \in Tasks, task[t].status # "absent"
    PROVE  OneWay(task[t], task'[t])
  <1> DEFINE k == task[t]
             n == task'[t]
  <1>1. CASE Stands(t)
      BY <1>1 DEF Stands, Still, OneWay
  <1>2. ~Created(t)
      BY DEF Created
  <1>3. ASSUME NEW p \in Workers, Claimed(p, t) PROVE OneWay(k, n)
      BY <1>3 DEF Claimed, Turns, OneWay
  <1>4. CASE WorkerTurns(t)
      <2> PICK p \in Workers : /\ worker[p].t = t
                               /\ Rejected(p, t) \/ Recorded(p, t) \/ Failed(p, t) \/ Succeeded(p, t)
          BY <1>4 DEF WorkerTurns
      <2>1. CASE Recorded(p, t)
          BY <2>1 DEF Recorded, Turns, OneWay
      <2>2. CASE Rejected(p, t) \/ Failed(p, t) \/ Succeeded(p, t)
          BY <2>2 DEF Rejected, Failed, Succeeded, Turns, OneWay, RunningLease
      <2> QED BY <2>1, <2>2
  <1>5. CASE ClientTurns(t)
      <2> PICK c \in Clients : CancelledBy(c, t) \/ Retried(c, t) \/ Resumed(c, t)
          BY <1>5 DEF ClientTurns
      <2>1. CASE CancelledBy(c, t)
          BY <2>1 DEF CancelledBy, Turns, OneWay
      <2>2. ~Retried(c, t) /\ ~Resumed(c, t)
          BY DEF Retried, Resumed, RetryTaskWithBilling, ResumeTaskWithUncertainBilling, OnceInv
      <2> QED BY <2>1, <2>2
  <1> QED BY <1>1, <1>2, <1>3, <1>4, <1>5, RowTurns

LEMMA LeftStays ==
    ASSUME TypeInv, [Next]_vars, NEW e \in Events, left[e] = 0
    PROVE  left'[e] = 0
  <1>0. left \in [Events -> Nat]
      BY Parts DEF RestOK
  <1>1. CASE UNCHANGED left
      BY <1>1
  <1>2. ASSUME NEW f \in Events, left[f] > 0, left' = [left EXCEPT ![f] = left[f] - 1]
        PROVE  left'[e] = 0
      BY <1>0, <1>2
  <1>3. ASSUME NEW p \in Workers, WorkerStep(p) PROVE UNCHANGED left
      BY <1>3, WorkersOnly
  <1>4. ASSUME NEW c \in Clients, ClientStep(c) PROVE UNCHANGED left
      BY <1>4 DEF ClientStep, CancelTaskIfQueued, CancelTaskIfRunning, CancelRefund,
         CancelMarkUncertain, CancelReread, RetryTaskWithBilling, ResumeTaskWithUncertainBilling
  <1>5. ASSUME NEW c \in Clients, NEW t \in Tasks, CancelTask(c, t) \/ RetryTask(c, t)
        PROVE  \E f \in Events : left[f] > 0 /\ left' = [left EXCEPT ![f] = left[f] - 1]
      BY <1>5 DEF CancelTask, RetryTask, Events
  <1>6. ASSUME NEW t \in Tasks, LeaseExpires(t)
        PROVE  \/ UNCHANGED left
               \/ \E f \in Events : left[f] > 0 /\ left' = [left EXCEPT ![f] = left[f] - 1]
      BY <1>6 DEF LeaseExpires, Events
  <1>7. ASSUME NEW x \in Crashable, Crash(x)
        PROVE  \E f \in Events : left[f] > 0 /\ left' = [left EXCEPT ![f] = left[f] - 1]
      BY <1>7 DEF Crash, Events
  <1>8. CASE \/ \E t \in Tasks : CreateTask(t)
             \/ \E p \in Workers : ClaimNextTask(p) \/ RenewTaskLease(p)
             \/ \E x \in Orders : ResolveBillingOrder(x) \/ ReconcileBillingOrder(x) \/ ProviderFinishes(x)
             \/ UNCHANGED vars
      BY <1>1, <1>8 DEF CreateTask, ClaimNextTask, ClaimTask, RenewTaskLease,
         ResolveBillingOrder, ReconcileBillingOrder, ProviderFinishes, vars
  <1> QED BY <1>1, <1>2, <1>3, <1>4, <1>5, <1>6, <1>7, <1>8 DEF Next

LEMMA OnceClient ==
    ASSUME TypeInv, Attempts, [Next]_vars, OnceInv, NEW c \in Clients, client'[c].pc # "idle"
    PROVE  /\ client'[c].pc \notin {"retry", "resume"}
           /\ client'[c].ord = task'[client'[c].t].order
           /\ task'[client'[c].t].status # "absent"
           /\ client'[c].pc \in {"refund", "markunc"} => task'[client'[c].t].status = "cancelled"
  <1> DEFINE u == client[c].t
  <1>0. left["retry"] = 0 /\ ~(0 > 0)
      BY DEF OnceInv
  <1>1. client[c].pc # "idle" => /\ u \in Tasks /\ task[u].status # "absent" /\ client[c].ord = task[u].order
                                 /\ client[c].pc \notin {"retry", "resume"}
                                 /\ OneWay(task[u], task'[u])
      BY ClientFacts, RowOnce DEF OnceInv
  <1>2. CASE client'[c] = client[c]
      BY <1>1, <1>2 DEF OneWay, OnceInv
  <1>3. CASE \/ Keeps(c) /\ CancelTaskIfQueued(c) /\ task[u].status = "queued" /\ client'[c].pc = "refund"
             \/ Keeps(c) /\ CancelTaskIfRunning(c) /\ task[u].status = "running" /\ client'[c].pc = "markunc"
      <2>1. client[c].pc # "idle" /\ task' = [task EXCEPT ![u] = Cancelled(task[u])]
          BY <1>3 DEF CancelTaskIfQueued, CancelTaskIfRunning
      <2>2. Cancelled(task[u]).status = "cancelled"
          BY <1>1, <2>1, Parts DEF Cancelled, Unlease, TaskOK, TaskRow
      <2>3. task'[u].status = "cancelled"
          BY <1>1, <2>1, <2>2, Parts DEF TaskOK
      <2> QED BY <1>1, <1>3, <2>1, <2>3 DEF Keeps, OneWay
  <1>4. CASE Keeps(c) /\ client[c].pc # "idle" /\ client'[c].pc \in {"reread", "lastread"}
      BY <1>1, <1>4 DEF Keeps, OneWay
  <1>5. CASE /\ CancelReread(c) /\ task[u].status = "running" /\ UNCHANGED <<task, order>>
             /\ client'[c].pc = "cancelRunning" /\ client'[c].t = u
             /\ client'[c].ord = task[u].order
      BY <1>5
  <1>6. ASSUME NEW t \in Tasks, UNCHANGED task, client'[c].t = t, client'[c].ord = task[t].order,
               /\ task[t].status \in {"queued", "running"}
               /\ client'[c].pc \in {"cancelQueued", "cancelRunning"}
        PROVE  /\ client'[c].pc \notin {"retry", "resume"}
               /\ client'[c].ord = task'[client'[c].t].order
               /\ task'[client'[c].t].status # "absent"
               /\ client'[c].pc \notin {"refund", "markunc"}
      BY <1>6
  <1> QED BY <1>0, <1>2, <1>3, <1>4, <1>5, <1>6, Requests DEF Request

LEMMA OnceWorker ==
    ASSUME TypeInv, Attempts, [Next]_vars, OnceInv, NEW p \in Workers,
           worker'[p].pc \notin {"idle", "claimed"}
    PROVE  /\ worker'[p].ord = task'[worker'[p].t].order
           /\ worker'[p].pc \in Ended \/ worker'[p].rec => task'[worker'[p].t].status = "cancelled"
           /\ worker'[p].pc = "settle" => task'[worker'[p].t].status = "succeeded"
  <1> DEFINE w == worker[p]
             k == task[w.t]
             n == task'[w.t]
  <1>1. worker'[p].t = w.t /\ (Recalls(p) \/ Learns(p))
      BY WorkerProv
  <1>2. w.pc # "idle" /\ w.t \in Tasks /\ OneWay(k, n)
      BY <1>1, WorkerFacts, RowOnce DEF Recalls, Learns
  <1>3. w.pc # "claimed" => /\ w.ord = k.order /\ (w.pc \in Ended \/ w.rec => k.status = "cancelled")
                            /\ w.pc = "settle" => k.status = "succeeded"
      BY <1>2 DEF OnceInv
  <1>4. worker'[p].ord = n.order
      BY <1>1, <1>2, <1>3 DEF Recalls, Learns, OneWay
  <1>5. worker'[p].rec => n.status = "cancelled"
      BY <1>1, <1>2, <1>3 DEF Recalls, Learns, OneWay
  <1> DEFINE Goal == /\ worker'[p].pc \in Ended => n.status = "cancelled"
                     /\ worker'[p].pc = "settle" => n.status = "succeeded"
  <1>6. worker'[p].pc = w.pc => Goal
      BY <1>2, <1>3 DEF OneWay
  <1>7. ASSUME worker'[p].pc # w.pc PROVE Goal
      <2>1. CASE k.status = "cancelled"
          <3>1. n.status = "cancelled"
              BY <1>2, <2>1 DEF OneWay
          <3>2. worker'[p].pc # "settle"
              BY <1>7, <2>1, Moving DEF Reaches, RunningLease
          <3> QED BY <3>1, <3>2
      <2>2. CASE k.status # "cancelled" /\ worker'[p].pc \in Ended \cup {"settle"}
          <3>1. WorkerStep(p) /\ Reaches(p)
              BY <1>7, <2>2, Moving DEF Ended
          <3>2. w.pc # "claimed" => w.pc \notin Ended
              BY <1>3, <2>2
          <3>3. FinalizeSucceeded(p) /\ RunningLease(p) /\ CompletedBillingOK(p) /\ worker'[p].pc = "settle"
              <4>1. ~ResultClaimable(p)
                  BY <2>2 DEF ResultClaimable
              <4>2. ~ScheduleReconciliation(p) /\ ~ClaimCancelledTaskResult(p) /\ ~SaveCancelledTaskResult(p)
                  BY <1>2, <3>2 DEF ScheduleReconciliation, ClaimCancelledTaskResult, SaveCancelledTaskResult, At, Ended
              <4> QED BY <2>2, <3>1, <4>1, <4>2 DEF Reaches, Ended
          <3>4. n.status = "succeeded"
              <4>1. task' = [task EXCEPT ![w.t] = [Unlease(k) EXCEPT !.status = "succeeded", !.result = w.job,
                                   !.prov = w.prov, !.stage = w.stage]]
                  <5>1. worker' # [worker EXCEPT ![p].pc = "final", ![p].err = "uncertain"]
                      BY <3>3, LeadWith, Parts DEF Leads, Goes
                  <5> QED BY <3>3, <5>1 DEF FinalizeSucceeded
              <4>2. k \in TaskRow
                  BY <1>2, WorkerFacts
              <4>3. [Unlease(k) EXCEPT !.status = "succeeded", !.result = w.job,
                                   !.prov = w.prov, !.stage = w.stage].status = "succeeded"
                  BY <4>2 DEF Unlease, TaskRow
              <4> QED BY <1>2, <4>1, <4>3, Parts DEF TaskOK
          <3> QED BY <3>3, <3>4 DEF Ended
      <2>3. CASE worker'[p].pc \notin Ended \cup {"settle"}
          BY <2>3
      <2> QED BY <2>1, <2>2, <2>3
  <1> QED BY <1>1, <1>4, <1>5, <1>6, <1>7

LEMMA OnceStep ==
    ASSUME TypeInv, Attempts, [Next]_vars, OnceInv PROVE OnceInv'
  <1>1. left'["retry"] = 0
      BY LeftStays DEF OnceInv, Events
  <1> QED BY <1>1, OnceClient, OnceWorker DEF OnceInv

LEMMA OnceInit == ASSUME Init, Budget["retry"] = 0 PROVE OnceInv
  <1>1. IdleWorker.pc = "idle" /\ IdleClient.pc = "idle"
      BY DEF IdleWorker, IdleClient
  <1> QED BY <1>1 DEF Init, OnceInv

----------------------------------------------------------------------------
(* A late result can be stored *)

Owes(t) == order[task[t].order].status \in OpenBilling
\* No job is known, and none is being created under a cancelled task.
NoJob(k) == k.prov = None /\ k.stage # "creating"

OweInv == \A t \in Tasks :
    /\ task[t].status \in {"queued", "running"} => Owes(t)
    /\ task[t].status = "queued" => NoJob(task[t])
    /\ task[t].status = "cancelled" => Owes(t) \/ NoJob(task[t])
RefundClear == \A c \in Clients : client[c].pc = "refund" => NoJob(task[client[c].t])

\* Who closes the order of a task that runs once.
LEMMA Closes ==
    ASSUME TypeInv, Attempts, [Next]_vars, OnceInv, Resolutions = {}, ~Reconciles,
           NEW t \in Tasks, task[t].status # "absent", Owes(t),
           order'[task[t].order].status \notin OpenBilling
    PROVE  \/ task'[t].status \in {"failed", "succeeded"}
           \/ \E c \in Clients : client[c].pc = "refund" /\ client[c].t = t
  <1> DEFINE o == task[t].order
  <1>0. o \in Orders /\ order[o].task = t /\ order[o].status # "unused" /\ order'[o] # order[o]
      BY InUse DEF Owes
  <1>1. ASSUME NEW p \in Workers, worker[p].pc \notin {"idle", "claimed"}, worker[p].ord = o, ByWorker(p, o)
        PROVE  task'[t].status \in {"failed", "succeeded"}
      <2>1. worker[p].t = t
          BY <1>0, <1>1, OwnFits
      <2>2. CASE SettleCompleted(p)
          <3>1. task[t].status = "succeeded"
              BY <1>1, <2>1, <2>2 DEF SettleCompleted, At, OnceInv
          <3> QED BY <3>1, RowOnce DEF OneWay
      <2>3. CASE FinalizeFailed(p) /\ FailedBillingOK(p) /\ RunningLease(p)
          <3>1. task[t] \in TaskRow /\ task' = [task EXCEPT ![t] =
                  [Unlease(task[t]) EXCEPT !.status = "failed", !.prov = worker[p].prov, !.stage = worker[p].stage]]
              BY <2>1, <2>3, Parts DEF FinalizeFailed, TaskOK
          <3>2. [Unlease(task[t]) EXCEPT !.status = "failed", !.prov = worker[p].prov, !.stage = worker[p].stage].status = "failed"
              BY <3>1 DEF Unlease, TaskRow
          <3> QED BY <3>1, <3>2, Parts DEF TaskOK
      <2>4. CASE FinalizeSucceeded(p) /\ CompletedBillingOK(p) /\ RunningLease(p) /\ Sets(o, CompletedBilling(p))
          <3>1. ~UNCHANGED order
              BY <1>0
          <3>2. task[t] \in TaskRow /\ task' = [task EXCEPT ![t] =
                  [Unlease(task[t]) EXCEPT !.status = "succeeded", !.result = worker[p].job, !.prov = worker[p].prov, !.stage = worker[p].stage]]
              BY <2>1, <2>4, <3>1, Parts DEF FinalizeSucceeded, TaskOK
          <3>3. [Unlease(task[t]) EXCEPT !.status = "succeeded", !.result = worker[p].job, !.prov = worker[p].prov, !.stage = worker[p].stage].status = "succeeded"
              BY <3>2 DEF Unlease, TaskRow
          <3> QED BY <3>2, <3>3, Parts DEF TaskOK
      <2>5. CASE \/ order'[o].status \in {"running", "uncertain"} \/ order'[o].status = order[o].status
          BY <2>5 DEF OpenBilling, Owes
      <2> QED BY <1>1, <2>2, <2>3, <2>4, <2>5 DEF ByWorker, Marks, Sets
  <1>2. ASSUME NEW c \in Clients, client[c].pc # "idle", client[c].ord = o, ByRequest(c, o)
        PROVE  client[c].pc = "refund" /\ client[c].t = t
      <2>1. client[c].t \in Tasks /\ task[client[c].t].order = o /\ task[client[c].t].status # "absent"
          BY <1>2, ClientFacts DEF OnceInv
      <2>2. client[c].t = t
          BY <1>0, <2>1, InUse
      <2>3. CancelRefund(c)
          BY <1>2 DEF ByRequest, Marks, Sets, OpenBilling
      <2> QED BY <2>2, <2>3 DEF CancelRefund
  <1>3. ~ByReview(o)
      BY DEF ByReview
  <1> QED BY <1>0, <1>1, <1>2, <1>3, Charges DEF Taken

\* No job appears under a cancelled task that has none.
LEMMA NoJobStays ==
    ASSUME TypeInv, Attempts, [Next]_vars, OnceInv, NEW t \in Tasks,
           task[t].status = "cancelled", NoJob(task[t])
    PROVE  NoJob(task'[t])
  <1>1. CASE Stands(t)
      BY <1>1 DEF Stands, Still, NoJob
  <1>2. ~Created(t) /\ \A p \in Workers : ~Claimed(p, t)
      BY DEF Created, Claimed
  <1>3. ~WorkerTurns(t)
      <2>1. \A p \in Workers : worker[p].t = t => ~Rejected(p, t) /\ ~Failed(p, t) /\ ~Succeeded(p, t)
          BY DEF Rejected, Failed, Succeeded, RunningLease
      <2>2. \A p \in Workers : worker[p].t = t => ~Recorded(p, t)
          BY DEF Recorded, SavesRunning, RunningLease, SavesCancelled, JobUnsaved, NoJob
      <2> QED BY <2>1, <2>2 DEF WorkerTurns
  <1>4. ~ClientTurns(t)
      <2>1. \A c \in Clients : ~CancelledBy(c, t)
          BY DEF CancelledBy
      <2>2. \A c \in Clients : ~Retried(c, t) /\ ~Resumed(c, t)
          BY DEF Retried, Resumed, RetryTaskWithBilling, ResumeTaskWithUncertainBilling, OnceInv
      <2> QED BY <2>1, <2>2 DEF ClientTurns
  <1> QED BY <1>1, <1>2, <1>3, <1>4, RowTurns

\* The row of a task cancelled while it was queued.
LEMMA QueuedCancelled ==
    ASSUME TypeInv, NEW k \in TaskRow, NoJob(k)
    PROVE  NoJob(Cancelled(k)) /\ Cancelled(k).status = "cancelled"
  <1>1. Cancelled(k) = [k EXCEPT !.owner = None, !.expired = FALSE, !.status = "cancelled", !.gen = k.gen + 1, !.stage = k.stage]
      BY DEF Cancelled, Unlease, NoJob, TaskRow
  <1>2. [k EXCEPT !.owner = None, !.expired = FALSE, !.status = "cancelled", !.gen = k.gen + 1, !.stage = k.stage].stage = k.stage
        /\ [k EXCEPT !.owner = None, !.expired = FALSE, !.status = "cancelled", !.gen = k.gen + 1, !.stage = k.stage].prov = k.prov
        /\ [k EXCEPT !.owner = None, !.expired = FALSE, !.status = "cancelled", !.gen = k.gen + 1, !.stage = k.stage].status = "cancelled"
      BY DEF TaskRow
  <1> QED BY <1>1, <1>2 DEF NoJob

LEMMA OweStep ==
    ASSUME TypeInv, Attempts, [Next]_vars, OnceInv, OnceInv', Resolutions = {}, ~Reconciles,
           OweInv, RefundClear
    PROVE  OweInv'
  <1> SUFFICES ASSUME NEW t \in Tasks
               PROVE  /\ task'[t].status \in {"queued", "running"} => Owes(t)'
                      /\ task'[t].status = "queued" => NoJob(task'[t])
                      /\ task'[t].status = "cancelled" => Owes(t)' \/ NoJob(task'[t])
      BY DEF OweInv
  <1> DEFINE k == task[t]
             n == task'[t]
  <1>1. CASE k.status = "absent"
      <2>1. CASE Created(t)
          <3> PICK o \in Orders : Reserves(t, o)
              BY <2>1 DEF Created
          <3>1. order'[o].status = "reserved" /\ n.order = o /\ n.status = "queued" /\ NoJob(n)
              BY Parts DEF Reserves, OrderOK, NoJob
          <3> QED BY <3>1 DEF Owes, OpenBilling
      <2>2. CASE Stands(t)
          BY <1>1, <2>2 DEF Stands, Still
      <2>3. ~WorkerTurns(t)
          BY <1>1, WorkerFacts DEF WorkerTurns
      <2>4. ~ClientTurns(t)
          BY <1>1 DEF ClientTurns, OnceInv
      <2>5. \A p \in Workers : ~Claimed(p, t)
          BY <1>1 DEF Claimed
      <2> QED BY <2>1, <2>2, <2>3, <2>4, <2>5, RowTurns
  <1>2. CASE k.status # "absent"
      <2>0. OneWay(k, n)
          BY <1>2, RowOnce
      <2>1. ASSUME n.status \in {"queued", "running"} PROVE Owes(t)'
          <3>1. k.status \in {"queued", "running"} /\ n.order = k.order
              BY <1>2, <2>0, <2>1, Parts DEF OneWay, TaskOK, TaskRow, TaskStatus
          <3>2. Owes(t)
              BY <3>1 DEF OweInv
          <3>3. \A c \in Clients : client[c].pc = "refund" /\ client[c].t = t => k.status = "cancelled"
              BY DEF OnceInv
          <3>4. order'[k.order].status \in OpenBilling
              BY <1>2, <2>1, <3>1, <3>2, <3>3, Closes
          <3> QED BY <3>1, <3>4 DEF Owes
      <2>2. ASSUME n.status = "queued" PROVE NoJob(n)
          <3>1. k.status = "queued" /\ NoJob(k)
              BY <2>0, <2>2 DEF OneWay, OweInv
          <3>2. CASE Stands(t)
              BY <3>1, <3>2 DEF Stands, Still, NoJob
          <3>3. ~Created(t) /\ \A p \in Workers : ~Claimed(p, t)
              BY <1>2, <2>2 DEF Created, Claimed, Turns
          <3>4. ~WorkerTurns(t)
              <4>1. \A p \in Workers : worker[p].t = t => ~Rejected(p, t) /\ ~Failed(p, t) /\ ~Succeeded(p, t)
                  BY <3>1 DEF Rejected, Failed, Succeeded, RunningLease
              <4>2. \A p \in Workers : worker[p].t = t => ~Recorded(p, t)
                  BY <3>1 DEF Recorded, SavesRunning, RunningLease, SavesCancelled
              <4> QED BY <4>1, <4>2 DEF WorkerTurns
          <3>5. ~ClientTurns(t)
              <4>1. \A c \in Clients : ~CancelledBy(c, t)
                  BY <2>2 DEF CancelledBy, Turns
              <4>2. \A c \in Clients : ~Retried(c, t) /\ ~Resumed(c, t)
                  BY <3>1 DEF Retried, Resumed, Resumable
              <4> QED BY <4>1, <4>2 DEF ClientTurns
          <3> QED BY <3>2, <3>3, <3>4, <3>5, RowTurns
      <2>3. ASSUME n.status = "cancelled" PROVE Owes(t)' \/ NoJob(n)
          <3>1. CASE k.status = "cancelled" /\ NoJob(k)
              BY <3>1, NoJobStays
          <3>2. CASE k.status = "cancelled" /\ ~NoJob(k)
              <4>1. Owes(t) /\ n.order = k.order
                  BY <2>0, <3>2 DEF OneWay, OweInv
              <4>2. \A c \in Clients : ~(client[c].pc = "refund" /\ client[c].t = t)
                  BY <3>2 DEF RefundClear
              <4>3. order'[k.order].status \in OpenBilling
                  BY <1>2, <2>3, <4>1, <4>2, Closes
              <4> QED BY <4>1, <4>3 DEF Owes
          <3>3. CASE k.status # "cancelled"
              <4>1. PICK c \in Clients : CancelledBy(c, t)
                  BY <2>3, <3>3, RowStatus
              <4>2. UNCHANGED order /\ k.status \in {"queued", "running"}
                  BY <4>1 DEF CancelledBy, CancelTaskIfQueued, CancelTaskIfRunning
              <4> QED BY <2>0, <4>2 DEF OweInv, Owes, OneWay
          <3> QED BY <3>1, <3>2, <3>3
      <2> QED BY <2>1, <2>2, <2>3
  <1> QED BY <1>1, <1>2

LEMMA ClearStep ==
    ASSUME TypeInv, Attempts, [Next]_vars, OnceInv, OweInv, RefundClear
    PROVE  RefundClear'
  <1> SUFFICES ASSUME NEW c \in Clients, client'[c].pc = "refund"
               PROVE  NoJob(task'[client'[c].t])
      BY DEF RefundClear
  <1>1. CASE client'[c] = client[c]
      <2>1. /\ client[c].t \in Tasks /\ task[client[c].t].status = "cancelled"
            /\ NoJob(task[client[c].t])
          BY <1>1, ClientFacts DEF OnceInv, RefundClear
      <2> QED BY <1>1, <2>1, NoJobStays
  <1>2. CASE Keeps(c) /\ CancelTaskIfQueued(c) /\ task[client[c].t].status = "queued"
      <2> DEFINE u == client[c].t
      <2>1. u \in Tasks /\ task[u] \in TaskRow /\ NoJob(task[u])
          BY <1>2, ClientFacts DEF CancelTaskIfQueued, OweInv
      <2>2. task' = [task EXCEPT ![u] = Cancelled(task[u])]
          BY <1>2 DEF CancelTaskIfQueued
      <2>3. NoJob(Cancelled(task[u]))
          BY <2>1, QueuedCancelled
      <2> QED BY <1>2, <2>1, <2>2, <2>3, Parts DEF Keeps, TaskOK
  <1> QED BY <1>1, <1>2, Requests DEF Request

LateInv == OnceInv /\ OweInv /\ RefundClear

LEMMA LateHolds == OweInv => CancelledResultStorable
  BY DEF OweInv, CancelledResultStorable, NoJob, Owes

\* As long as a cancelled task owes the user the output of a finished job, its
\* order is open and SaveCancelledTaskResult can store it: the refund of a
\* request to cancel is for tasks that were still queued and have no job.  For
\* tasks that are not retried; an administrator or the reconciliation may
\* close the order first.
THEOREM LateResultStorable ==
    ASSUME Budget["retry"] = 0, Resolutions = {}, ~Reconciles
    PROVE  Spec => []CancelledResultStorable
  <1>1. Init => LateInv
      <2> SUFFICES ASSUME Init PROVE LateInv
          OBVIOUS
      <2>1. OnceInv
          BY OnceInit
      <2>2. \A t \in Tasks : task[t].status = "absent"
          <3>1. AbsentTask.status = "absent"
              BY DEF AbsentTask
          <3> QED BY <3>1 DEF Init
      <2>3. \A c \in Clients : client[c].pc = "idle"
          BY IdlePC DEF Init
      <2> QED BY <2>1, <2>2, <2>3 DEF LateInv, OweInv, RefundClear
  <1>2. LateInv /\ TypeInv /\ LeaseInv /\ Attempts /\ [Next]_vars => LateInv'
      <2> SUFFICES ASSUME LateInv, TypeInv, LeaseInv, Attempts, [Next]_vars PROVE LateInv'
          OBVIOUS
      <2>1. OnceInv'
          BY OnceStep DEF LateInv
      <2> QED BY <2>1, OweStep, ClearStep DEF LateInv
  <1>3. LateInv => CancelledResultStorable
      BY LateHolds DEF LateInv
  <1> QED BY <1>1, <1>2, <1>3, TypeInit, TypeStep, LeaseInit, LeaseStep, AttemptsInit, AttemptsStep, PTL DEF Spec

----------------------------------------------------------------------------
(* The row of a task that runs on *)

Leased(k, n) == n.owner = k.owner /\ n.gen = k.gen /\ n.expired = k.expired /\ n.order = k.order

LEMMA WriteRow ==
    ASSUME TypeInv, NEW u \in Tasks, NEW n, task' = [task EXCEPT ![u] = n], NEW t \in Tasks
    PROVE  (t = u /\ task'[t] = n) \/ (t # u /\ task'[t] = task[t])
  BY Parts DEF TaskOK

RunsOn(t) ==
    \/ task'[t] = task[t]
    \/ \E q \in Workers : ClaimTask(q, t)
    \/ \E q \in Workers : /\ worker[q].t = t /\ Leased(task[t], task'[t])
                          /\ \/ BeginProviderCreate(q) /\ task'[t].prov = task[t].prov
                             \/ SaveProviderCall(q) /\ SavesRunning(q)
    \/ \E q \in Workers : RenewTaskLease(q) /\ task'[t] = [task[t] EXCEPT !.expired = FALSE]
    \/ LeaseExpires(t)

LEMMA WorkerRuns ==
    ASSUME TypeInv, NEW p \in Workers, WorkerStep(p), NEW t \in Tasks,
           task[t].status = "running", task'[t].status = "running"
    PROVE  RunsOn(t)
  <1> DEFINE w == worker[p]
             u == w.t
             k == task[u]
  <1>0. w.pc # "idle" => u \in Tasks /\ k \in TaskRow
      BY WorkerFacts
  <1>1. CASE UNCHANGED task
      BY <1>1 DEF RunsOn
  <1>2. CASE VerifyEnvelope(p)
      <2>1. u \in Tasks /\ k \in TaskRow
          BY <1>0, <1>2 DEF VerifyEnvelope, At
      <2> DEFINE n == [Unlease(k) EXCEPT !.status = "failed"]
      <2>2. UNCHANGED task \/ task' = [task EXCEPT ![u] = n]
          BY <1>2, <2>1, Parts DEF VerifyEnvelope, TaskOK
      <2>3. n.status = "failed"
          BY <2>1 DEF Unlease, TaskRow
      <2> HIDE DEF n
      <2>4. ASSUME task' = [task EXCEPT ![u] = n] PROVE task'[t] = task[t]
          <3>1. (t = u /\ task'[t] = n) \/ (t # u /\ task'[t] = task[t])
              BY <2>1, <2>4, WriteRow
          <3> QED BY <2>3, <3>1
      <2>5. CASE task' = [task EXCEPT ![u] = n]
          BY <2>4, <2>5 DEF RunsOn
      <2> QED BY <1>1, <2>2, <2>5
  <1>3. CASE FinalizeFailed(p)
      <2> DEFINE n == [Unlease(k) EXCEPT !.status = "failed", !.prov = w.prov, !.stage = w.stage]
      <2>1. u \in Tasks /\ k \in TaskRow
          BY <1>0, <1>3 DEF FinalizeFailed, At
      <2>2. UNCHANGED task \/ task' = [task EXCEPT ![u] = n]
          BY <1>3 DEF FinalizeFailed
      <2>3. n.status = "failed"
          BY <2>1 DEF Unlease, TaskRow
      <2> HIDE DEF n
      <2>4. ASSUME task' = [task EXCEPT ![u] = n] PROVE task'[t] = task[t]
          <3>1. (t = u /\ task'[t] = n) \/ (t # u /\ task'[t] = task[t])
              BY <2>1, <2>4, WriteRow
          <3> QED BY <2>3, <3>1
      <2>5. CASE task' = [task EXCEPT ![u] = n]
          BY <2>4, <2>5 DEF RunsOn
      <2> QED BY <1>1, <2>2, <2>5
  <1>4. CASE FinalizeSucceeded(p)
      <2> DEFINE n == [Unlease(k) EXCEPT !.status = "succeeded", !.result = w.job, !.prov = w.prov, !.stage = w.stage]
      <2>1. u \in Tasks /\ k \in TaskRow
          BY <1>0, <1>4 DEF FinalizeSucceeded, At
      <2>2. UNCHANGED task \/ task' = [task EXCEPT ![u] = n]
          BY <1>4 DEF FinalizeSucceeded
      <2>3. n.status = "succeeded"
          BY <2>1 DEF Unlease, TaskRow
      <2> HIDE DEF n
      <2>4. ASSUME task' = [task EXCEPT ![u] = n] PROVE task'[t] = task[t]
          <3>1. (t = u /\ task'[t] = n) \/ (t # u /\ task'[t] = task[t])
              BY <2>1, <2>4, WriteRow
          <3> QED BY <2>3, <3>1
      <2>5. CASE task' = [task EXCEPT ![u] = n]
          BY <2>4, <2>5 DEF RunsOn
      <2> QED BY <1>1, <2>2, <2>5
  <1>5. CASE ScheduleReconciliation(p) \/ ClaimCancelledTaskResult(p) \/ SaveCancelledTaskResult(p)
      <2>1. u \in Tasks
          BY <1>0, <1>5 DEF ScheduleReconciliation, ClaimCancelledTaskResult, SaveCancelledTaskResult, At
      <2>2. \/ UNCHANGED task
            \/ k.status = "cancelled" /\ \E n : task' = [task EXCEPT ![u] = n]
          <3>1. ScheduleReconciliation(p) => UNCHANGED task \/ (k.status = "cancelled" /\ \E n : task' = [task EXCEPT ![u] = n])
              BY DEF ScheduleReconciliation
          <3>2. ClaimCancelledTaskResult(p) => UNCHANGED task \/ (k.status = "cancelled" /\ \E n : task' = [task EXCEPT ![u] = n])
              <4>1. ClaimCancelledTaskResult(p) => UNCHANGED task \/ (k.status = "cancelled" /\
                        task' = [task EXCEPT ![u] = [k EXCEPT !.owner = Proc[p], !.expired = FALSE, !.gen = k.gen + 1]])
                  BY <1>0, Parts DEF ClaimCancelledTaskResult, ResultClaimable, At, TaskOK
              <4> QED BY <4>1
          <3>3. SaveCancelledTaskResult(p) => UNCHANGED task \/ (k.status = "cancelled" /\ \E n : task' = [task EXCEPT ![u] = n])
              BY DEF SaveCancelledTaskResult
          <3> QED BY <1>5, <3>1, <3>2, <3>3
      <2> QED BY <1>1, <2>1, <2>2, WriteRow DEF RunsOn
  <1>6. CASE BeginProviderCreate(p)
      <2> DEFINE n == [k EXCEPT !.stage = "creating"]
      <2>1. u \in Tasks /\ k \in TaskRow
          BY <1>0, <1>6 DEF BeginProviderCreate, At
      <2>2. UNCHANGED task \/ task' = [task EXCEPT ![u] = n]
          BY <1>6, <2>1, Parts DEF BeginProviderCreate, TaskOK
      <2>3. Leased(k, n) /\ n.prov = k.prov
          BY <2>1 DEF Leased, TaskRow
      <2> HIDE DEF n
      <2> QED BY <1>1, <1>6, <2>1, <2>2, <2>3, WriteRow DEF RunsOn
  <1>7. CASE SaveProviderCall(p)
      <2> DEFINE s == IF SavesRunning(p) THEN "accepted" ELSE "cancel_reconcile"
                 n == [k EXCEPT !.prov = w.job, !.stage = s]
      <2>1. u \in Tasks /\ k \in TaskRow
          BY <1>0, <1>7 DEF SaveProviderCall, At
      <2>2. \/ UNCHANGED task
            \/ task' = [task EXCEPT ![u] = n] /\ (SavesRunning(p) \/ SavesCancelled(p))
          BY <1>7, <2>1, Parts DEF SaveProviderCall, TaskOK
      <2>3. Leased(k, n)
          BY <2>1 DEF Leased, TaskRow
      <2>4. SavesCancelled(p) => k.status = "cancelled"
          BY DEF SavesCancelled
      <2> HIDE DEF n
      <2> QED BY <1>1, <1>7, <2>1, <2>2, <2>3, <2>4, WriteRow DEF RunsOn
  <1>8. CASE \/ Reread(p) \/ UpdateTaskProgress(p) \/ ReadBilling(p) \/ StartBilling(p)
             \/ CallFails(p) \/ ResumeJob(p) \/ Post(p) \/ Poll(p) \/ HandleError(p)
             \/ WorkerMarkUncertain(p) \/ ReadLatest(p) \/ UpdateTaskProgress90(p) \/ SettleCompleted(p)
      BY <1>1, <1>8 DEF Reread, UpdateTaskProgress, ReadBilling, StartBilling, CallFails,
         ResumeJob, Post, Poll, HandleError, WorkerMarkUncertain, ReadLatest,
         UpdateTaskProgress90, SettleCompleted
  <1> QED BY <1>2, <1>3, <1>4, <1>5, <1>6, <1>7, <1>8 DEF WorkerStep

LEMMA RunningRow ==
    ASSUME TypeInv, Attempts, [Next]_vars, NEW t \in Tasks,
           task[t].status = "running", task'[t].status = "running"
    PROVE  RunsOn(t)
  <1>1. CASE UNCHANGED task
      BY <1>1 DEF RunsOn
  <1>2. ASSUME NEW u \in Tasks, CreateTask(u) PROVE RunsOn(t)
      <2>1. task[u].status = "absent" /\ \A x \in Tasks \ {u} : task'[x] = task[x]
          BY <1>2, Parts DEF CreateTask, TaskOK
      <2> QED BY <2>1 DEF RunsOn
  <1>3. ASSUME NEW u \in Tasks, LeaseExpires(u) PROVE RunsOn(t)
      <2>1. \A x \in Tasks \ {u} : task'[x] = task[x]
          BY <1>3, Parts DEF LeaseExpires, TaskOK
      <2> QED BY <1>3, <2>1 DEF RunsOn
  <1>4. ASSUME NEW p \in Workers, ClaimNextTask(p) PROVE RunsOn(t)
      <2> PICK u \in Tasks : ClaimTask(p, u)
          BY <1>4 DEF ClaimNextTask
      <2>1. \A x \in Tasks \ {u} : task'[x] = task[x]
          BY Parts DEF ClaimTask, TaskOK
      <2> QED BY <2>1 DEF RunsOn
  <1>5. ASSUME NEW p \in Workers, RenewTaskLease(p) PROVE RunsOn(t)
      <2>1. worker[p].t \in Tasks
          BY <1>5, WorkerFacts DEF RenewTaskLease, Registered
      <2>2. UNCHANGED task \/ task' = [task EXCEPT ![worker[p].t] = [task[worker[p].t] EXCEPT !.expired = FALSE]]
          BY <1>5, <2>1, Parts DEF RenewTaskLease, TaskOK
      <2> DEFINE n == [task[worker[p].t] EXCEPT !.expired = FALSE]
      <2>3. ASSUME task' = [task EXCEPT ![worker[p].t] = n]
            PROVE  task'[t] = task[t] \/ task'[t] = [task[t] EXCEPT !.expired = FALSE]
          <3> HIDE DEF n
          <3>1. (t = worker[p].t /\ task'[t] = n) \/ (t # worker[p].t /\ task'[t] = task[t])
              BY <2>1, <2>3, WriteRow
          <3> QED BY <3>1 DEF n
      <2> QED BY <1>1, <1>5, <2>2, <2>3 DEF RunsOn
  <1>6. ASSUME NEW c \in Clients, ClientStep(c) PROVE RunsOn(t)
      <2> DEFINE u == client[c].t
      <2>0. u \in Tasks
          BY <1>6, ClientFacts DEF ClientStep, CancelTaskIfQueued, CancelTaskIfRunning, CancelRefund,
             CancelMarkUncertain, CancelReread, RetryTaskWithBilling, ResumeTaskWithUncertainBilling
      <2>1. CASE CancelTaskIfQueued(c) \/ CancelTaskIfRunning(c)
          <3>1. Stands(t) \/ CancelledBy(c, t)
              BY <2>1, CancelTurns
          <3>2. UNCHANGED task \/ task' = [task EXCEPT ![u] = Cancelled(task[u])]
              BY <2>1 DEF CancelTaskIfQueued, CancelTaskIfRunning
          <3>3. Cancelled(task[u]).status = "cancelled"
              BY <2>0, Parts DEF Cancelled, Unlease, TaskOK, TaskRow
          <3> QED BY <1>1, <2>0, <3>2, <3>3, WriteRow DEF RunsOn
      <2>2. CASE CancelRefund(c) \/ CancelMarkUncertain(c) \/ CancelReread(c)
          BY <1>1, <2>2 DEF CancelRefund, CancelMarkUncertain, CancelReread
      <2>3. CASE RetryTaskWithBilling(c) \/ ResumeTaskWithUncertainBilling(c)
          <3>1. UNCHANGED task \/ (task[u].status # "running" /\ \A x \in Tasks \ {u} : task'[x] = task[x])
              BY <2>0, <2>3, Parts DEF RetryTaskWithBilling, ResumeTaskWithUncertainBilling, Resumable, TaskOK
          <3> QED BY <1>1, <3>1 DEF RunsOn
      <2> QED BY <1>6, <2>1, <2>2, <2>3 DEF ClientStep
  <1>7. CASE \/ \E c \in Clients, x \in Tasks : CancelTask(c, x) \/ RetryTask(c, x)
             \/ \E x \in Orders : ResolveBillingOrder(x) \/ ReconcileBillingOrder(x) \/ ProviderFinishes(x)
             \/ \E x \in Crashable : Crash(x)
             \/ UNCHANGED vars
      BY <1>1, <1>7 DEF CancelTask, RetryTask, ResolveBillingOrder, ReconcileBillingOrder,
         ProviderFinishes, Crash, vars
  <1> QED BY <1>2, <1>3, <1>4, <1>5, <1>6, <1>7, WorkerRuns DEF Next

----------------------------------------------------------------------------
(* A running task can be taken over *)

\* Without stalls a worker that lives keeps the lease of its running task: a
\* lease expires only when nobody is there to renew it.
Live(p) ==
    /\ worker[p].pc = "idle" => ~worker[p].lost
    /\ worker[p].pc # "idle" =>
          /\ task[worker[p].t].status # "queued"
          /\ task[worker[p].t].status = "running" =>
                HoldsLease(p) /\ ~worker[p].lost /\ ~task[worker[p].t].expired
LiveInv == left["stall"] = 0 /\ \A p \in Workers : Live(p)

StartedInv == \A t \in Tasks : task[t].status \in {"queued", "running"} =>
    order[task[t].order].status \in {"reserved", "running"}

\* The boundary of a create request that is under way is still its own.
FenceInv == \A p \in Workers :
    /\ worker[p].pc \in {"post", "save"} /\ Kind[worker[p].t] = "fenced"
    /\ task[worker[p].t].status = "running"
    => JobUnsaved(task[worker[p].t])

LEMMA IdleFlags == IdleWorker.pc = "idle" /\ IdleWorker.lost = FALSE
  BY DEF IdleWorker

LEMMA WasRunning ==
    ASSUME TypeInv, Attempts, [Next]_vars, OnceInv, LiveInv, NEW p \in Workers, worker[p].pc # "idle"
    PROVE  /\ worker[p].t \in Tasks /\ task'[worker[p].t].status # "queued"
           /\ task'[worker[p].t].status = "running" =>
                 /\ task[worker[p].t].status = "running"
                 /\ HoldsLease(p) /\ ~worker[p].lost /\ ~task[worker[p].t].expired
  <1> DEFINE k == task[worker[p].t]
             n == task'[worker[p].t]
  <1>1. worker[p].t \in Tasks /\ k.status # "absent" /\ k.status \in TaskStatus
      BY WorkerFacts DEF TaskRow
  <1>2. OneWay(k, n)
      BY <1>1, RowOnce
  <1>3. k.status # "queued" /\ (k.status = "running" => HoldsLease(p) /\ ~worker[p].lost /\ ~k.expired)
      BY DEF LiveInv, Live
  <1> QED BY <1>1, <1>2, <1>3 DEF OneWay, TaskStatus

LEMMA LeaseKept ==
    ASSUME TypeInv, Attempts, [Next]_vars, OnceInv, LiveInv, NEW p \in Workers, worker[p].pc # "idle",
           task'[worker[p].t].status = "running"
    PROVE  /\ task'[worker[p].t].owner = Proc[p] /\ task'[worker[p].t].gen = worker[p].gen
           /\ ~task'[worker[p].t].expired
  <1> DEFINE t == worker[p].t
             k == task[t]
             n == task'[t]
  <1>1. t \in Tasks /\ k \in TaskRow /\ k.status = "running" /\ HoldsLease(p) /\ ~worker[p].lost /\ ~k.expired
      BY WasRunning, WorkerFacts
  <1>2. RunsOn(t)
      BY <1>1, RunningRow
  <1>3. CASE n = k
      BY <1>1, <1>3 DEF HoldsLease
  <1>4. ASSUME NEW q \in Workers, ClaimTask(q, t) PROVE FALSE
      BY <1>1, <1>4 DEF ClaimTask, Claimable
  <1>5. CASE Leased(k, n)
      BY <1>1, <1>5 DEF HoldsLease, Leased
  <1>6. CASE n = [k EXCEPT !.expired = FALSE]
      <2>1. n.owner = k.owner /\ n.gen = k.gen /\ n.expired = FALSE
          BY <1>1, <1>6 DEF TaskRow
      <2> QED BY <1>1, <2>1 DEF HoldsLease
  <1>7. ~LeaseExpires(t)
      <2>1. Held(t) /\ ~(left["stall"] > 0)
          BY <1>1 DEF Held, LiveInv
      <2> QED BY <2>1 DEF LeaseExpires
  <1> QED BY <1>2, <1>3, <1>4, <1>5, <1>6, <1>7 DEF RunsOn

LEMMA LiveStep ==
    ASSUME TypeInv, Attempts, [Next]_vars, OnceInv, LiveInv, "renew" \notin Faults
    PROVE  LiveInv'
  <1>0. left'["stall"] = 0
      BY LeftStays DEF LiveInv, Events
  <1> SUFFICES ASSUME NEW p \in Workers
               PROVE  /\ worker'[p].pc = "idle" => ~worker'[p].lost
                      /\ worker'[p].pc # "idle" =>
                            /\ task'[worker'[p].t].status # "queued"
                            /\ task'[worker'[p].t].status = "running" =>
                                  /\ task'[worker'[p].t].owner = Proc[p]
                                  /\ task'[worker'[p].t].gen = worker'[p].gen
                                  /\ ~worker'[p].lost /\ ~task'[worker'[p].t].expired
      BY <1>0 DEF LiveInv, Live, HoldsLease
  <1> DEFINE w == worker[p]
             x == worker'[p]
             Goal == /\ x.pc = "idle" => ~x.lost
                     /\ x.pc # "idle" =>
                            /\ task'[x.t].status # "queued"
                            /\ task'[x.t].status = "running" =>
                                  /\ task'[x.t].owner = Proc[p]
                                  /\ task'[x.t].gen = x.gen
                                  /\ ~x.lost /\ ~task'[x.t].expired
  <1>1. w.pc = "idle" => ~w.lost
      BY DEF LiveInv, Live
  <1>2. w.pc # "idle" => /\ w.t \in Tasks /\ task'[w.t].status # "queued"
                         /\ task'[w.t].status = "running" =>
                               /\ task[w.t].status = "running" /\ HoldsLease(p) /\ ~w.lost
                               /\ task'[w.t].owner = Proc[p] /\ task'[w.t].gen = w.gen
                               /\ ~task'[w.t].expired
      BY WasRunning, LeaseKept
  <1>3. ASSUME x.pc = w.pc \/ (w.pc # "idle" /\ x.pc # "idle"),
               x.t = w.t, x.gen = w.gen, x.lost = w.lost PROVE Goal
      BY <1>1, <1>2, <1>3
  <1>4. CASE x = w
      BY <1>3, <1>4
  <1>5. CASE x = IdleWorker
      <2>1. x.pc = "idle" /\ ~x.lost
          BY <1>5, IdleFlags
      <2> QED BY <2>1
  <1>6. CASE RenewTaskLease(p) /\ Stays(p)
      <2>0. w.pc # "idle" /\ x.pc = w.pc /\ x.t = w.t /\ x.gen = w.gen
          BY <1>6 DEF RenewTaskLease, Registered, Stays, Copy
      <2>1. CASE UNCHANGED worker
          BY <1>4, <2>1
      <2>2. CASE ~(HoldsLease(p) /\ task[w.t].status \in {"running", "cancelled"})
          <3>1. task'[w.t].status # "running"
              BY <1>2, <2>0, <2>2
          <3> QED BY <1>2, <2>0, <3>1
      <2> QED BY <1>6, <2>1, <2>2 DEF RenewTaskLease
  <1>7. CASE Stays(p) /\ x.lost = w.lost
      BY <1>3, <1>7 DEF Stays, Copy
  <1>8. ASSUME At(p, "idle"), x.pc = "claimed", x.lost = w.lost, NEW t \in Tasks, ClaimTask(p, t),
               x.t = t, x.gen = task[t].gen + 1
        PROVE  Goal
      <2> DEFINE k == task[t]
                 n == [k EXCEPT !.status = IF k.status = "cancelled" THEN k.status ELSE "running",
                               !.owner = Proc[p], !.expired = FALSE, !.gen = k.gen + 1]
      <2>1. k \in TaskRow
          BY Parts DEF TaskOK
      <2>2. task' = [task EXCEPT ![t] = n]
          BY <1>8, <2>1, Parts DEF ClaimTask, TaskOK
      <2>3. n.status # "queued" /\ n.owner = Proc[p] /\ n.gen = k.gen + 1 /\ n.expired = FALSE
          BY <2>1 DEF TaskRow
      <2> HIDE DEF n
      <2>4. task'[t] = n
          BY <2>2, WriteRow
      <2> QED BY <1>1, <1>8, <2>3, <2>4 DEF At
  <1>9. ASSUME WorkerStep(p), x # IdleWorker PROVE Goal
      <2>1. Edge(p)
          BY <1>9, Edges
      <2>2. x.lost = w.lost
          BY <1>9, <2>1 DEF Edge, Leads, Flagged
      <2>3. w.pc # "idle"
          BY <1>9 DEF WorkerStep, Reread, VerifyEnvelope, UpdateTaskProgress, ReadBilling, StartBilling,
             CallFails, ResumeJob, BeginProviderCreate, Post, SaveProviderCall, Poll,
             HandleError, ScheduleReconciliation, WorkerMarkUncertain, FinalizeFailed,
             ReadLatest, ClaimCancelledTaskResult, SaveCancelledTaskResult,
             UpdateTaskProgress90, FinalizeSucceeded, SettleCompleted, At
      <2>4. x.pc \notin {"idle", "claimed"}
          <3>1. \A pc : Leads(p, pc) => x.pc = pc
              BY DEF Leads, Goes
          <3> QED BY <1>9, <2>1, <3>1 DEF Edge
      <2>5. x.t = w.t /\ (Recalls(p) \/ Learns(p))
          BY <2>4, WorkerProv
      <2>6. CASE x.gen = w.gen
          BY <1>3, <2>2, <2>3, <2>4, <2>5, <2>6
      <2>7. CASE ResultClaimable(p)
          <3>1. task'[w.t].status # "running"
              BY <1>2, <2>3, <2>7 DEF ResultClaimable
          <3> QED BY <1>2, <2>3, <2>4, <2>5, <3>1
      <2> QED BY <2>5, <2>6, <2>7 DEF Recalls, Learns
  <1> QED BY <1>4, <1>5, <1>6, <1>7, <1>8, <1>9, Workings DEF Worked

----------------------------------------------------------------------------
(* The boundary of a create request *)

LEMMA OneHolder ==
    ASSUME LeaseInv, NEW p \in Workers, NEW q \in Workers, worker[p].pc # "idle", worker[q].pc # "idle",
           worker[p].t = worker[q].t, HoldsLease(p), HoldsLease(q)
    PROVE  p = q
  BY DEF LeaseInv, HoldsLease

LEMMA FenceStep ==
    ASSUME TypeInv, LeaseInv, Attempts, [Next]_vars, OnceInv, LiveInv, FenceInv
    PROVE  FenceInv'
  <1> SUFFICES ASSUME NEW p \in Workers, worker'[p].pc \in {"post", "save"},
                      Kind[worker'[p].t] = "fenced", task'[worker'[p].t].status = "running"
               PROVE  JobUnsaved(task'[worker'[p].t])
      BY DEF FenceInv
  <1> DEFINE t == worker[p].t
             k == task[t]
             n == task'[t]
  <1>1. worker'[p].t = t /\ worker[p].pc # "idle"
      BY WorkerProv DEF Recalls, Learns
  <1>2. /\ t \in Tasks /\ k \in TaskRow /\ k.status = "running"
        /\ HoldsLease(p) /\ ~worker[p].lost /\ ~k.expired
      BY <1>1, WasRunning, WorkerFacts
  <1>3. worker'[p].pc # worker[p].pc => BeginProviderCreate(p) \/ Post(p)
      BY Moving DEF Reaches
  <1>4. CASE worker[p].pc \in {"post", "save"}
      <2>0. JobUnsaved(k)
          BY <1>1, <1>2, <1>4 DEF FenceInv
      <2>1. RunsOn(t)
          BY <1>1, <1>2, RunningRow
      <2>2. CASE n = k
          BY <1>1, <2>0, <2>2
      <2>3. ASSUME NEW q \in Workers, ClaimTask(q, t) PROVE FALSE
          BY <1>2, <2>3 DEF ClaimTask, Claimable
      <2>4. ASSUME NEW q \in Workers, worker[q].t = t, BeginProviderCreate(q) PROVE n = k
          <3>1. At(q, "call") /\ q # p
              BY <1>4, <2>4 DEF BeginProviderCreate, At
          <3>2. ~CreateAllowed(q)
              BY <1>1, <1>2, <2>4, <3>1, OneHolder DEF CreateAllowed, RunningLease, At
          <3> QED BY <2>4, <3>2 DEF BeginProviderCreate
      <2>5. ASSUME NEW q \in Workers, worker[q].t = t, SaveProviderCall(q), SavesRunning(q) PROVE FALSE
          <3>1. At(q, "save")
              BY <2>5 DEF SaveProviderCall
          <3>2. q = p
              BY <1>1, <1>2, <2>5, <3>1, OneHolder DEF SavesRunning, RunningLease, At
          <3>3. worker'[p].pc \in {"succeeded", "poll", "error"}
              <4>1. \/ Goto(p, "succeeded") \/ Goto(p, "poll")
                    \/ Fail(p, "ambiguous") \/ Fail(p, "definite")
                  BY <2>5, <3>2 DEF SaveProviderCall
              <4>2. Leads(p, "succeeded") \/ Leads(p, "poll") \/ Leads(p, "error")
                  BY <4>1, Lead, LeadFail, Errs, Parts
              <4> QED BY <4>2 DEF Leads, Goes
          <3> QED BY <3>3
      <2>6. CASE n = [k EXCEPT !.expired = FALSE]
          <3>1. n.prov = k.prov /\ n.stage = k.stage
              BY <1>2, <2>6 DEF TaskRow
          <3> QED BY <1>1, <2>0, <3>1 DEF JobUnsaved
      <2>7. ~LeaseExpires(t)
          <3>1. Held(t) /\ ~(left["stall"] > 0)
              BY <1>1, <1>2 DEF Held, LiveInv
          <3> QED BY <3>1 DEF LeaseExpires
      <2> QED BY <2>1, <2>2, <2>3, <2>4, <2>5, <2>6, <2>7 DEF RunsOn
  <1>5. CASE worker[p].pc \notin {"post", "save"}
      <2>1. BeginProviderCreate(p) /\ Kind[t] = "fenced" /\ worker'[p].pc # "error"
          BY <1>1, <1>3, <1>5 DEF Post, At
      <2>2. ~Fail(p, "ambiguous")
          BY <2>1, LeadFail, Errs, Parts DEF Leads, Goes
      <2>3. CreateAllowed(p) /\ task' = [task EXCEPT ![t] = [k EXCEPT !.stage = "creating"]]
          BY <1>2, <2>1, <2>2, Parts DEF BeginProviderCreate, TaskOK
      <2> DEFINE m == [k EXCEPT !.stage = "creating"]
      <2>4. m.prov = k.prov /\ m.stage = "creating"
          BY <1>2 DEF TaskRow
      <2>5. n = m
          <3> HIDE DEF m
          <3> QED BY <1>2, <2>3, WriteRow DEF m
      <2>6. k.prov = None
          BY <2>3 DEF CreateAllowed
      <2> QED BY <1>1, <2>4, <2>5, <2>6 DEF JobUnsaved
  <1> QED BY <1>4, <1>5

\* While its task runs on, an order stays reserved or running.
LEMMA ChargeRuns ==
    ASSUME TypeInv, LeaseInv, Attempts, [Next]_vars, OnceInv, LiveInv, FenceInv, StartedInv,
           "record" \notin Faults, Resolutions = {},
           NEW t \in Tasks, task[t].status \in {"queued", "running"},
           task'[t].status \in {"queued", "running"}
    PROVE  order'[task[t].order].status \in {"reserved", "running"}
  <1> DEFINE o == task[t].order
  <1>0. /\ o \in Orders /\ order[o].task = t
        /\ order[o].status \in {"reserved", "running"}
      BY InUse DEF StartedInv
  <1>1. ASSUME NEW p \in Workers, worker[p].pc \notin {"idle", "claimed"}, worker[p].ord = o, ByWorker(p, o)
        PROVE  order'[o].status \in {"reserved", "running"}
      <2>1. worker[p].t = t /\ task[t].status = "running" /\ HoldsLease(p)
          BY <1>0, <1>1, OwnFits DEF LiveInv, Live
      <2>2. worker[p].pc \notin Ended \cup {"settle"}
          BY <1>1, <2>1 DEF OnceInv
      <2>3. ~WorkerMarkUncertain(p) /\ ~SettleCompleted(p) /\ ~SaveCancelledTaskResult(p)
          BY <2>2 DEF WorkerMarkUncertain, SettleCompleted, SaveCancelledTaskResult, At, Ended
      <2>4. ~(FinalizeFailed(p) /\ FailedBillingOK(p) /\ RunningLease(p))
          <3> SUFFICES ASSUME FinalizeFailed(p), FailedBillingOK(p), RunningLease(p) PROVE FALSE
              OBVIOUS
          <3> DEFINE m == [Unlease(task[t]) EXCEPT !.status = "failed", !.prov = worker[p].prov, !.stage = worker[p].stage]
          <3>1. task[t] \in TaskRow /\ task' = [task EXCEPT ![t] = m]
              BY <2>1, Parts DEF FinalizeFailed, TaskOK
          <3>2. m.status = "failed"
              BY <3>1 DEF Unlease, TaskRow
          <3> HIDE DEF m
          <3> QED BY <3>1, <3>2, Parts DEF TaskOK
      <2>5. ~(FinalizeSucceeded(p) /\ CompletedBillingOK(p) /\ RunningLease(p) /\ Sets(o, CompletedBilling(p)))
          <3> SUFFICES ASSUME FinalizeSucceeded(p), CompletedBillingOK(p), RunningLease(p), Sets(o, CompletedBilling(p))
                       PROVE FALSE
              OBVIOUS
          <3> DEFINE m == [Unlease(task[t]) EXCEPT !.status = "succeeded", !.result = worker[p].job,
                             !.prov = worker[p].prov, !.stage = worker[p].stage]
          <3>0. ~UNCHANGED order
              BY <1>0 DEF Sets, CompletedBilling
          <3>1. task[t] \in TaskRow /\ task' = [task EXCEPT ![t] = m]
              BY <2>1, <3>0, Parts DEF FinalizeSucceeded, TaskOK
          <3>2. m.status = "succeeded"
              BY <3>1 DEF Unlease, TaskRow
          <3> HIDE DEF m
          <3> QED BY <3>1, <3>2, Parts DEF TaskOK
      <2>6. SaveProviderCall(p) /\ Kind[t] = "fenced" => SavesRunning(p)
          BY <2>1 DEF SaveProviderCall, At, FenceInv, SavesRunning, RunningLease
      <2> QED BY <1>0, <1>1, <2>1, <2>3, <2>4, <2>5, <2>6 DEF ByWorker, Sets
  <1>2. ASSUME NEW c \in Clients, client[c].pc # "idle", client[c].ord = o, ByRequest(c, o)
        PROVE  FALSE
      <2>1. client[c].t \in Tasks /\ task[client[c].t].order = o /\ task[client[c].t].status # "absent"
          BY <1>2, ClientFacts DEF OnceInv
      <2>2. client[c].t = t
          BY <1>0, <2>1, InUse
      <2>3. client[c].pc \in {"refund", "markunc"}
          BY <1>2 DEF ByRequest, CancelRefund, CancelMarkUncertain
      <2> QED BY <2>2, <2>3 DEF OnceInv
  <1>3. ~ByReview(o) /\ ~Taken(o)
      BY <1>0 DEF ByReview, Taken
  <1> QED BY <1>0, <1>1, <1>2, <1>3, Charges

LEMMA StartedStep ==
    ASSUME TypeInv, LeaseInv, Attempts, [Next]_vars, OnceInv, LiveInv, FenceInv, StartedInv,
           "record" \notin Faults, Resolutions = {}
    PROVE  StartedInv'
  <1> SUFFICES ASSUME NEW t \in Tasks, task'[t].status \in {"queued", "running"}
               PROVE  order'[task'[t].order].status \in {"reserved", "running"}
      BY DEF StartedInv
  <1> DEFINE k == task[t]
             n == task'[t]
  <1>1. CASE k.status = "absent"
      <2>1. CASE Created(t)
          <3> PICK o \in Orders : Reserves(t, o)
              BY <2>1 DEF Created
          <3>1. order'[o].status = "reserved" /\ n.order = o
              BY Parts DEF Reserves, OrderOK
          <3> QED BY <3>1
      <2>2. ~Stands(t)
          BY <1>1 DEF Stands, Still
      <2>3. ~WorkerTurns(t)
          BY <1>1, WorkerFacts DEF WorkerTurns
      <2>4. ~ClientTurns(t)
          BY <1>1 DEF ClientTurns, OnceInv
      <2>5. \A p \in Workers : ~Claimed(p, t)
          BY <1>1 DEF Claimed
      <2> QED BY <2>1, <2>2, <2>3, <2>4, <2>5, RowTurns
  <1>2. CASE k.status # "absent"
      <2>1. k.status \in {"queued", "running"} /\ n.order = k.order
          BY <1>2, RowOnce, Parts DEF OneWay, TaskOK, TaskRow, TaskStatus
      <2> QED BY <2>1, ChargeRuns
  <1> QED BY <1>1, <1>2

TakeoverInv == OnceInv /\ LiveInv /\ FenceInv /\ StartedInv

\* A running task whose worker is gone can be taken over: nothing puts its
\* order under review while it runs, so that the next attempt gets past
\* StartBilling or ends the task.  The worker may die anywhere; for tasks that
\* are not retried, with workers that do not stall, call logs that can be
\* written and renewals that succeed.
THEOREM RunningTakenOver ==
    ASSUME Budget["stall"] = 0, Budget["retry"] = 0, Resolutions = {},
           "record" \notin Faults, "renew" \notin Faults
    PROVE  Spec => []RunningIsRetryable
  <1>1. Init => TakeoverInv
      <2> SUFFICES ASSUME Init PROVE TakeoverInv
          OBVIOUS
      <2>1. OnceInv
          BY OnceInit
      <2>2. \A t \in Tasks : task[t].status = "absent"
          <3>1. AbsentTask.status = "absent"
              BY DEF AbsentTask
          <3> QED BY <3>1 DEF Init
      <2>3. \A p \in Workers : worker[p].pc = "idle" /\ ~worker[p].lost
          BY IdleFlags DEF Init
      <2>4. left["stall"] = 0
          BY DEF Init
      <2> QED BY <2>1, <2>2, <2>3, <2>4 DEF TakeoverInv, LiveInv, Live, FenceInv, StartedInv
  <1>2. TakeoverInv /\ TypeInv /\ LeaseInv /\ Attempts /\ [Next]_vars => TakeoverInv'
      BY OnceStep, LiveStep, FenceStep, StartedStep DEF TakeoverInv
  <1>3. TakeoverInv => RunningIsRetryable
      BY DEF TakeoverInv, StartedInv, RunningIsRetryable, Retryable
  <1> QED BY <1>1, <1>2, <1>3, TypeInit, TypeStep, LeaseInit, LeaseStep, AttemptsInit, AttemptsStep, PTL DEF Spec

----------------------------------------------------------------------------
(* A new attempt waits for the review of the last *)

LEMMA LegalStep ==
    ASSUME TypeInv, [Next]_vars, NEW o \in Orders
    PROVE  Legal(order[o].status, order'[o].status)
  <1>1. [Billing!Next]_OrderStatus
      BY OrdersFollow DEF Follows
  <1>2. OrderStatus[o] = order[o].status /\ OrderStatus'[o] = order'[o].status
      BY DEF OrderStatus
  <1>3. CASE UNCHANGED OrderStatus
      BY <1>2, <1>3 DEF Legal
  <1>4. CASE Billing!Next
      <2> PICK x \in Orders : Billing!Reserve(x) \/ Billing!Start(x) \/ Billing!Review(x) \/ Billing!Close(x)
          BY <1>4 DEF Billing!Next
      <2>1. \E from, to : /\ order[x].status \in from
                          /\ OrderStatus' = [OrderStatus EXCEPT ![x] = to]
                          /\ \A s \in from : Legal(s, to)
          <3>1. ASSUME NEW from, NEW to, Billing!Move(x, from, to)
                PROVE  order[x].status \in from /\ OrderStatus' = [OrderStatus EXCEPT ![x] = to]
              BY <3>1 DEF Billing!Move, OrderStatus
          <3>2. Legal("unused", "reserved") /\ Legal("reserved", "running")
                /\ Legal("reserved", "uncertain") /\ Legal("running", "uncertain")
              BY DEF Legal
          <3>3. \A s \in Billing!Open, r \in Billing!Closed : Legal(s, r)
              BY DEF Billing!Open, Billing!Closed, Legal
          <3>4. CASE Billing!Reserve(x)
              BY <3>1, <3>2, <3>4 DEF Billing!Reserve
          <3>5. CASE Billing!Start(x)
              BY <3>1, <3>2, <3>5 DEF Billing!Start
          <3>6. CASE Billing!Review(x)
              BY <3>1, <3>2, <3>6 DEF Billing!Review
          <3>7. CASE Billing!Close(x)
              <4> PICK r \in Billing!Closed : Billing!Move(x, Billing!Open, r)
                  BY <3>7 DEF Billing!Close
              <4>1. \A s \in Billing!Open : Legal(s, r)
                  BY <3>3
              <4>2. order[x].status \in Billing!Open /\ OrderStatus' = [OrderStatus EXCEPT ![x] = r]
                  BY <3>1
              <4> HIDE DEF Billing!Open
              <4> QED BY <4>1, <4>2
          <3> QED BY <3>4, <3>5, <3>6, <3>7
      <2> PICK from, to : /\ order[x].status \in from
                          /\ OrderStatus' = [OrderStatus EXCEPT ![x] = to]
                          /\ \A s \in from : Legal(s, to)
          BY <2>1
      <2>2. OrderStatus'[o] = IF o = x THEN to ELSE OrderStatus[o]
          BY DEF OrderStatus
      <2>3. Legal(order[o].status, order[o].status)
          BY DEF Legal
      <2> QED BY <1>2, <2>2, <2>3
  <1> QED BY <1>1, <1>3, <1>4

Closed(o) == order[o].status \notin OpenBilling

LEMMA ClosedStays ==
    ASSUME TypeInv, Attempts, [Next]_vars, NEW o \in Orders, order[o].task # None, Closed(o)
    PROVE  Closed(o)'
  <1>1. order[o].status # "unused"
      BY DEF Attempts, OrderInv
  <1> QED BY <1>1, LegalStep DEF Legal, Closed, OpenBilling

\* An order comes to a task with its new row.
LEMMA TakenRow ==
    ASSUME TypeInv, Attempts, [Next]_vars, NEW o \in Orders, order'[o].task # order[o].task
    PROVE  \E t \in Tasks :
              /\ order'[o].task = t /\ task'[t].order = o
              /\ task[t].status = "absent" \/ \E c \in Clients : RetryTaskWithBilling(c)
  <1> DEFINE Goal == \E t \in Tasks :
              /\ order'[o].task = t /\ task'[t].order = o
              /\ task[t].status = "absent" \/ \E c \in Clients : RetryTaskWithBilling(c)
  <1>0. order[o].status = "unused" /\ order'[o].status = "reserved" /\ order'[o] # order[o]
      <2>1. OrdersMove
          BY StepMoves DEF Passes, Acts
      <2> QED BY <2>1 DEF OrdersMove, OrderKept
  <1>1. ASSUME NEW t \in Tasks, NEW x \in Orders,
               order' = [order EXCEPT ![x] = [status |-> "reserved", prov |-> None, task |-> t]]
        PROVE  o = x /\ order'[o].task = t
      BY <1>0, <1>1, Parts DEF OrderOK
  <1>2. ASSUME NEW t \in Tasks, CreateTask(t) PROVE Goal
      <2> PICK x \in Orders : /\ order' = [order EXCEPT ![x] = [status |-> "reserved", prov |-> None, task |-> t]]
                              /\ task' = [task EXCEPT ![t].status = "queued", ![t].order = x]
          BY <1>2 DEF CreateTask
      <2> DEFINE n == [task[t] EXCEPT !.status = "queued", !.order = x]
      <2>1. n.order = x
          BY Parts DEF TaskOK, TaskRow
      <2>2. task' = [task EXCEPT ![t] = n]
          BY Parts DEF TaskOK
      <2> HIDE DEF n
      <2>3. task'[t] = n
          BY <2>2, WriteRow
      <2> QED BY <1>1, <1>2, <2>1, <2>3 DEF CreateTask
  <1>3. ASSUME NEW c \in Clients, RetryTaskWithBilling(c) PROVE Goal
      <2> DEFINE t == client[c].t
      <2>1. t \in Tasks
          BY <1>3, ClientFacts DEF RetryTaskWithBilling
      <2> PICK x \in Orders : /\ order' = [order EXCEPT ![x] = [status |-> "reserved", prov |-> None, task |-> t]]
                              /\ task' = [task EXCEPT ![t] = [AbsentTask EXCEPT !.status = "queued", !.order = x,
                                                                                !.gen = task[t].gen]]
          BY <1>0, <1>3 DEF RetryTaskWithBilling
      <2> DEFINE n == [AbsentTask EXCEPT !.status = "queued", !.order = x, !.gen = task[t].gen]
      <2>2. n.order = x
          BY DEF AbsentTask
      <2> HIDE DEF n
      <2>3. task'[t] = n
          BY <2>1, WriteRow DEF n
      <2> QED BY <1>1, <1>3, <2>1, <2>2, <2>3
  <1>4. ASSUME NEW p \in Workers, WorkerStep(p) PROVE FALSE
      <2>1. worker[p].pc \notin {"idle", "claimed"} /\ worker[p].ord = o
          BY <1>0, <1>4, WorkerCharges
      <2>2. order[o].task \in Tasks
          BY <2>1, OwnFits, WorkerFacts
      <2> QED BY <1>0, <2>2, NoneAssumption DEF Attempts, OrderInv
  <1>5. ASSUME NEW c \in Clients, ClientStep(c) PROVE RetryTaskWithBilling(c)
      BY <1>0, <1>5, RequestCharges DEF ByRequest, Sets, Marks
  <1>6. ASSUME NEW x \in Orders, ResolveBillingOrder(x) \/ ReconcileBillingOrder(x) PROVE FALSE
      <2>1. order[x].status \in OpenBilling /\ (order' = SetBilling(x, "settled") \/ order' = SetBilling(x, "refunded"))
          BY <1>6, ShapeAssumption DEF ResolveBillingOrder, ReconcileBillingOrder, OpenBilling
      <2>2. order[x].status # "unused"
          BY <2>1 DEF OpenBilling
      <2>3. \A s : order' = SetBilling(x, s) => (o = x \/ order'[o] = order[o])
          BY Parts DEF SetBilling, OrderOK
      <2> QED BY <1>0, <2>1, <2>2, <2>3
  <1>7. CASE \/ \E t \in Tasks : LeaseExpires(t)
             \/ \E p \in Workers : ClaimNextTask(p) \/ RenewTaskLease(p)
             \/ \E c \in Clients, t \in Tasks : CancelTask(c, t) \/ RetryTask(c, t)
             \/ \E x \in Orders : ProviderFinishes(x)
             \/ \E x \in Crashable : Crash(x)
             \/ UNCHANGED vars
      <2>1. UNCHANGED order
          BY <1>7 DEF LeaseExpires, ClaimNextTask, ClaimTask, RenewTaskLease, CancelTask, RetryTask,
             ProviderFinishes, Crash, vars
      <2> QED BY <1>0, <2>1
  <1> QED BY <1>2, <1>3, <1>4, <1>5, <1>6, <1>7 DEF Next

----------------------------------------------------------------------------
(* Orders of earlier attempts, and requests under way *)

OldClosed == \A t \in Tasks, o \in Orders :
    order[o].task = t /\ o # task[t].order => Closed(o)

\* A cancelled task whose order was not looked at yet has a request that will.
HalfCancelled == \A t \in Tasks :
    /\ task[t].status = "cancelled"
    /\ order[task[t].order].status \in {"reserved", "running"}
    => \E c \in Clients : /\ client[c].pc \in {"refund", "markunc"}
                          /\ client[c].t = t /\ client[c].ord = task[t].order

Current == \A c \in Clients : client[c].pc # "idle" =>
    task[client[c].t].status # "absent" /\ client[c].ord = task[client[c].t].order

RetryClosed == \A c \in Clients : client[c].pc = "retry" =>
    \A o \in Orders : order[o].task = client[c].t => Closed(o)

\* One request at a time, by a process that does not die.
Alone == (\A c, d \in Clients : c = d) /\ \A c \in Clients : Proc[c] \notin Crashable

LEMMA RequestStays ==
    ASSUME TypeInv, [Next]_vars, Alone, NEW c \in Clients, client[c].pc \in {"refund", "markunc"}
    PROVE  client'[c] = client[c] \/ CancelRefund(c) \/ CancelMarkUncertain(c)
  <1>1. ASSUME NEW p \in Workers, WorkerStep(p) PROVE UNCHANGED client
      BY <1>1, WorkersOnly
  <1>2. ASSUME NEW d \in Clients, ClientStep(d) PROVE CancelRefund(c) \/ CancelMarkUncertain(c)
      <2>1. d = c
          BY DEF Alone
      <2> QED BY <1>2, <2>1 DEF ClientStep, CancelTaskIfQueued, CancelTaskIfRunning, CancelReread,
             RetryTaskWithBilling, ResumeTaskWithUncertainBilling
  <1>3. ASSUME NEW d \in Clients, NEW t \in Tasks, CancelTask(d, t) \/ RetryTask(d, t) PROVE FALSE
      <2>1. d = c
          BY DEF Alone
      <2> QED BY <1>3, <2>1 DEF CancelTask, RetryTask
  <1>4. ASSUME NEW x \in Crashable, Crash(x) PROVE client'[c] = client[c]
      BY <1>4 DEF Crash, Alone
  <1>5. CASE \/ \E t \in Tasks : CreateTask(t) \/ LeaseExpires(t)
             \/ \E p \in Workers : ClaimNextTask(p) \/ RenewTaskLease(p)
             \/ \E x \in Orders : ResolveBillingOrder(x) \/ ReconcileBillingOrder(x) \/ ProviderFinishes(x)
             \/ UNCHANGED vars
      BY <1>5 DEF CreateTask, LeaseExpires, ClaimNextTask, ClaimTask, RenewTaskLease,
         ResolveBillingOrder, ReconcileBillingOrder, ProviderFinishes, vars
  <1> QED BY <1>1, <1>2, <1>3, <1>4, <1>5 DEF Next

\* A row changes its order when it is created or retried.
LEMMA RowOrder ==
    ASSUME TypeInv, Attempts, [Next]_vars, NEW t \in Tasks, task'[t].order # task[t].order
    PROVE  \/ task[t].status = "absent" /\ task[t].order = None
           \/ \E c \in Clients : client[c].pc = "retry" /\ client[c].t = t /\ RetryTaskWithBilling(c)
  <1>1. ~Stands(t) /\ \A p \in Workers : ~Claimed(p, t)
      BY DEF Stands, Still, Claimed, Turns
  <1>2. CASE Created(t)
      <2>1. AbsentTask.order = None
          BY DEF AbsentTask
      <2>2. task[t] = AbsentTask
          BY <1>2 DEF Created, Attempts, RowInv, RowFits
      <2> QED BY <1>2, <2>1, <2>2 DEF Created
  <1>3. ~WorkerTurns(t)
      BY DEF WorkerTurns, Rejected, Recorded, Failed, Succeeded, Turns
  <1>4. CASE ClientTurns(t)
      BY <1>4 DEF ClientTurns, CancelledBy, Retried, Resumed, Turns, RetryTaskWithBilling
  <1> QED BY <1>1, <1>2, <1>3, <1>4, RowTurns

LEMMA RowStays ==
    ASSUME TypeInv, Attempts, [Next]_vars, NEW t \in Tasks, task[t].status # "absent"
    PROVE  task'[t].status # "absent"
  <1>1. CASE Stands(t)
      BY <1>1 DEF Stands, Still
  <1>2. ~Created(t)
      BY DEF Created
  <1>3. CASE \E p \in Workers : Claimed(p, t)
      BY <1>3 DEF Claimed, Turns
  <1>4. CASE WorkerTurns(t)
      BY <1>4 DEF WorkerTurns, Rejected, Recorded, Failed, Succeeded, Turns
  <1>5. CASE ClientTurns(t)
      BY <1>5 DEF ClientTurns, CancelledBy, Retried, Resumed, Reserves, Turns
  <1> QED BY <1>1, <1>2, <1>3, <1>4, <1>5, RowTurns

LEMMA OldStep ==
    ASSUME TypeInv, Attempts, [Next]_vars, OldClosed, RetryClosed
    PROVE  OldClosed'
  <1> SUFFICES ASSUME NEW t \in Tasks, NEW o \in Orders, order'[o].task = t, o # task'[t].order
               PROVE  Closed(o)'
      BY DEF OldClosed
  <1>1. order[o].task = t
      BY TakenRow
  <1>2. order[o].task # None
      BY <1>1, NoneAssumption
  <1>3. CASE o # task[t].order
      BY <1>1, <1>2, <1>3, ClosedStays DEF OldClosed
  <1>4. CASE o = task[t].order
      <2>1. \E c \in Clients : client[c].pc = "retry" /\ client[c].t = t
          BY <1>4, RowOrder, NoneAssumption
      <2>2. Closed(o)
          BY <1>1, <2>1 DEF RetryClosed
      <2> QED BY <1>2, <2>2, ClosedStays
  <1> QED BY <1>3, <1>4

LEMMA CurrentStep ==
    ASSUME TypeInv, Attempts, [Next]_vars, Alone, Current
    PROVE  Current'
  <1> SUFFICES ASSUME NEW c \in Clients, client'[c].pc # "idle"
               PROVE  /\ task'[client'[c].t].status # "absent"
                      /\ client'[c].ord = task'[client'[c].t].order
      BY DEF Current
  <1>0. TypeInv'
      BY TypeStep
  <1>1. ASSUME Keeps(c), client[c].pc # "idle"
        PROVE  /\ task'[client'[c].t].status # "absent"
               /\ client'[c].ord = task'[client'[c].t].order
      <2> DEFINE u == client[c].t
      <2>1. u \in Tasks /\ task[u].status # "absent" /\ client[c].ord = task[u].order /\ client'[c].t = u
            /\ client'[c].ord = client[c].ord
          BY <1>1, ClientFacts DEF Current, Keeps
      <2>2. task'[u].order = task[u].order
          <3>1. \A d \in Clients : ~RetryTaskWithBilling(d)
              <4> SUFFICES ASSUME NEW d \in Clients, RetryTaskWithBilling(d) PROVE FALSE
                  OBVIOUS
              <4>1. client'[d] = IdleClient
                  BY ClientSets DEF RetryTaskWithBilling, Finish
              <4>2. d = c
                  BY DEF Alone
              <4> QED BY <4>1, <4>2, IdlePC
          <3> QED BY <2>1, <3>1, RowOrder
      <2>3. task'[u].status # "absent"
          BY <2>1, RowStays
      <2> QED BY <2>1, <2>2, <2>3
  <1>2. CASE client'[c] = client[c]
      BY <1>1, <1>2 DEF Keeps
  <1>3. CASE /\ CancelReread(c) /\ task[client[c].t].status = "running" /\ UNCHANGED <<task, order>>
             /\ client'[c].pc = "cancelRunning" /\ client'[c].t = client[c].t
             /\ client'[c].ord = task[client[c].t].order
      BY <1>3
  <1>4. ASSUME NEW t \in Tasks, UNCHANGED task, client'[c].t = t, client'[c].ord = task[t].order,
               task[t].status \in {"queued", "running", "failed", "cancelled"}
        PROVE  /\ task'[client'[c].t].status # "absent"
               /\ client'[c].ord = task'[client'[c].t].order
      BY <1>4
  <1>5. CancelTaskIfQueued(c) \/ CancelTaskIfRunning(c) => client[c].pc # "idle"
      BY DEF CancelTaskIfQueued, CancelTaskIfRunning
  <1> QED BY <1>1, <1>2, <1>3, <1>4, <1>5, Requests DEF Request

----------------------------------------------------------------------------
(* Cancelled halfway *)

LEMMA HalfStep ==
    ASSUME TypeInv, Attempts, [Next]_vars, Alone, Current, HalfCancelled
    PROVE  HalfCancelled'
  <1> SUFFICES ASSUME NEW t \in Tasks, task'[t].status = "cancelled",
                      order'[task'[t].order].status \in {"reserved", "running"}
               PROVE  \E c \in Clients : /\ client'[c].pc \in {"refund", "markunc"}
                                         /\ client'[c].t = t /\ client'[c].ord = task'[t].order
      BY DEF HalfCancelled
  <1> DEFINE o == task[t].order
  <1>1. CASE task[t].status = "cancelled" /\ task'[t].order = task[t].order
      <2>1. o \in Orders /\ order[o].status # "unused"
          BY <1>1, InUse
      <2>2. order[o].status \in {"reserved", "running"}
          BY <1>1, <2>1, LegalStep DEF Legal
      <2>3. PICK c \in Clients : /\ client[c].pc \in {"refund", "markunc"}
                                 /\ client[c].t = t /\ client[c].ord = o
          BY <1>1, <2>2 DEF HalfCancelled
      <2>4. ~CancelRefund(c)
          <3> SUFFICES ASSUME CancelRefund(c) PROVE FALSE
              OBVIOUS
          <3>1. order' = SetBilling(o, "refunded")
              BY <2>2, <2>3 DEF CancelRefund, Refundable, OpenBilling
          <3> QED BY <1>1, <2>1, <3>1, SetOrder, Parts DEF Sets
      <2>5. ~CancelMarkUncertain(c)
          <3> SUFFICES ASSUME CancelMarkUncertain(c) PROVE FALSE
              OBVIOUS
          <3>1. order' = SetBilling(o, "uncertain")
              BY <2>2, <2>3 DEF CancelMarkUncertain, MarkedUncertain, OpenBilling
          <3> QED BY <1>1, <2>1, <3>1, SetOrder, Parts DEF Sets
      <2>6. client'[c] = client[c]
          BY <2>3, <2>4, <2>5, RequestStays
      <2> QED BY <1>1, <2>3, <2>6
  <1>2. ASSUME NEW c \in Clients, client[c].pc # "idle", client[c].t = t, CancelledBy(c, t)
        PROVE  /\ client'[c].pc \in {"refund", "markunc"}
               /\ client'[c].t = t /\ client'[c].ord = task'[t].order
      <2>1. client' = [client EXCEPT ![c].pc = "refund"] \/ client' = [client EXCEPT ![c].pc = "markunc"]
          BY <1>2 DEF CancelledBy, CancelTaskIfQueued, CancelTaskIfRunning
      <2>2. Keeps(c) /\ client'[c].pc \in {"refund", "markunc"}
          BY <2>1, ClientMove
      <2>3. client[c].ord = task[t].order /\ task'[t].order = task[t].order
          BY <1>2 DEF Current, CancelledBy, Turns
      <2> QED BY <1>2, <2>2, <2>3 DEF Keeps
  <1> QED BY <1>1, <1>2, RowStatus

LEMMA RetryStep ==
    ASSUME TypeInv, Attempts, [Next]_vars, Alone, Current, HalfCancelled, OldClosed,
           RetryClosed, FailedIsResolved
    PROVE  RetryClosed'
  <1> SUFFICES ASSUME NEW c \in Clients, client'[c].pc = "retry", NEW o \in Orders,
                      order'[o].task = client'[c].t
               PROVE  Closed(o)'
      BY DEF RetryClosed
  <1>1. CASE client'[c] = client[c]
      <2> DEFINE t == client[c].t
      <2>1. t \in Tasks /\ task[t].status # "absent"
          BY <1>1, ClientFacts DEF Current
      <2>2. order[o].task = t
          <3>1. \A d \in Clients : ~RetryTaskWithBilling(d)
              <4> SUFFICES ASSUME NEW d \in Clients, RetryTaskWithBilling(d) PROVE FALSE
                  OBVIOUS
              <4>1. client'[d] = IdleClient
                  BY ClientSets DEF RetryTaskWithBilling, Finish
              <4>2. d = c
                  BY DEF Alone
              <4> QED BY <4>1, <4>2, IdlePC
          <3> QED BY <1>1, <2>1, <3>1, TakenRow
      <2>3. Closed(o)
          BY <1>1, <2>2 DEF RetryClosed
      <2> QED BY <2>1, <2>2, <2>3, ClosedStays, NoneAssumption
  <1>2. ASSUME NEW t \in Tasks, client[c].pc = "idle", UNCHANGED <<task, order>>,
               client'[c].t = t, task[t].status \in {"failed", "cancelled"},
               ~HasUncertainBilling(t)
        PROVE  Closed(o)'
      <2>1. order[o].task = t /\ order[o].status # "uncertain"
          BY <1>2 DEF HasUncertainBilling
      <2>2. o # task[t].order => Closed(o)
          BY <2>1 DEF OldClosed
      <2>3. o = task[t].order /\ task[t].status = "failed" => order[o].status \notin {"reserved", "running"}
          BY DEF FailedIsResolved
      <2>4. o = task[t].order /\ task[t].status = "cancelled" => order[o].status \notin {"reserved", "running"}
          <3>1. \A d \in Clients : client[d].pc = "idle"
              BY <1>2 DEF Alone
          <3> QED BY <3>1 DEF HalfCancelled
      <2>5. Closed(o)
          BY <1>2, <2>1, <2>2, <2>3, <2>4 DEF Closed, OpenBilling
      <2> QED BY <1>2, <2>5 DEF Closed
  <1> QED BY <1>1, <1>2, Requests DEF Request

ReviewInv == OldClosed /\ HalfCancelled /\ Current /\ RetryClosed /\ FailedIsResolved

\* A new paid attempt waits for the review of the last: RetryTaskWithBilling
\* finds every order of the task settled or refunded, since the request that
\* cancels a task does not end before it has looked at the order.  For
\* requests that come one at a time and are not interrupted by a crash, and
\* rows whose envelope is accepted.
THEOREM ReviewBeforeRetry ==
    ASSUME \A c, d \in Clients : c = d, \A c \in Clients : Proc[c] \notin Crashable,
           "envelope" \notin Faults
    PROVE  Spec => []RetryWaitsForReview
  <1>0. Alone
      BY DEF Alone
  <1>1. Init => ReviewInv
      <2> SUFFICES ASSUME Init PROVE ReviewInv
          OBVIOUS
      <2>1. \A t \in Tasks : task[t].status = "absent"
          <3>1. AbsentTask.status = "absent"
              BY DEF AbsentTask
          <3> QED BY <3>1 DEF Init
      <2>2. \A c \in Clients : client[c].pc = "idle"
          BY IdlePC DEF Init
      <2>3. \A o \in Orders : order[o].task = None
          BY DEF Init, UnusedOrder
      <2>4. OldClosed
          BY <2>3, NoneAssumption DEF OldClosed
      <2> QED BY <2>1, <2>2, <2>4 DEF ReviewInv, HalfCancelled, Current, RetryClosed, FailedIsResolved
  <1>2. ReviewInv /\ TypeInv /\ LeaseInv /\ Attempts /\ [Next]_vars => ReviewInv'
      BY <1>0, OldStep, HalfStep, CurrentStep, RetryStep, FailedStep DEF ReviewInv
  <1>3. ReviewInv => RetryWaitsForReview
      BY DEF ReviewInv, OldClosed, RetryWaitsForReview, Closed
  <1> QED BY <1>1, <1>2, <1>3, TypeInit, TypeStep, LeaseInit, LeaseStep, AttemptsInit, AttemptsStep, PTL DEF Spec

----------------------------------------------------------------------------
(* A refund is not a guess *)

\* What a worker's position says about its copy of the row.
PlaceInv == \A p \in Workers :
    /\ worker[p].pc = "idle" => ~worker[p].rec /\ ~worker[p].ctx
    /\ worker[p].pc = "claimed" => ~worker[p].rec
    /\ worker[p].pc = "readbill" => worker[p].prov # None
    /\ worker[p].pc = "post" => worker[p].prov = None
    /\ worker[p].pc \in {"progress", "readbill", "startbill"} => ~worker[p].rec

\* The attempt of a task, as opposed to the reconciliation of a cancelled one.
Attempting(p) ==
    /\ worker[p].pc # "idle" /\ ~worker[p].rec
    /\ worker[p].pc = "claimed" => task[worker[p].t].status # "cancelled"
OneAttempt == \A p, q \in Workers :
    Attempting(p) /\ Attempting(q) /\ worker[p].t = worker[q].t => p = q

LEMMA IdleCopy == IdleWorker.rec = FALSE /\ IdleWorker.ctx = FALSE
  BY DEF IdleWorker

\* What a worker does not have when it has just claimed.
LEMMA ClaimKeeps ==
    ASSUME TypeInv, NEW p \in Workers, NEW t \in Tasks, ClaimTask(p, t)
    PROVE  /\ worker'[p].pc = "claimed" /\ worker'[p].t = t /\ worker'[p].rec = worker[p].rec
           /\ worker'[p].ctx = worker[p].ctx /\ worker[p].pc = "idle"
           /\ \A q \in Workers \ {p} : worker'[q] = worker[q]
  BY Parts DEF ClaimTask, WorkerOK, WorkerState, At

LEMMA StepsOn ==
    ASSUME TypeInv, NEW p \in Workers, WorkerStep(p), worker'[p] # IdleWorker
    PROVE  worker'[p].pc \notin {"idle", "claimed"}
  <1>1. Edge(p)
      BY Edges
  <1>2. \A pc : Leads(p, pc) => worker'[p].pc = pc
      BY DEF Leads, Goes
  <1> QED BY <1>1, <1>2 DEF Edge

LEMMA PlaceStep ==
    ASSUME TypeInv, Attempts, [Next]_vars, PlaceInv
    PROVE  PlaceInv'
  <1> SUFFICES ASSUME NEW p \in Workers
               PROVE  /\ worker'[p].pc = "idle" => ~worker'[p].rec /\ ~worker'[p].ctx
                      /\ worker'[p].pc = "claimed" => ~worker'[p].rec
                      /\ worker'[p].pc = "readbill" => worker'[p].prov # None
                      /\ worker'[p].pc = "post" => worker'[p].prov = None
                      /\ worker'[p].pc \in {"progress", "readbill", "startbill"} => ~worker'[p].rec
      BY DEF PlaceInv
  <1> DEFINE w == worker[p]
             x == worker'[p]
             Goal == /\ x.pc = "idle" => ~x.rec /\ ~x.ctx
                     /\ x.pc = "claimed" => ~x.rec
                     /\ x.pc = "readbill" => x.prov # None
                     /\ x.pc = "post" => x.prov = None
                     /\ x.pc \in {"progress", "readbill", "startbill"} => ~x.rec
  <1>0. /\ w.pc = "idle" => ~w.rec /\ ~w.ctx
        /\ w.pc = "claimed" => ~w.rec
        /\ w.pc = "readbill" => w.prov # None
        /\ w.pc = "post" => w.prov = None
        /\ w.pc \in {"progress", "readbill", "startbill"} => ~w.rec
      BY DEF PlaceInv
  <1>1. CASE x = w
      BY <1>0, <1>1
  <1>2. CASE x = IdleWorker
      <2>1. x.pc = "idle" /\ ~x.rec /\ ~x.ctx
          BY <1>2, IdleFlags, IdleCopy
      <2> QED BY <2>1
  <1>3. CASE Stays(p) /\ Registered(p)
      <2>1. x.pc = w.pc /\ x.prov = w.prov /\ x.rec = w.rec /\ w.pc # "idle"
          BY <1>3 DEF Stays, Copy, Registered
      <2> QED BY <1>0, <2>1
  <1>4. ASSUME NEW t \in Tasks, ClaimTask(p, t) PROVE Goal
      <2>1. x.pc = "claimed" /\ x.rec = w.rec /\ w.pc = "idle"
          BY <1>4, ClaimKeeps
      <2> QED BY <1>0, <2>1
  <1>5. ASSUME WorkerStep(p), x.pc \notin {"idle", "claimed"} PROVE Goal
      <2>1. Recalls(p) \/ Learns(p)
          BY <1>5, WorkerProv
      <2>2. CASE x.pc = w.pc
          BY <1>0, <1>5, <2>1, <2>2 DEF Recalls, Learns
      <2>3. CASE x.pc # w.pc
          <3>1. Reaches(p)
              BY <1>5, <2>3, Moving
          <3>2. CASE x.pc = "readbill"
              <4>1. UpdateTaskProgress(p) /\ w.prov # None /\ w.pc = "progress"
                  BY <3>1, <3>2 DEF Reaches, UpdateTaskProgress, At
              <4> QED BY <1>0, <2>1, <3>2, <4>1 DEF Recalls, Learns
          <3>3. CASE x.pc = "post"
              <4>1. w.prov = None /\ w.pc = "call"
                  BY <3>1, <3>3 DEF Reaches, BeginProviderCreate, At
              <4> QED BY <2>1, <3>3, <4>1 DEF Recalls, Learns
          <3>4. CASE x.pc = "progress"
              <4>1. ~w.rec /\ w.pc = "verify"
                  BY <3>1, <3>4 DEF Reaches, VerifyEnvelope, At
              <4> QED BY <2>1, <3>4, <4>1 DEF Recalls, Learns
          <3>5. CASE x.pc = "startbill"
              <4>1. w.pc \in {"progress", "readbill"}
                  BY <3>1, <3>5 DEF Reaches, UpdateTaskProgress, ReadBilling, At
              <4> QED BY <1>0, <2>1, <3>5, <4>1 DEF Recalls, Learns
          <3> QED BY <1>5, <3>2, <3>3, <3>4, <3>5
      <2> QED BY <2>2, <2>3
  <1>6. WorkerStep(p) /\ x # IdleWorker => x.pc \notin {"idle", "claimed"}
      BY StepsOn
  <1> QED BY <1>1, <1>2, <1>3, <1>4, <1>5, <1>6, Workings DEF Worked, RenewTaskLease

\* An attempt begins with a claim, of a task that nobody runs.
LEMMA AttemptBefore ==
    ASSUME TypeInv, Attempts, [Next]_vars, OnceInv, LiveInv, PlaceInv, NEW p \in Workers, Attempting(p)'
    PROVE  \/ Attempting(p) /\ worker'[p].t = worker[p].t
           \/ \E t \in Tasks : /\ ClaimTask(p, t) /\ worker'[p].t = t
                               /\ task[t].status \in {"queued", "running"}
                               /\ \A q \in Workers : worker[q].pc # "idle" => worker[q].t # t
  <1> DEFINE w == worker[p]
             x == worker'[p]
  <1>0. /\ x.pc # "idle" /\ ~x.rec
        /\ x.pc = "claimed" => task'[x.t].status # "cancelled"
      BY DEF Attempting
  <1>1. CASE x.pc \notin {"idle", "claimed"}
      <2>1. x.t = w.t /\ (Recalls(p) \/ Learns(p))
          BY <1>1, WorkerProv
      <2>2. CASE Recalls(p)
          <3>1. ~w.rec
              BY <1>0, <2>2 DEF Recalls
          <3> QED BY <2>1, <2>2, <3>1 DEF Recalls, Attempting
      <2>3. CASE Learns(p)
          <3>1. task[w.t].status # "cancelled" /\ w.pc = "claimed"
              BY <1>0, <2>3 DEF Learns
          <3>2. ~w.rec
              BY <3>1 DEF PlaceInv
          <3> QED BY <2>1, <3>1, <3>2 DEF Attempting
      <2> QED BY <2>1, <2>2, <2>3
  <1>2. ASSUME x.pc = "claimed", w.pc = "claimed", x.t = w.t, x.rec = w.rec
        PROVE  Attempting(p)
      <2>1. w.t \in Tasks /\ OneWay(task[w.t], task'[w.t])
          BY <1>2, WorkerFacts, RowOnce
      <2>2. task[w.t].status # "cancelled"
          <3>1. task'[w.t].status # "cancelled"
              BY <1>0, <1>2
          <3> QED BY <2>1, <3>1 DEF OneWay
      <2>3. ~w.rec
          BY <1>0, <1>2
      <2> QED BY <1>2, <2>2, <2>3 DEF Attempting
  <1>3. CASE x = w /\ x.pc = "claimed"
      BY <1>2, <1>3
  <1>4. CASE Stays(p) /\ x.pc = "claimed"
      BY <1>2, <1>4 DEF Stays, Copy
  <1>5. ASSUME NEW t \in Tasks, ClaimTask(p, t)
        PROVE  /\ x.t = t /\ task[t].status \in {"queued", "running"}
               /\ \A q \in Workers : worker[q].pc # "idle" => worker[q].t # t
      <2>1. x.pc = "claimed" /\ x.t = t
          BY <1>5, ClaimKeeps
      <2>2. task[t].status # "cancelled"
          <3> SUFFICES ASSUME task[t].status = "cancelled" PROVE FALSE
              OBVIOUS
          <3>1. OneWay(task[t], task'[t])
              BY RowOnce
          <3> QED BY <1>0, <2>1, <3>1 DEF OneWay
      <2>3. task[t].status = "queued" \/ (task[t].status = "running" /\ task[t].expired)
          BY <1>5, <2>2 DEF ClaimTask, Claimable
      <2> QED BY <2>1, <2>3 DEF LiveInv, Live
  <1>6. x # IdleWorker
      BY <1>0, IdlePC
  <1>7. WorkerStep(p) => x.pc # "claimed"
      BY <1>6, StepsOn
  <1> QED BY <1>0, <1>1, <1>3, <1>4, <1>5, <1>6, <1>7, Workings DEF Worked

LEMMA OneAttemptStep ==
    ASSUME TypeInv, Attempts, [Next]_vars, OnceInv, LiveInv, PlaceInv, OneAttempt
    PROVE  OneAttempt'
  <1> SUFFICES ASSUME NEW p \in Workers, NEW q \in Workers, Attempting(p)', Attempting(q)',
                      worker'[p].t = worker'[q].t, p # q
               PROVE  FALSE
      BY DEF OneAttempt
  <1>1. ASSUME NEW a \in Workers, NEW b \in Workers, a # b, Attempting(a)', Attempting(b)',
               worker'[a].t = worker'[b].t, NEW t \in Tasks, ClaimTask(a, t), worker'[a].t = t,
               \A d \in Workers : worker[d].pc # "idle" => worker[d].t # t
        PROVE  FALSE
      <2>1. worker'[b] = worker[b]
          BY <1>1, ClaimKeeps
      <2> QED BY <1>1, <2>1 DEF Attempting
  <1>2. CASE Attempting(p) /\ worker'[p].t = worker[p].t /\ Attempting(q) /\ worker'[q].t = worker[q].t
      BY <1>2 DEF OneAttempt
  <1> QED BY <1>1, <1>2, AttemptBefore

----------------------------------------------------------------------------
(* What an attempt has not done yet *)

Early == {"claimed", "verify", "progress", "readbill", "startbill"}

\* An attempt that has not started its charge finds it not started.
EarlyInv == \A p \in Workers : Attempting(p) /\ worker[p].pc \in Early =>
    order[task[worker[p].t].order].status # "running"

\* Before the create request leaves, the provider does not know of it.
Unsent(w) == w.pc = "post" \/ (w.pc = "call" /\ w.prov = None)
UnsentInv == \A p \in Workers : Unsent(worker[p]) =>
    /\ order[worker[p].ord].status \in {"running", "uncertain", "settled"}
    /\ up[worker[p].ord] = "none"
ReservedInv == \A o \in Orders : order[o].status \in {"unused", "reserved"} => up[o] = "none"
QueuedInv == \A t \in Tasks : task[t].status = "queued" =>
    order[task[t].order].status = "reserved" /\ NoJob(task[t])

\* The request to refund a task cancelled while queued is alone with it.
RefundIdle == \A c \in Clients : client[c].pc = "refund" =>
    /\ up[client[c].ord] = "none" /\ NoJob(task[client[c].t])
    /\ \A p \in Workers : worker[p].pc # "idle" => worker[p].t # client[c].t

\* A running task whose order is open has a worker.
KeptInv == \A t \in Tasks : task[t].status = "running" /\ ~Closed(task[t].order) =>
    \E p \in Workers : worker[p].pc # "idle" /\ worker[p].t = t

LEMMA SameTask ==
    ASSUME TypeInv, Attempts, NEW t \in Tasks, task[t].status # "absent",
           NEW p \in Workers, worker[p].pc \notin {"idle", "claimed"}, worker[p].ord = task[t].order
    PROVE  worker[p].t = t
  BY InUse, OwnFits

LEMMA SameRequest ==
    ASSUME TypeInv, Attempts, OnceInv, NEW t \in Tasks, task[t].status # "absent",
           NEW c \in Clients, client[c].pc # "idle", client[c].ord = task[t].order
    PROVE  client[c].t = t
  <1>1. client[c].t \in Tasks /\ client[c].ord = task[client[c].t].order /\ task[client[c].t].status # "absent"
      BY ClientFacts DEF OnceInv
  <1> QED BY <1>1, InUse

LEMMA OwnOrder ==
    ASSUME TypeInv, Attempts, OnceInv, NEW p \in Workers, worker[p].pc \notin {"idle", "claimed"}
    PROVE  /\ worker[p].t \in Tasks /\ task[worker[p].t].status # "absent"
           /\ worker[p].ord \in Orders /\ worker[p].ord = task[worker[p].t].order
           /\ order[worker[p].ord].task = worker[p].t
           /\ order[worker[p].ord].status # "unused"
  <1>1. /\ worker[p].t \in Tasks /\ task[worker[p].t].status # "absent"
        /\ worker[p].ord = task[worker[p].t].order
      BY WorkerFacts DEF OnceInv
  <1> QED BY <1>1, InUse

LEMMA BusyBefore ==
    ASSUME TypeInv, Attempts, [Next]_vars, NEW p \in Workers, worker'[p].pc # "idle"
    PROVE  \/ worker[p].pc # "idle" /\ worker'[p].t = worker[p].t
           \/ \E t \in Tasks : ClaimTask(p, t) /\ worker'[p].t = t /\ worker'[p].pc = "claimed"
  <1>1. worker'[p] # IdleWorker
      BY IdlePC
  <1>2. WorkerStep(p) => worker'[p].pc \notin {"idle", "claimed"}
      BY <1>1, StepsOn
  <1>3. worker'[p].pc \notin {"idle", "claimed"} => worker[p].pc # "idle" /\ worker'[p].t = worker[p].t
      BY WorkerProv DEF Recalls, Learns
  <1>4. Stays(p) => worker'[p].pc = worker[p].pc /\ worker'[p].t = worker[p].t
      BY DEF Stays, Copy
  <1> QED BY <1>1, <1>2, <1>3, <1>4, Workings DEF Worked

\* Steps that leave a position lead to another one.
LEMMA LeavesStart ==
    ASSUME TypeInv, NEW p \in Workers, StartBilling(p)
    PROVE  worker'[p].pc \in {"call", "final"}
  <1>1. Goto(p, "call") => Leads(p, "call")
      BY Lead, Parts
  <1>2. \A e : worker' = [worker EXCEPT ![p].pc = "final", ![p].err = e] => Leads(p, "final")
      BY LeadWith, Parts
  <1> QED BY <1>1, <1>2 DEF StartBilling, Leads, Goes

LEMMA LeavesPost ==
    ASSUME TypeInv, NEW p \in Workers, Post(p)
    PROVE  worker'[p].pc \in {"save", "error"}
  <1>1. \A e \in Errors : Fail(p, e) => Leads(p, "error")
      BY LeadFail, Parts
  <1>2. worker' = [worker EXCEPT ![p].pc = "save", ![p].job = worker[p].ord] => worker'[p].pc = "save"
      BY Parts DEF WorkerOK, WorkerState
  <1> QED BY <1>1, <1>2, Errs DEF Post, Leads, Goes

\* A task that is queued and stays so has no job.
LEMMA NoJobQueued ==
    ASSUME TypeInv, Attempts, [Next]_vars, NEW t \in Tasks, task[t].status = "queued",
           task'[t].status = "queued", NoJob(task[t])
    PROVE  NoJob(task'[t])
  <1>1. CASE Stands(t)
      BY <1>1 DEF Stands, Still, NoJob
  <1>2. ~Created(t) /\ \A p \in Workers : ~Claimed(p, t)
      BY DEF Created, Claimed, Turns
  <1>3. ~WorkerTurns(t)
      <2>1. \A p \in Workers : worker[p].t = t => ~Rejected(p, t) /\ ~Failed(p, t) /\ ~Succeeded(p, t)
          BY DEF Rejected, Failed, Succeeded, RunningLease
      <2>2. \A p \in Workers : worker[p].t = t => ~Recorded(p, t)
          BY DEF Recorded, SavesRunning, RunningLease, SavesCancelled
      <2> QED BY <2>1, <2>2 DEF WorkerTurns
  <1>4. ~ClientTurns(t)
      <2>1. \A c \in Clients : ~CancelledBy(c, t)
          BY DEF CancelledBy, Turns
      <2>2. \A c \in Clients : ~Retried(c, t) /\ ~Resumed(c, t)
          BY DEF Retried, Resumed, Resumable
      <2> QED BY <2>1, <2>2 DEF ClientTurns
  <1> QED BY <1>1, <1>2, <1>3, <1>4, RowTurns

LEMMA QueuedStep ==
    ASSUME TypeInv, Attempts, [Next]_vars, OnceInv, LiveInv, QueuedInv, Resolutions = {}
    PROVE  QueuedInv'
  <1> SUFFICES ASSUME NEW t \in Tasks, task'[t].status = "queued"
               PROVE  order'[task'[t].order].status = "reserved" /\ NoJob(task'[t])
      BY DEF QueuedInv
  <1> DEFINE k == task[t]
             o == k.order
  <1>1. CASE k.status = "absent"
      <2>1. CASE Created(t)
          <3> PICK x \in Orders : Reserves(t, x)
              BY <2>1 DEF Created
          <3>1. order'[x].status = "reserved" /\ task'[t].order = x /\ NoJob(task'[t])
              BY Parts DEF Reserves, OrderOK, NoJob
          <3> QED BY <3>1
      <2>2. ~Stands(t)
          BY <1>1 DEF Stands, Still
      <2>3. ~WorkerTurns(t)
          BY <1>1, WorkerFacts DEF WorkerTurns
      <2>4. ~ClientTurns(t)
          BY <1>1 DEF ClientTurns, OnceInv
      <2>5. \A p \in Workers : ~Claimed(p, t)
          BY <1>1 DEF Claimed
      <2> QED BY <2>1, <2>2, <2>3, <2>4, <2>5, RowTurns
  <1>2. CASE k.status # "absent"
      <2>1. k.status = "queued" /\ task'[t].order = o
          BY <1>2, RowOnce DEF OneWay
      <2>2. order[o].status = "reserved" /\ NoJob(k) /\ o \in Orders
          BY <2>1, <1>2, InUse DEF QueuedInv
      <2>3. NoJob(task'[t])
          BY <2>1, <2>2, NoJobQueued
      <2>4. ~\E p \in Workers : worker[p].pc \notin {"idle", "claimed"} /\ worker[p].ord = o
          BY <1>2, <2>1, SameTask DEF LiveInv, Live
      <2>5. ASSUME NEW c \in Clients, client[c].pc # "idle", client[c].ord = o, ByRequest(c, o) PROVE FALSE
          <3>1. client[c].t = t
              BY <1>2, <2>5, SameRequest
          <3>2. client[c].pc \in {"refund", "markunc"}
              BY <2>5 DEF ByRequest, CancelRefund, CancelMarkUncertain
          <3> QED BY <2>1, <3>1, <3>2 DEF OnceInv
      <2>6. ~Taken(o) /\ ~ByReview(o)
          BY <2>2 DEF Taken, ByReview
      <2>7. order'[o] = order[o]
          BY <2>2, <2>4, <2>5, <2>6, Charges
      <2> QED BY <2>1, <2>2, <2>3, <2>7
  <1> QED BY <1>1, <1>2

LEMMA ReservedStep ==
    ASSUME TypeInv, Attempts, [Next]_vars, UnsentInv, ReservedInv
    PROVE  ReservedInv'
  <1> SUFFICES ASSUME NEW o \in Orders, order'[o].status \in {"unused", "reserved"}
               PROVE  up'[o] = "none"
      BY DEF ReservedInv
  <1>1. order[o].status \in {"unused", "reserved"} /\ up[o] = "none"
      BY LegalStep DEF Legal, ReservedInv
  <1>2. ~\E p \in Workers : Post(p) /\ worker[p].ord = o
      BY <1>1 DEF UnsentInv, Unsent, Post, At
  <1> QED BY <1>1, <1>2, UpSteps DEF UpMoves

LEMMA RefundIdleStep ==
    ASSUME TypeInv, Attempts, [Next]_vars, OnceInv, LiveInv, QueuedInv, ReservedInv, RefundIdle
    PROVE  RefundIdle'
  <1> SUFFICES ASSUME NEW c \in Clients, client'[c].pc = "refund"
               PROVE  /\ up'[client'[c].ord] = "none" /\ NoJob(task'[client'[c].t])
                      /\ \A p \in Workers : worker'[p].pc # "idle" => worker'[p].t # client'[c].t
      BY DEF RefundIdle
  <1> DEFINE t == client[c].t
             o == client[c].ord
  <1>1. CASE client'[c] = client[c]
      <2>1. /\ t \in Tasks /\ o \in Orders /\ o = task[t].order /\ task[t].status = "cancelled"
            /\ up[o] = "none" /\ NoJob(task[t])
            /\ \A p \in Workers : worker[p].pc # "idle" => worker[p].t # t
          BY <1>1, ClientFacts DEF OnceInv, RefundIdle
      <2>2. NoJob(task'[t])
          BY <2>1, NoJobStays
      <2>3. ~\E p \in Workers : Post(p) /\ worker[p].ord = o
          BY <2>1, SameTask DEF Post, At
      <2>4. up'[o] = "none"
          BY <2>1, <2>3, UpSteps DEF UpMoves
      <2>5. ASSUME NEW p \in Workers, worker'[p].pc # "idle", worker'[p].t = t PROVE FALSE
          <3>1. ClaimTask(p, t)
              BY <2>1, <2>5, BusyBefore
          <3> QED BY <2>1, <3>1 DEF ClaimTask, Claimable, NoJob
      <2> QED BY <1>1, <2>2, <2>4, <2>5
  <1>2. CASE Keeps(c) /\ CancelTaskIfQueued(c) /\ task[t].status = "queued"
      <2>1. /\ t \in Tasks /\ o \in Orders /\ task[t] \in TaskRow /\ o = task[t].order
            /\ order[o].status = "reserved" /\ NoJob(task[t])
          BY <1>2, ClientFacts DEF CancelTaskIfQueued, OnceInv, QueuedInv
      <2>2. UNCHANGED <<up, worker>> /\ task' = [task EXCEPT ![t] = Cancelled(task[t])]
          BY <1>2 DEF CancelTaskIfQueued
      <2>3. NoJob(task'[t])
          BY <2>1, <2>2, QueuedCancelled, Parts DEF TaskOK
      <2>4. \A p \in Workers : worker[p].pc # "idle" => worker[p].t # t
          BY <1>2 DEF LiveInv, Live
      <2>5. up[o] = "none"
          BY <2>1 DEF ReservedInv
      <2> QED BY <1>2, <2>1, <2>2, <2>3, <2>4, <2>5 DEF Keeps
  <1> QED BY <1>1, <1>2, Requests DEF Request

----------------------------------------------------------------------------
(* Attempts begin at the beginning *)

LEMMA ClaimedFrom ==
    ASSUME TypeInv, [Next]_vars, Attempts, NEW p \in Workers, Attempting(p), worker'[p].pc = "claimed"
    PROVE  worker[p].pc = "claimed"
  <1>1. worker'[p] # IdleWorker /\ worker[p].pc # "idle"
      BY IdlePC DEF Attempting
  <1>2. ~WorkerStep(p)
      BY <1>1, StepsOn
  <1>3. Stays(p) => worker'[p].pc = worker[p].pc
      BY DEF Stays
  <1> QED BY <1>1, <1>2, <1>3, Workings DEF Worked, At

LEMMA EarlyFrom ==
    ASSUME TypeInv, [Next]_vars, Attempts, NEW p \in Workers, Attempting(p), worker'[p].pc \in Early
    PROVE  worker[p].pc \in Early /\ ~StartBilling(p)
  <1>1. ~StartBilling(p)
      BY LeavesStart DEF Early
  <1>2. CASE worker'[p].pc = "claimed"
      BY <1>1, <1>2, ClaimedFrom DEF Early
  <1>3. CASE worker'[p].pc = worker[p].pc
      BY <1>1, <1>3
  <1>4. CASE worker'[p].pc # worker[p].pc /\ worker'[p].pc # "claimed"
      <2>1. Reaches(p)
          BY <1>4, Moving DEF Early
      <2>2. worker'[p].pc \in {"verify", "progress", "readbill", "startbill"}
          BY <1>4 DEF Early
      <2>3. Reread(p) \/ VerifyEnvelope(p) \/ UpdateTaskProgress(p) \/ ReadBilling(p)
          BY <2>1, <2>2 DEF Reaches
      <2> QED BY <1>1, <2>3 DEF Reread, VerifyEnvelope, UpdateTaskProgress, ReadBilling, At, Early
  <1> QED BY <1>2, <1>3, <1>4

LEMMA EarlyStep ==
    ASSUME TypeInv, Attempts, [Next]_vars, OnceInv, LiveInv, PlaceInv, OneAttempt, Resolutions = {},
           QueuedInv, KeptInv, EarlyInv
    PROVE  EarlyInv'
  <1> SUFFICES ASSUME NEW p \in Workers, Attempting(p)', worker'[p].pc \in Early
               PROVE  order'[task'[worker'[p].t].order].status # "running"
      BY DEF EarlyInv
  <1>1. ASSUME NEW t \in Tasks, ClaimTask(p, t), worker'[p].t = t,
               task[t].status \in {"queued", "running"},
               \A q \in Workers : worker[q].pc # "idle" => worker[q].t # t
        PROVE  order'[task'[worker'[p].t].order].status # "running"
      <2>1. order[task[t].order].status # "running"
          BY <1>1 DEF QueuedInv, KeptInv, Closed, OpenBilling
      <2>2. task'[t].order = task[t].order
          BY <1>1, RowOnce DEF OneWay
      <2>3. UNCHANGED order
          BY <1>1 DEF ClaimTask
      <2> QED BY <1>1, <2>1, <2>2, <2>3
  <1>2. ASSUME Attempting(p), worker'[p].t = worker[p].t
        PROVE  order'[task'[worker'[p].t].order].status # "running"
      <2> DEFINE t == worker[p].t
                 o == task[t].order
      <2>1. worker[p].pc \in Early /\ ~StartBilling(p)
          BY <1>2, EarlyFrom
      <2>2. t \in Tasks /\ task[t].status # "absent" /\ o \in Orders /\ order[o].status # "running"
            /\ order[o].status # "unused"
          BY <1>2, <2>1, WorkerFacts, InUse DEF EarlyInv, Attempting
      <2>3. task'[t].order = o
          BY <2>2, RowOnce DEF OneWay
      <2>4. SUFFICES ASSUME order'[o].status = "running" PROVE FALSE
          BY <1>2, <2>3
      <2>5. order'[o] # order[o] /\ ~Taken(o)
          BY <2>2, <2>4 DEF Taken
      <2>6. ASSUME NEW q \in Workers, worker[q].pc \notin {"idle", "claimed"}, worker[q].ord = o, ByWorker(q, o)
            PROVE  FALSE
          <3>1. worker[q].t = t
              BY <2>2, <2>6, SameTask
          <3>2. StartBilling(q)
              BY <2>2, <2>4, <2>6 DEF ByWorker, Sets, Marks, FailedBilling, CompletedBilling
          <3>3. worker[q].pc = "startbill" /\ ~worker[q].rec
              BY <3>2 DEF StartBilling, At, PlaceInv
          <3>4. q = p
              BY <1>2, <3>1, <3>3 DEF OneAttempt, Attempting
          <3> QED BY <2>1, <3>2, <3>4
      <2>7. \A c \in Clients : ~ByRequest(c, o)
          BY <2>4 DEF ByRequest, Sets, Marks
      <2>8. ~ByReview(o)
          BY <2>4 DEF ByReview, Sets
      <2> QED BY <2>2, <2>5, <2>6, <2>7, <2>8, Charges
  <1> QED BY <1>1, <1>2, AttemptBefore

\* A worker about to create a job is the attempt of its task.
LEMMA UnsentAttempts ==
    ASSUME TypeInv, Attempts, PlaceInv, NEW p \in Workers, Unsent(worker[p])
    PROVE  Attempting(p)
  <1>1. worker[p].pc \in {"post", "call"} /\ worker[p].prov = None
      BY DEF Unsent, PlaceInv
  <1>2. ~worker[p].rec
      BY <1>1, OwnFits DEF Fits
  <1> QED BY <1>1, <1>2 DEF Attempting

LEMMA RefundedBy ==
    ASSUME TypeInv, Attempts, [Next]_vars, OnceInv, Resolutions = {}, ProvInv,
           NEW o \in Orders, order'[o].status = "refunded", order[o].status # "refunded"
    PROVE  \/ \E p \in Workers : /\ worker[p].pc = "final" /\ worker[p].ord = o /\ worker[p].err = "refund"
                                 /\ RunningLease(p) /\ order[o].status \in {"reserved", "running"}
                                 /\ UNCHANGED up
           \/ \E c \in Clients : client[c].pc = "refund" /\ client[c].ord = o /\ UNCHANGED up
           \/ up[o] = "failed" /\ UNCHANGED up
  <1>1. order'[o] # order[o] /\ ~Taken(o)
      BY DEF Taken
  <1>2. ASSUME NEW p \in Workers, worker[p].pc \notin {"idle", "claimed"}, worker[p].ord = o, ByWorker(p, o)
        PROVE  /\ worker[p].pc = "final" /\ worker[p].ord = o /\ worker[p].err = "refund"
               /\ RunningLease(p) /\ order[o].status \in {"reserved", "running"}
               /\ UNCHANGED up
      <2>1. FinalizeFailed(p) /\ FailedBillingOK(p) /\ RunningLease(p) /\ FailedBilling(p) = "refunded"
          BY <1>2 DEF ByWorker, Sets, Marks, CompletedBilling
      <2>2. worker[p].err = "refund"
          BY <2>1 DEF FailedBilling
      <2> QED BY <1>2, <2>1, <2>2 DEF FinalizeFailed, FailedBillingOK, At
  <1>3. ASSUME NEW c \in Clients, client[c].pc # "idle", client[c].ord = o, ByRequest(c, o)
        PROVE  client[c].pc = "refund" /\ client[c].ord = o /\ UNCHANGED up
      BY <1>3 DEF ByRequest, Sets, Marks, CancelRefund
  <1>4. ASSUME ByReview(o) PROVE up[o] = "failed" /\ UNCHANGED up
      BY <1>4 DEF ByReview, Sets, ProvInv
  <1> QED BY <1>1, <1>2, <1>3, <1>4, Charges

LEMMA UnsentStep ==
    ASSUME TypeInv, LeaseInv, Attempts, [Next]_vars, OnceInv, LiveInv, PlaceInv, OneAttempt, Resolutions = {},
           EarlyInv, UnsentInv, ReservedInv, RefundIdle, ProvInv
    PROVE  UnsentInv'
  <1> SUFFICES ASSUME NEW p \in Workers, Unsent(worker'[p])
               PROVE  /\ order'[worker'[p].ord].status \in {"running", "uncertain", "settled"}
                      /\ up'[worker'[p].ord] = "none"
      BY DEF UnsentInv
  <1> DEFINE w == worker[p]
             o == w.ord
  <1>1. worker'[p].pc \in {"post", "call"} /\ (worker'[p].pc = "call" => worker'[p].prov = None)
      BY DEF Unsent
  <1>2. worker'[p].t = w.t /\ (Recalls(p) \/ Learns(p))
      BY <1>1, WorkerProv
  <1>3. worker'[p].pc # w.pc => Reaches(p)
      BY <1>1, Moving
  <1>4. Recalls(p) /\ worker'[p].ord = o
      <2>1. ~Learns(p)
          <3> SUFFICES ASSUME Learns(p) PROVE FALSE
              OBVIOUS
          <3>1. Reread(p) /\ w.pc = "claimed"
              BY DEF Learns
          <3>2. Reaches(p)
              BY <1>1, <1>3, <3>1
          <3> QED BY <1>1, <3>1, <3>2 DEF Reaches, VerifyEnvelope, ReadBilling, StartBilling, BeginProviderCreate, At
      <2>2. ~ClaimCancelledTaskResult(p)
          <3> SUFFICES ASSUME ClaimCancelledTaskResult(p) PROVE FALSE
              OBVIOUS
          <3>1. w.pc = "claimres"
              BY DEF ClaimCancelledTaskResult, At
          <3>2. Reaches(p)
              BY <1>1, <1>3, <3>1
          <3> QED BY <1>1, <3>1, <3>2 DEF Reaches, VerifyEnvelope, ReadBilling, StartBilling, BeginProviderCreate, At
      <2> QED BY <1>2, <2>1, <2>2 DEF Recalls
  <1>5. w.pc \notin {"idle", "claimed"} /\ worker'[p].prov = w.prov
      BY <1>4 DEF Recalls
  <1>6. /\ o \in Orders /\ order[o].status # "unused" /\ o = task[w.t].order
        /\ w.t \in Tasks /\ task[w.t].status # "absent"
      BY <1>5, OwnOrder
  <1>7. CASE Unsent(w)
      <2>1. order[o].status \in {"running", "uncertain", "settled"} /\ up[o] = "none"
          BY <1>7 DEF UnsentInv
      <2>2. order'[o].status # "refunded"
          <3> SUFFICES ASSUME order'[o].status = "refunded" PROVE FALSE
              OBVIOUS
          <3>1. ASSUME NEW q \in Workers, worker[q].pc = "final", worker[q].ord = o, RunningLease(q)
                PROVE  FALSE
              <4>1. worker[q].t = w.t
                  BY <1>6, <3>1, SameTask
              <4>2. HoldsLease(p)
                  BY <1>5, <3>1, <4>1 DEF RunningLease, LiveInv, Live
              <4>3. q = p
                  BY <1>5, <3>1, <4>1, <4>2, OneHolder DEF RunningLease
              <4> QED BY <1>7, <3>1, <4>3 DEF Unsent
          <3>2. ASSUME NEW c \in Clients, client[c].pc = "refund", client[c].ord = o PROVE FALSE
              <4>1. client[c].t = w.t
                  BY <1>6, <3>2, SameRequest
              <4> QED BY <1>5, <3>2, <4>1 DEF RefundIdle
          <3> QED BY <1>6, <2>1, <3>1, <3>2, RefundedBy
      <2>3. order'[o].status \in {"running", "uncertain", "settled"}
          BY <1>6, <2>1, <2>2, LegalStep DEF Legal
      <2>4. ~\E q \in Workers : Post(q) /\ worker[q].ord = o
          <3> SUFFICES ASSUME NEW q \in Workers, Post(q), worker[q].ord = o PROVE FALSE
              OBVIOUS
          <3>1. Unsent(worker[q]) /\ worker[q].pc \notin {"idle", "claimed"}
              BY DEF Post, At, Unsent
          <3>2. worker[q].t = w.t
              BY <1>6, <3>1, SameTask
          <3>3. q = p
              BY <1>7, <3>1, <3>2, UnsentAttempts DEF OneAttempt
          <3> QED BY <1>1, <3>3, LeavesPost
      <2>5. up'[o] = "none"
          BY <1>6, <2>1, <2>4, UpSteps DEF UpMoves
      <2> QED BY <1>4, <2>3, <2>5
  <1>8. CASE ~Unsent(w)
      <2>1. worker'[p].pc = "call" /\ w.prov = None /\ worker'[p].pc # w.pc
          <3>1. worker'[p].pc = w.pc => FALSE
              BY <1>1, <1>5, <1>8 DEF Unsent
          <3>2. worker'[p].pc = "post" => FALSE
              BY <1>3, <1>8, <3>1 DEF Reaches, BeginProviderCreate, At, Unsent
          <3> QED BY <1>1, <1>5, <3>1, <3>2
      <2>2. ~w.rec
          BY <1>5, <2>1, OwnFits DEF Fits
      <2>3. w.pc # "readbill"
          BY <2>1 DEF PlaceInv
      <2>4. StartBilling(p) /\ Startable(p)
          BY <1>3, <2>1, <2>2, <2>3 DEF Reaches, ReadBilling, At
      <2>5. w.pc = "startbill" /\ UNCHANGED up /\ order' = SetBilling(o, "running")
          BY <2>4 DEF StartBilling, At
      <2>6. order[o].status # "running"
          BY <1>6, <2>2, <2>5 DEF EarlyInv, Attempting, Early
      <2>7. order[o].status = "reserved"
          BY <2>4, <2>6 DEF Startable
      <2>8. up[o] = "none"
          BY <1>6, <2>7 DEF ReservedInv
      <2>9. order'[o].status = "running"
          BY <1>6, <2>5, SetOrder, Parts DEF Sets
      <2> QED BY <1>4, <2>5, <2>8, <2>9
  <1> QED BY <1>7, <1>8

----------------------------------------------------------------------------
(* What the worker of an open charge knows *)

\* The provider is known to work for the task, or to have worked.
Known(t) == task[t].prov # None \/ t \in log
IdleJob(o) == up[o] \in {"none", "failed"}

\* What the worker of a running task whose order is open knows by now: an
\* error that would refund it came before the create request was accepted.
OnPath(p) ==
    LET w == worker[p]
        k == task[w.t] IN
    /\ ~w.ctx
    /\ w.pc \in Early => order[k.order].status = "reserved" /\ k.prov = None
    /\ w.pc # "claimed" => w.prov = None
    /\ w.pc = "poll" => Known(w.t)
    /\ w.pc = "error" => /\ w.err \in {"definite", "ambiguous", "persist"}
                         /\ w.err = "definite" => \/ IdleJob(k.order) \/ Known(w.t)
                                                  \/ order[k.order].status = "uncertain"
    /\ w.pc = "final" => /\ w.err \in {"refund", "uncertain"}
                         /\ w.err = "refund" => IdleJob(k.order) /\ order[k.order].status # "uncertain"
Runs(p) == /\ worker[p].pc # "idle" /\ task[worker[p].t].status = "running"
           /\ ~Closed(task[worker[p].t].order)
PathInv == \A p \in Workers : Runs(p) => OnPath(p)

LEMMA ErrSet ==
    ASSUME WorkerOK, NEW p \in Workers, NEW pc, NEW e,
           worker' = [worker EXCEPT ![p].pc = pc, ![p].err = e]
    PROVE  worker'[p].pc = pc /\ worker'[p].err = e
  BY DEF WorkerOK, WorkerState

LEMMA FailSet ==
    ASSUME WorkerOK, NEW p \in Workers
    PROVE  \A e : Fail(p, e) => worker'[p].pc = "error" /\ worker'[p].err = e
  BY ErrSet DEF Fail

LEMMA GotoSet ==
    ASSUME WorkerOK, NEW p \in Workers
    PROVE  \A pc : Goto(p, pc) => worker'[p].pc = pc
  BY Lead DEF Leads, Goes

LEMMA LogGrows ==
    ASSUME [Next]_vars, NEW t \in log
    PROVE  t \in log'
  <1>1. ASSUME NEW p \in Workers, WorkerStep(p) PROVE log \subseteq log'
      <2>1. CASE SaveProviderCall(p)
          <3>1. log' = log \/ log' = log \cup {worker[p].t}
              BY <2>1 DEF SaveProviderCall
          <3> QED BY <3>1
      <2>2. CASE ~SaveProviderCall(p)
          <3>1. UNCHANGED log
              BY <1>1, <2>2 DEF WorkerStep, Reread, VerifyEnvelope, UpdateTaskProgress, ReadBilling, StartBilling,
                 CallFails, ResumeJob, BeginProviderCreate, Post, Poll,
                 HandleError, ScheduleReconciliation, WorkerMarkUncertain, FinalizeFailed,
                 ReadLatest, ClaimCancelledTaskResult, SaveCancelledTaskResult,
                 UpdateTaskProgress90, FinalizeSucceeded, SettleCompleted
          <3> QED BY <3>1
      <2> QED BY <2>1, <2>2
  <1>2. ASSUME NEW c \in Clients, ClientStep(c) PROVE UNCHANGED log
      BY <1>2 DEF ClientStep, CancelTaskIfQueued, CancelTaskIfRunning, CancelRefund,
         CancelMarkUncertain, CancelReread, RetryTaskWithBilling, ResumeTaskWithUncertainBilling
  <1>3. CASE \/ \E x \in Tasks : CreateTask(x) \/ LeaseExpires(x)
             \/ \E p \in Workers : ClaimNextTask(p) \/ RenewTaskLease(p)
             \/ \E c \in Clients, x \in Tasks : CancelTask(c, x) \/ RetryTask(c, x)
             \/ \E x \in Orders : ResolveBillingOrder(x) \/ ReconcileBillingOrder(x) \/ ProviderFinishes(x)
             \/ \E x \in Crashable : Crash(x)
             \/ UNCHANGED vars
      <2>1. UNCHANGED log
          BY <1>3 DEF CreateTask, LeaseExpires, ClaimNextTask, ClaimTask, RenewTaskLease, CancelTask, RetryTask,
             ResolveBillingOrder, ReconcileBillingOrder, ProviderFinishes, Crash, vars
      <2> QED BY <2>1
  <1> QED BY <1>1, <1>2, <1>3 DEF Next

\* Where each step of processClaimedTask is taken.
LEMMA Positions ==
    ASSUME NEW p \in Workers
    PROVE  /\ Reread(p) => worker[p].pc = "claimed"
           /\ VerifyEnvelope(p) => worker[p].pc = "verify"
           /\ UpdateTaskProgress(p) => worker[p].pc = "progress"
           /\ ReadBilling(p) => worker[p].pc = "readbill"
           /\ StartBilling(p) => worker[p].pc = "startbill"
           /\ CallFails(p) \/ ResumeJob(p) \/ BeginProviderCreate(p) => worker[p].pc = "call"
           /\ Post(p) => worker[p].pc = "post"
           /\ SaveProviderCall(p) => worker[p].pc = "save"
           /\ Poll(p) => worker[p].pc = "poll"
           /\ HandleError(p) => worker[p].pc = "error"
           /\ ScheduleReconciliation(p) => worker[p].pc = "schedule"
           /\ WorkerMarkUncertain(p) => worker[p].pc = "markunc"
           /\ FinalizeFailed(p) => worker[p].pc = "final"
           /\ ReadLatest(p) => worker[p].pc = "succeeded"
           /\ ClaimCancelledTaskResult(p) => worker[p].pc = "claimres"
           /\ SaveCancelledTaskResult(p) => worker[p].pc = "saveres"
           /\ UpdateTaskProgress90(p) => worker[p].pc = "persist"
           /\ FinalizeSucceeded(p) => worker[p].pc = "complete"
           /\ SettleCompleted(p) => worker[p].pc = "settle"
  <1>1. Reread(p) => worker[p].pc = "claimed"
      BY DEF Reread, At
  <1>2. VerifyEnvelope(p) => worker[p].pc = "verify"
      BY DEF VerifyEnvelope, At
  <1>3. UpdateTaskProgress(p) => worker[p].pc = "progress"
      BY DEF UpdateTaskProgress, At
  <1>4. ReadBilling(p) => worker[p].pc = "readbill"
      BY DEF ReadBilling, At
  <1>5. StartBilling(p) => worker[p].pc = "startbill"
      BY DEF StartBilling, At
  <1>6. CallFails(p) \/ ResumeJob(p) \/ BeginProviderCreate(p) => worker[p].pc = "call"
      BY DEF CallFails, ResumeJob, BeginProviderCreate, At
  <1>7. Post(p) => worker[p].pc = "post"
      BY DEF Post, At
  <1>8. SaveProviderCall(p) => worker[p].pc = "save"
      BY DEF SaveProviderCall, At
  <1>9. Poll(p) => worker[p].pc = "poll"
      BY DEF Poll, At
  <1>10. HandleError(p) => worker[p].pc = "error"
      BY DEF HandleError, At
  <1>11. ScheduleReconciliation(p) => worker[p].pc = "schedule"
      BY DEF ScheduleReconciliation, At
  <1>12. WorkerMarkUncertain(p) => worker[p].pc = "markunc"
      BY DEF WorkerMarkUncertain, At
  <1>13. FinalizeFailed(p) => worker[p].pc = "final"
      BY DEF FinalizeFailed, At
  <1>14. ReadLatest(p) => worker[p].pc = "succeeded"
      BY DEF ReadLatest, At
  <1>15. ClaimCancelledTaskResult(p) => worker[p].pc = "claimres"
      BY DEF ClaimCancelledTaskResult, At
  <1>16. SaveCancelledTaskResult(p) => worker[p].pc = "saveres"
      BY DEF SaveCancelledTaskResult, At
  <1>17. UpdateTaskProgress90(p) => worker[p].pc = "persist"
      BY DEF UpdateTaskProgress90, At
  <1>18. FinalizeSucceeded(p) => worker[p].pc = "complete"
      BY DEF FinalizeSucceeded, At
  <1>19. SettleCompleted(p) => worker[p].pc = "settle"
      BY DEF SettleCompleted, At
  <1> QED BY <1>1, <1>2, <1>3, <1>4, <1>5, <1>6, <1>7, <1>8, <1>9, <1>10, <1>11, <1>12, <1>13, <1>14, <1>15, <1>16, <1>17, <1>18, <1>19

LEMMA StepChanges ==
    ASSUME TypeInv, NEW p \in Workers, WorkerStep(p)
    PROVE  worker'[p].pc # worker[p].pc /\ worker[p].pc # "idle"
  <1>1. worker[p].pc # "idle"
      BY Positions DEF WorkerStep
  <1>2. Edge(p)
      BY Edges
  <1>3. \A pc : Leads(p, pc) => worker'[p].pc = pc
      BY DEF Leads, Goes
  <1>4. CASE worker'[p] = IdleWorker
      BY <1>1, <1>4, IdlePC
  <1>5. CASE worker'[p] # IdleWorker
      <2> DEFINE E1 == /\ Flagged(p)
                       /\ \/ Reread(p) /\ HoldsLease(p) /\ worker'[p].pc = "verify"
                          \/ ResumeJob(p) /\ worker'[p].pc = "poll"
                          \/ Post(p) /\ worker'[p].pc = "save"
                          \/ ClaimCancelledTaskResult(p) /\ ResultClaimable(p) /\ worker'[p].pc = "saveres"
                 E2 == \/ VerifyEnvelope(p) /\ Leads(p, IF worker[p].rec THEN "call" ELSE "progress")
                       \/ UpdateTaskProgress(p) /\ RunningLease(p)
                          /\ Leads(p, IF worker[p].prov = None THEN "startbill" ELSE "readbill")
                 E3 == \/ ReadBilling(p) /\ order[worker[p].ord].status = "uncertain" /\ Leads(p, "call")
                       \/ ReadBilling(p) /\ Leads(p, "startbill")
                       \/ StartBilling(p) /\ Startable(p) /\ Leads(p, "call")
                       \/ StartBilling(p) /\ ~Startable(p) /\ Leads(p, "final")
                       \/ BeginProviderCreate(p) /\ Leads(p, "post")
                       \/ SaveProviderCall(p) /\ Kind[worker[p].t] = "token" /\ Leads(p, "succeeded")
                       \/ SaveProviderCall(p) /\ Kind[worker[p].t] # "token" /\ Leads(p, "poll")
                       \/ Poll(p) /\ up[worker[p].job] = "done" /\ Leads(p, "succeeded")
                       \/ /\ CallFails(p) \/ BeginProviderCreate(p) \/ Post(p) \/ SaveProviderCall(p) \/ Poll(p)
                          /\ Leads(p, "error")
                 E4 == \/ /\ HandleError(p) /\ task[worker[p].t].status = "cancelled"
                          /\ (Leads(p, "schedule") \/ Leads(p, "markunc"))
                       \/ HandleError(p) /\ task[worker[p].t].status # "cancelled" /\ Leads(p, "final")
                       \/ ScheduleReconciliation(p) /\ task[worker[p].t].status = "cancelled" /\ Leads(p, "markunc")
                       \/ ReadLatest(p) /\ task[worker[p].t].status # "cancelled" /\ Leads(p, "persist")
                       \/ /\ ReadLatest(p) /\ task[worker[p].t].status = "cancelled"
                          /\ (Leads(p, "saveres") \/ Leads(p, "claimres"))
                 E5 == \/ ClaimCancelledTaskResult(p) /\ Leads(p, "markunc")
                       \/ SaveCancelledTaskResult(p) /\ Leads(p, "markunc")
                       \/ UpdateTaskProgress90(p) /\ RunningLease(p) /\ Leads(p, "complete")
                       \/ FinalizeSucceeded(p) /\ RunningLease(p) /\ CompletedBillingOK(p) /\ Leads(p, "settle")
                       \/ FinalizeSucceeded(p) /\ Leads(p, "final")
      <2>1. E1 \/ E2 \/ E3 \/ E4 \/ E5
          BY <1>2, <1>5 DEF Edge
      <2>2. ASSUME E1 PROVE worker'[p].pc # worker[p].pc
          BY <2>2, Positions
      <2>3. ASSUME E2 PROVE worker'[p].pc # worker[p].pc
          BY <2>3, <1>3, Positions
      <2>4. ASSUME E3 PROVE worker'[p].pc # worker[p].pc
          BY <2>4, <1>3, Positions
      <2>5. ASSUME E4 PROVE worker'[p].pc # worker[p].pc
          BY <2>5, <1>3, Positions
      <2>6. ASSUME E5 PROVE worker'[p].pc # worker[p].pc
          BY <2>6, <1>3, Positions
      <2> QED BY <1>1, <2>1, <2>2, <2>3, <2>4, <2>5, <2>6
  <1> QED BY <1>1, <1>4, <1>5

\* Of the row, the order and the job of a running task, a worker of another
\* task or a request moves nothing that matters.
LEMMA PathKept ==
    ASSUME TypeInv, LeaseInv, Attempts, [Next]_vars, OnceInv, LiveInv, Resolutions = {},
           NEW p \in Workers, worker[p].pc # "idle",
           task'[worker[p].t].status = "running", order'[task'[worker[p].t].order].status \in OpenBilling
    PROVE  LET k == task[worker[p].t] IN
           /\ Runs(p) /\ k.order \in Orders /\ HoldsLease(p) /\ ~worker[p].lost
           /\ task'[worker[p].t].order = k.order
           /\ task'[worker[p].t].prov = k.prov \/ SaveProviderCall(p)
           /\ order'[k.order] = order[k.order] \/ WorkerStep(p)
           /\ IdleJob(k.order) => up'[k.order] \in {"none", "failed"} \/ Post(p)
  <1> DEFINE t == worker[p].t
             k == task[t]
             n == task'[t]
             o == k.order
  <1>1. /\ t \in Tasks /\ k \in TaskRow /\ k.status = "running"
        /\ HoldsLease(p) /\ ~worker[p].lost /\ ~k.expired
      BY WasRunning, WorkerFacts
  <1>2. n.order = o /\ o \in Orders /\ order[o].status # "unused" /\ order[o].task = t
      BY <1>1, RowOnce, InUse DEF OneWay
  <1>3. order'[o].status \in OpenBilling
      BY <1>2
  <1>4. order[o].status \in OpenBilling
      BY <1>2, <1>3, ClosedStays, NoneAssumption, <1>1 DEF Closed
  <1>5. ASSUME NEW q \in Workers, worker[q].pc # "idle", worker[q].t = t, HoldsLease(q) PROVE q = p
      BY <1>1, <1>5, OneHolder
  <1>6. ASSUME NEW q \in Workers, worker[q].pc \notin {"idle", "claimed"}, worker[q].ord = o PROVE q = p
      <2>1. worker[q].t = t
          BY <1>1, <1>6, SameTask
      <2>2. HoldsLease(q)
          BY <1>1, <1>6, <2>1 DEF LiveInv, Live
      <2> QED BY <1>5, <1>6, <2>1, <2>2
  <1>7. order'[o] = order[o] \/ WorkerStep(p)
      <2>1. ASSUME NEW q \in Workers, worker[q].pc \notin {"idle", "claimed"}, worker[q].ord = o, ByWorker(q, o)
            PROVE  WorkerStep(p)
          <3>1. q = p
              BY <1>6, <2>1
          <3> QED BY <2>1, <3>1 DEF ByWorker, WorkerStep
      <2>2. ASSUME NEW c \in Clients, client[c].pc # "idle", client[c].ord = o, ByRequest(c, o) PROVE FALSE
          <3>1. client[c].t = t
              BY <1>1, <2>2, SameRequest
          <3>2. client[c].pc \in {"refund", "markunc"}
              BY <2>2 DEF ByRequest, CancelRefund, CancelMarkUncertain
          <3> QED BY <1>1, <3>1, <3>2 DEF OnceInv
      <2>3. ~ByReview(o) /\ ~Taken(o)
          BY <1>2, <1>3 DEF ByReview, Taken, Sets, OpenBilling
      <2> QED BY <1>2, <2>1, <2>2, <2>3, Charges
  <1>8. n.prov = k.prov \/ SaveProviderCall(p)
      <2>1. RunsOn(t)
          BY <1>1, RunningRow
      <2>2. \A q \in Workers : ~ClaimTask(q, t)
          BY <1>1 DEF ClaimTask, Claimable
      <2>3. ASSUME NEW q \in Workers, worker[q].t = t, SaveProviderCall(q), SavesRunning(q) PROVE SaveProviderCall(p)
          <3>1. q = p
              BY <1>5, <2>3 DEF SaveProviderCall, At, SavesRunning, RunningLease
          <3> QED BY <2>3, <3>1
      <2>4. n = [k EXCEPT !.expired = FALSE] => n.prov = k.prov
          BY <1>1 DEF TaskRow
      <2>5. ~LeaseExpires(t)
          <3>1. Held(t) /\ ~(left["stall"] > 0)
              BY <1>1 DEF Held, LiveInv
          <3> QED BY <3>1 DEF LeaseExpires
      <2> QED BY <2>1, <2>2, <2>3, <2>4, <2>5 DEF RunsOn
  <1>9. IdleJob(o) => up'[o] \in {"none", "failed"} \/ Post(p)
      <2>1. ASSUME NEW q \in Workers, Post(q), worker[q].ord = o PROVE Post(p)
          <3>1. q = p
              BY <1>6, <2>1 DEF Post, At
          <3> QED BY <2>1, <3>1
      <2> QED BY <1>2, <2>1, UpSteps DEF UpMoves, IdleJob
  <1> QED BY <1>1, <1>2, <1>4, <1>7, <1>8, <1>9 DEF Runs, Closed

----------------------------------------------------------------------------
(* The worker is not the one that acts *)

LEMMA PathStays ==
    ASSUME TypeInv, LeaseInv, Attempts, [Next]_vars, OnceInv, LiveInv, Resolutions = {}, "renew" \notin Faults,
           PathInv, NEW p \in Workers, worker[p].pc # "idle", worker'[p].pc # "idle", ~WorkerStep(p),
           task'[worker[p].t].status = "running", order'[task'[worker[p].t].order].status \in OpenBilling
    PROVE  OnPath(p)'
  <1> DEFINE w == worker[p]
             t == w.t
             k == task[t]
             o == k.order
  <1>1. /\ Runs(p) /\ task'[t].order = o /\ task'[t].prov = k.prov /\ order'[o] = order[o]
        /\ IdleJob(o) => up'[o] \in {"none", "failed"}
        /\ HoldsLease(p)
      BY PathKept DEF WorkerStep
  <1>2. worker'[p] = w
      <2>1. ASSUME RenewTaskLease(p) PROVE worker'[p] = w
          BY <1>1, <2>1 DEF RenewTaskLease, Runs
      <2>2. k.status # "cancelled"
          BY <1>1 DEF Runs
      <2> QED BY <2>1, <2>2, IdlePC, Workings DEF Worked, At
  <1>3. OnPath(p)
      BY <1>1 DEF PathInv
  <1>4. t \in log => t \in log'
      BY LogGrows
  <1> QED BY <1>1, <1>2, <1>3, <1>4 DEF OnPath, IdleJob, Known

LEMMA PathClaim ==
    ASSUME TypeInv, Attempts, [Next]_vars, OnceInv, LiveInv, PlaceInv, QueuedInv, KeptInv,
           NEW p \in Workers, NEW t \in Tasks, ClaimTask(p, t), worker'[p].t = t, worker'[p].pc = "claimed",
           task'[t].status = "running", order'[task'[t].order].status \in OpenBilling
    PROVE  OnPath(p)'
  <1> DEFINE k == task[t]
  <1>1. k.status # "absent" /\ Claimable(k) /\ UNCHANGED <<order, up, log>>
      BY DEF ClaimTask, Claimable
  <1>2. OneWay(k, task'[t])
      BY <1>1, RowOnce
  <1>3. task'[t].order = k.order /\ order[k.order].status \in OpenBilling /\ k.status # "cancelled"
      BY <1>1, <1>2 DEF OneWay
  <1>4. k.status = "queued"
      <2> SUFFICES ASSUME k.status = "running" /\ k.expired PROVE FALSE
          BY <1>1, <1>3 DEF Claimable
      <2>1. \E q \in Workers : worker[q].pc # "idle" /\ worker[q].t = t
          BY <1>3 DEF KeptInv, Closed
      <2> QED BY <2>1 DEF LiveInv, Live
  <1>5. order[k.order].status = "reserved" /\ k.prov = None
      BY <1>4 DEF QueuedInv, NoJob
  <1>6. task'[t].prov = k.prov
      <2> DEFINE n == [k EXCEPT !.status = IF k.status = "cancelled" THEN k.status ELSE "running",
                               !.owner = Proc[p], !.expired = FALSE, !.gen = k.gen + 1]
      <2>1. k \in TaskRow
          BY Parts DEF TaskOK
      <2>2. task' = [task EXCEPT ![t] = n]
          BY <2>1, Parts DEF ClaimTask, TaskOK
      <2>3. n.prov = k.prov
          BY <2>1 DEF TaskRow
      <2> HIDE DEF n
      <2>4. task'[t] = n
          BY <2>2, WriteRow
      <2> QED BY <2>3, <2>4
  <1>7. ~worker'[p].ctx
      <2>1. worker'[p].ctx = worker[p].ctx /\ worker[p].pc = "idle"
          BY ClaimKeeps
      <2>2. ~worker[p].ctx
          BY <2>1 DEF PlaceInv
      <2> QED BY <2>1, <2>2
  <1>8. order'[task'[t].order].status = "reserved" /\ task'[t].prov = None
      BY <1>1, <1>3, <1>5, <1>6
  <1> QED BY <1>7, <1>8 DEF OnPath, Early

\* What stays when a worker of a running task steps without returning.
LEMMA PathStepBase ==
    ASSUME TypeInv, LeaseInv, Attempts, [Next]_vars, OnceInv, LiveInv, Resolutions = {}, PathInv,
           NEW p \in Workers, WorkerStep(p), worker'[p].pc # "idle",
           task'[worker[p].t].status = "running", order'[task'[worker[p].t].order].status \in OpenBilling
    PROVE  LET w == worker[p]
               k == task[w.t] IN
           /\ OnPath(p) /\ Reaches(p) /\ ~worker'[p].ctx /\ worker'[p].pc # "claimed"
           /\ worker'[p].t = w.t
           /\ worker'[p].prov = None
           /\ w.pc # "claimed" => w.ord = k.order /\ w.prov = None
  <1> DEFINE w == worker[p]
             x == worker'[p]
  <1>1. Runs(p)
      BY StepChanges, PathKept
  <1>2. OnPath(p)
      BY <1>1 DEF PathInv
  <1>3. x.pc \notin {"idle", "claimed"} /\ x.pc # w.pc /\ w.pc # "idle"
      BY StepsOn, StepChanges, IdlePC
  <1>4. Reaches(p)
      BY <1>3, Moving
  <1>5. x.ctx = w.ctx
      <2>1. x # IdleWorker
          BY <1>3, IdlePC
      <2>2. Flagged(p)
          BY <2>1, Edges DEF Edge, Leads
      <2> QED BY <2>2 DEF Flagged
  <1>6. ~x.ctx
      BY <1>2, <1>5 DEF OnPath
  <1>7. w.pc # "claimed" => w.ord = task[w.t].order /\ w.prov = None
      BY <1>2, <1>3, OwnOrder DEF OnPath
  <1>8. x.t = w.t /\ (Recalls(p) \/ Learns(p))
      BY <1>3, WorkerProv
  <1>9. x.prov = None
      <2>1. CASE Recalls(p)
          BY <1>7, <2>1 DEF Recalls
      <2>2. CASE Learns(p)
          BY <1>2, <2>2 DEF Learns, OnPath, Early
      <2> QED BY <1>8, <2>1, <2>2
  <1> QED BY <1>2, <1>3, <1>4, <1>6, <1>7, <1>8, <1>9

----------------------------------------------------------------------------
(* The worker acts *)

LEMMA PathEarly ==
    ASSUME TypeInv, LeaseInv, Attempts, [Next]_vars, OnceInv, LiveInv, Resolutions = {}, PathInv,
           NEW p \in Workers, WorkerStep(p), worker'[p].pc \in Early,
           task'[worker[p].t].status = "running", order'[task'[worker[p].t].order].status \in OpenBilling
    PROVE  LET n == task'[worker[p].t] IN order'[n.order].status = "reserved" /\ n.prov = None
  <1> DEFINE w == worker[p]
             k == task[w.t]
  <1>1. OnPath(p) /\ Reaches(p) /\ worker'[p].pc # "claimed"
      BY PathStepBase DEF Early
  <1>2. Reread(p) \/ VerifyEnvelope(p) \/ UpdateTaskProgress(p) \/ ReadBilling(p)
      BY <1>1 DEF Reaches, Early
  <1>3. w.pc \in Early
      BY <1>2, Positions DEF Early
  <1>4. order[k.order].status = "reserved" /\ k.prov = None
      BY <1>1, <1>3 DEF OnPath
  <1>5. ~SaveProviderCall(p) /\ w.pc # "idle"
      BY <1>3, Positions DEF Early
  <1>6. task'[w.t].order = k.order /\ task'[w.t].prov = k.prov
      BY <1>5, PathKept
  <1>7. UNCHANGED order
      BY <1>2 DEF Reread, VerifyEnvelope, UpdateTaskProgress, ReadBilling
  <1> QED BY <1>4, <1>6, <1>7

LEMMA PathPoll ==
    ASSUME TypeInv, LeaseInv, Attempts, [Next]_vars, OnceInv, LiveInv, Resolutions = {}, PathInv,
           NEW p \in Workers, WorkerStep(p), worker'[p].pc = "poll",
           task'[worker[p].t].status = "running", order'[task'[worker[p].t].order].status \in OpenBilling
    PROVE  worker[p].t \in log'
  <1> DEFINE w == worker[p]
  <1>1. Reaches(p) /\ (w.pc # "claimed" => w.prov = None)
      BY PathStepBase
  <1>2. ResumeJob(p) \/ SaveProviderCall(p)
      BY <1>1 DEF Reaches
  <1>3. ~ResumeJob(p)
      BY <1>1 DEF ResumeJob, At
  <1>4. SaveProviderCall(p)
      BY <1>2, <1>3
  <1>5. \A e : Fail(p, e) => worker'[p].pc = "error"
      BY FailSet, Parts
  <1> QED BY <1>4, <1>5 DEF SaveProviderCall

\* The errors that would refund the charge come before the provider accepts,
\* or are known not to.
LEMMA PathError ==
    ASSUME TypeInv, LeaseInv, Attempts, [Next]_vars, OnceInv, LiveInv, Resolutions = {}, "slot" \notin Faults,
           UnsentInv, PathInv,
           NEW p \in Workers, WorkerStep(p), worker'[p].pc = "error",
           task'[worker[p].t].status = "running", order'[task'[worker[p].t].order].status \in OpenBilling
    PROVE  LET t == worker[p].t
               n == task'[t]
               e == worker'[p].err IN
           /\ e \in {"definite", "ambiguous", "persist"}
           /\ e = "definite" => \/ up'[n.order] \in {"none", "failed"}
                                \/ n.prov # None \/ t \in log'
                                \/ order'[n.order].status = "uncertain"
  <1> DEFINE w == worker[p]
             t == w.t
             k == task[t]
             n == task'[t]
             o == k.order
             e == worker'[p].err
             Goal == /\ e \in {"definite", "ambiguous", "persist"}
                     /\ e = "definite" => \/ up'[n.order] \in {"none", "failed"}
                                          \/ n.prov # None \/ t \in log'
                                          \/ order'[n.order].status = "uncertain"
  <1>1. OnPath(p) /\ Reaches(p) /\ (w.pc # "claimed" => w.ord = o /\ w.prov = None)
      BY PathStepBase
  <1>2. n.order = o /\ (n.prov = k.prov \/ SaveProviderCall(p)) /\ Runs(p) /\ o \in Orders
      BY StepChanges, PathKept
  <1>3. ~w.ctx
      BY <1>1 DEF OnPath
  <1>4. \A a : Fail(p, a) => e = a
      BY FailSet, Parts
  <1>5. \A a : Goto(p, a) => a = "error"
      BY GotoSet, Parts
  <1>6. ASSUME CallFails(p) PROVE Goal
      <2>1. w.pc = "call"
          BY <1>6, Positions
      <2>2. Unsent(w) /\ w.ord = o
          BY <1>1, <2>1 DEF Unsent
      <2>3. up[o] = "none"
          BY <2>2 DEF UnsentInv
      <2>4. e = "definite" /\ UNCHANGED up
          BY <1>3, <1>4, <1>6 DEF CallFails
      <2> QED BY <1>2, <2>3, <2>4
  <1>7. ASSUME BeginProviderCreate(p) PROVE Goal
      <2>1. e = "ambiguous"
          BY <1>4, <1>5, <1>7 DEF BeginProviderCreate
      <2> QED BY <2>1
  <1>8. ASSUME Post(p) PROVE Goal
      <2>1. w.pc = "post"
          BY <1>8, Positions
      <2>2. Unsent(w) /\ w.ord = o
          BY <1>1, <2>1 DEF Unsent
      <2>3. up[o] = "none"
          BY <2>2 DEF UnsentInv
      <2>4. worker' # [worker EXCEPT ![p].pc = "save", ![p].job = w.ord]
          BY Parts DEF WorkerOK, WorkerState
      <2>5. e = "ambiguous" \/ (e = "definite" /\ UNCHANGED up)
          BY <1>3, <1>4, <1>8, <2>4 DEF Post
      <2> QED BY <1>2, <2>3, <2>5
  <1>9. ASSUME SaveProviderCall(p) PROVE Goal
      <2> DEFINE fenced == Kind[w.t] = "fenced"
                 saved == fenced => SavesRunning(p) \/ SavesCancelled(p)
                 j == IF fenced /\ saved THEN w.job ELSE MarkedUncertain(o)[o].prov
      <2>1. w.pc = "save"
          BY <1>9, Positions
      <2>2. w.ord = o
          BY <1>1, <2>1
      <2>3. ~Goto(p, "succeeded") /\ ~Goto(p, "poll")
          BY <1>5
      <2>4. Fail(p, IF fenced THEN "ambiguous" ELSE "definite")
            /\ order' = [MarkedUncertain(o) EXCEPT ![o].prov = j]
          BY <1>9, <2>2, <2>3 DEF SaveProviderCall
      <2>5. e = IF fenced THEN "ambiguous" ELSE "definite"
          BY <1>4, <2>4
      <2> HIDE DEF j
      <2>6. order[o].status \in OpenBilling
          BY <1>2 DEF Runs, Closed
      <2>7. order'[o].status = "uncertain"
          BY <1>2, <2>4, <2>6, Parts DEF MarkedUncertain, SetBilling, OrderOK, OrderRow
      <2> QED BY <1>2, <2>5, <2>7
  <1>10. ASSUME Poll(p) PROVE Goal
      <2>1. w.pc = "poll" /\ ~SaveProviderCall(p)
          BY <1>10, Positions
      <2>2. Known(t)
          BY <1>1, <2>1 DEF OnPath
      <2>3. t \in log'\/ n.prov # None
          BY <1>2, <2>1, <2>2, LogGrows DEF Known
      <2>4. e \in {"definite", "ambiguous", "persist"}
          BY <1>3, <1>4, <1>5, <1>10 DEF Poll
      <2> QED BY <2>3, <2>4
  <1> QED BY <1>1, <1>6, <1>7, <1>8, <1>9, <1>10 DEF Reaches

LEMMA PathFinal ==
    ASSUME TypeInv, LeaseInv, Attempts, [Next]_vars, OnceInv, LiveInv, Resolutions = {}, PathInv,
           NEW p \in Workers, WorkerStep(p), worker'[p].pc = "final",
           task'[worker[p].t].status = "running", order'[task'[worker[p].t].order].status \in OpenBilling
    PROVE  LET n == task'[worker[p].t]
               e == worker'[p].err IN
           /\ e \in {"refund", "uncertain"}
           /\ e = "refund" => up'[n.order] \in {"none", "failed"} /\ order'[n.order].status # "uncertain"
  <1> DEFINE w == worker[p]
             t == w.t
             k == task[t]
             n == task'[t]
             o == k.order
             e == worker'[p].err
             Goal == /\ e \in {"refund", "uncertain"}
                     /\ e = "refund" => up'[n.order] \in {"none", "failed"} /\ order'[n.order].status # "uncertain"
  <1>1. OnPath(p) /\ Reaches(p) /\ (w.pc # "claimed" => w.ord = o /\ w.prov = None)
      BY PathStepBase
  <1>2. n.order = o /\ Runs(p) /\ o \in Orders /\ ~w.lost
      BY StepChanges, PathKept
  <1>3. \A a : worker' = [worker EXCEPT ![p].pc = "final", ![p].err = a] => e = a
      BY ErrSet, Parts
  <1>4. ASSUME HandleError(p) PROVE Goal
      <2>1. w.pc = "error"
          BY <1>4, Positions
      <2>2. w.err \in {"definite", "ambiguous", "persist"} /\ w.ord = o
          BY <1>1, <2>1 DEF OnPath
      <2>3. k.status = "running"
          BY <1>2 DEF Runs
      <2>4. UNCHANGED <<order, up>>
          BY <1>4 DEF HandleError
      <2>5. worker' = [worker EXCEPT ![p].pc = "final", ![p].err = IF RequiresReview(p) THEN "uncertain" ELSE "refund"]
          BY <1>2, <1>4, <2>2, <2>3 DEF HandleError
      <2>6. e = IF RequiresReview(p) THEN "uncertain" ELSE "refund"
          BY <1>3, <2>5
      <2>7. ASSUME ~RequiresReview(p) PROVE IdleJob(o) /\ order[o].status # "uncertain"
          <3>1. w.err = "definite" /\ ~Known(t) /\ order[o].status # "uncertain"
              BY <2>2, <2>7 DEF RequiresReview, Known
          <3> QED BY <1>1, <2>1, <3>1 DEF OnPath
      <2> QED BY <1>2, <2>4, <2>6, <2>7 DEF IdleJob
  <1>5. ASSUME StartBilling(p), ~Startable(p) PROVE FALSE
      <2>1. w.pc = "startbill"
          BY <1>5, Positions
      <2>2. order[w.ord].status = "reserved"
          BY <1>1, <2>1 DEF OnPath, Early
      <2> QED BY <1>5, <2>2 DEF Startable
  <1>6. ASSUME FinalizeSucceeded(p) PROVE Goal
      <2>1. ~Goto(p, "settle")
          BY GotoSet, Parts
      <2>2. worker' = [worker EXCEPT ![p].pc = "final", ![p].err = "uncertain"]
          BY <1>6, <2>1 DEF FinalizeSucceeded
      <2>3. e = "uncertain"
          BY <1>3, <2>2
      <2> QED BY <2>3
  <1> QED BY <1>1, <1>4, <1>5, <1>6 DEF Reaches

----------------------------------------------------------------------------
(* Every step keeps to the path *)

LEMMA PathStep ==
    ASSUME TypeInv, LeaseInv, Attempts, [Next]_vars, OnceInv, LiveInv, Resolutions = {},
           "renew" \notin Faults, "slot" \notin Faults,
           PlaceInv, QueuedInv, KeptInv, UnsentInv, PathInv
    PROVE  PathInv'
  <1> SUFFICES ASSUME NEW p \in Workers, worker'[p].pc # "idle", task'[worker'[p].t].status = "running",
                      order'[task'[worker'[p].t].order].status \in OpenBilling
               PROVE  OnPath(p)'
      BY DEF PathInv, Runs, Closed
  <1>1. ASSUME NEW t \in Tasks, ClaimTask(p, t), worker'[p].t = t, worker'[p].pc = "claimed" PROVE OnPath(p)'
      BY <1>1, PathClaim
  <1>2. ASSUME worker[p].pc # "idle", worker'[p].t = worker[p].t, ~WorkerStep(p) PROVE OnPath(p)'
      BY <1>2, PathStays
  <1>3. ASSUME worker[p].pc # "idle", worker'[p].t = worker[p].t, WorkerStep(p) PROVE OnPath(p)'
      <2> DEFINE x == worker'[p]
                 n == task'[x.t]
      <2>1. ~x.ctx
          BY <1>3, PathStepBase
      <2>2. x.prov = None
          BY <1>3, PathStepBase
      <2>3. x.pc \in Early => order'[n.order].status = "reserved" /\ n.prov = None
          BY <1>3, PathEarly
      <2>4. x.pc = "poll" => x.t \in log'
          BY <1>3, PathPoll
      <2>5. x.pc = "error" => /\ x.err \in {"definite", "ambiguous", "persist"}
                              /\ x.err = "definite" => \/ up'[n.order] \in {"none", "failed"}
                                                       \/ n.prov # None \/ x.t \in log'
                                                       \/ order'[n.order].status = "uncertain"
          BY <1>3, PathError
      <2>6. x.pc = "final" => /\ x.err \in {"refund", "uncertain"}
                              /\ x.err = "refund" => /\ up'[n.order] \in {"none", "failed"}
                                                     /\ order'[n.order].status # "uncertain"
          BY <1>3, PathFinal
      <2> QED BY <2>1, <2>2, <2>3, <2>4, <2>5, <2>6 DEF OnPath, IdleJob, Known
  <1> QED BY <1>1, <1>2, <1>3, BusyBefore

\* A worker becomes idle by a step of its own or by a crash.
LEMMA Quitting ==
    ASSUME TypeInv, Attempts, [Next]_vars, NEW p \in Workers, worker[p].pc # "idle", worker'[p].pc = "idle"
    PROVE  WorkerStep(p) \/ \E x \in Crashable : Crash(x)
  <1> DEFINE Goal == WorkerStep(p) \/ \E x \in Crashable : Crash(x)
  <1>1. CASE UNCHANGED worker
      BY <1>1
  <1>2. ASSUME NEW q \in Workers, WorkerStep(q) PROVE Goal
      BY <1>2, OneWorks
  <1>3. ASSUME NEW q \in Workers, ClaimNextTask(q) PROVE Goal
      <2> PICK t \in Tasks : ClaimTask(q, t)
          BY <1>3 DEF ClaimNextTask
      <2>1. worker'[p] = worker[p]
          BY ClaimKeeps
      <2> QED BY <2>1
  <1>4. ASSUME NEW q \in Workers, RenewTaskLease(q) PROVE Goal
      <2>1. UNCHANGED worker \/ worker' = [worker EXCEPT ![q].lost = TRUE, ![q].ctx = TRUE]
          BY <1>4 DEF RenewTaskLease
      <2>2. CASE worker' = [worker EXCEPT ![q].lost = TRUE, ![q].ctx = TRUE]
          <3>1. worker'[p].pc = worker[p].pc
              BY <2>2, Parts DEF WorkerOK, WorkerState
          <3> QED BY <3>1
      <2> QED BY <1>1, <2>1, <2>2
  <1>5. ASSUME NEW c \in Clients, NEW t \in Tasks, CancelActiveTask(c, t) PROVE Goal
      <2>1. CASE \E q \in Workers : worker' = [worker EXCEPT ![q].ctx = TRUE]
          <3> PICK q \in Workers : worker' = [worker EXCEPT ![q].ctx = TRUE]
              BY <2>1
          <3>1. worker'[p].pc = worker[p].pc
              BY Parts DEF WorkerOK, WorkerState
          <3> QED BY <3>1
      <2> QED BY <1>1, <1>5, <2>1 DEF CancelActiveTask
  <1>6. ASSUME NEW c \in Clients, ClientStep(c) PROVE Goal
      <2>1. CASE CancelReread(c) /\ ~UNCHANGED worker
          <3>1. CancelActiveTask(c, client[c].t) /\ client[c].pc # "idle"
              BY <2>1 DEF CancelReread
          <3> QED BY <1>5, <3>1, ClientFacts
      <2>2. CASE ~CancelReread(c)
          BY <1>1, <1>6, <2>2 DEF ClientStep, CancelTaskIfQueued, CancelTaskIfRunning, CancelRefund,
             CancelMarkUncertain, RetryTaskWithBilling, ResumeTaskWithUncertainBilling
      <2> QED BY <1>1, <2>1, <2>2
  <1>7. ASSUME NEW c \in Clients, NEW t \in Tasks, CancelTask(c, t) PROVE Goal
      <2>1. UNCHANGED worker \/ CancelActiveTask(c, t)
          BY <1>7 DEF CancelTask
      <2> QED BY <1>1, <1>5, <2>1
  <1>8. CASE \/ \E t \in Tasks : CreateTask(t) \/ LeaseExpires(t)
             \/ \E c \in Clients, t \in Tasks : RetryTask(c, t)
             \/ \E o \in Orders : ResolveBillingOrder(o) \/ ReconcileBillingOrder(o) \/ ProviderFinishes(o)
             \/ UNCHANGED vars
      <2>1. UNCHANGED worker
          BY <1>8 DEF CreateTask, LeaseExpires, RetryTask, ResolveBillingOrder,
             ReconcileBillingOrder, ProviderFinishes, vars
      <2> QED BY <1>1, <2>1
  <1> QED BY <1>2, <1>3, <1>4, <1>6, <1>7, <1>8 DEF Next

----------------------------------------------------------------------------
(* An open charge has a worker *)

LEMMA RunningFrom ==
    ASSUME TypeInv, Attempts, [Next]_vars, OnceInv, NEW t \in Tasks, task'[t].status = "running"
    PROVE  task[t].status = "running" \/ \E p \in Workers : ClaimTask(p, t)
  <1>1. CASE Stands(t)
      BY <1>1 DEF Stands, Still
  <1>2. ~Created(t)
      BY DEF Created, Reserves
  <1>3. \A p \in Workers : Claimed(p, t) => ClaimTask(p, t)
      BY DEF Claimed
  <1>4. WorkerTurns(t) => task[t].status = "running"
      <2>1. \A p \in Workers : ~Rejected(p, t) /\ ~Failed(p, t) /\ ~Succeeded(p, t)
          BY DEF Rejected, Failed, Succeeded, Turns
      <2>2. \A p \in Workers : Recorded(p, t) => task[t].status = "running"
          BY DEF Recorded, Turns
      <2> QED BY <2>1, <2>2 DEF WorkerTurns
  <1>5. ~ClientTurns(t)
      <2>1. \A c \in Clients : ~CancelledBy(c, t)
          BY DEF CancelledBy, Turns
      <2>2. \A c \in Clients : client[c].pc # "idle" => ~Retried(c, t) /\ ~Resumed(c, t)
          BY DEF Retried, Resumed, OnceInv, RetryTaskWithBilling, ResumeTaskWithUncertainBilling
      <2> QED BY <2>1, <2>2 DEF ClientTurns
  <1> QED BY <1>1, <1>2, <1>3, <1>4, <1>5, RowTurns

\* While a task runs with an open order its worker does not return.
LEMMA StaysOn ==
    ASSUME TypeInv, LeaseInv, Attempts, [Next]_vars, OnceInv, LiveInv, Resolutions = {}, PathInv,
           NEW p \in Workers, WorkerStep(p),
           task'[worker[p].t].status = "running", order'[task'[worker[p].t].order].status \in OpenBilling
    PROVE  worker'[p].pc # "idle"
  <1> SUFFICES ASSUME worker'[p].pc = "idle" PROVE FALSE
      OBVIOUS
  <1> DEFINE w == worker[p]
             t == w.t
             k == task[t]
             o == k.order
  <1>1. w.pc # "idle"
      BY StepChanges
  <1>2. Runs(p) /\ HoldsLease(p) /\ ~w.lost
      BY <1>1, PathKept
  <1>3. OnPath(p) /\ k.status = "running" /\ order[o].status \in OpenBilling /\ RunningLease(p) /\ t \in Tasks
      BY <1>1, <1>2, WorkerFacts DEF PathInv, Runs, Closed, RunningLease
  <1>4. w.pc # "claimed" => w.ord = o /\ ~w.rec /\ w.pc \notin Ended /\ w.pc # "settle"
      BY <1>1, <1>3, OwnOrder DEF OnceInv
  <1>5. \A pc : Goto(p, pc) => pc = "idle"
      BY GotoSet, Parts
  <1>6. \A e : ~Fail(p, e)
      BY FailSet, Parts
  <1>7. ~Reread(p)
      <2>1. worker' # [worker EXCEPT ![p].pc = "verify", ![p].ord = k.order, ![p].prov = k.prov,
                                     ![p].stage = k.stage, ![p].rec = (k.status = "cancelled")]
          BY Parts DEF WorkerOK, WorkerState
      <2> QED BY <1>2, <2>1 DEF Reread
  <1>8. ~VerifyEnvelope(p)
      <2> SUFFICES ASSUME VerifyEnvelope(p) PROVE FALSE
          OBVIOUS
      <2>1. ~Goto(p, IF w.rec THEN "call" ELSE "progress")
          BY <1>5
      <2> DEFINE n == [Unlease(k) EXCEPT !.status = "failed"]
      <2>2. k \in TaskRow
          BY <1>3, Parts DEF TaskOK
      <2>3. n.status = "failed"
          BY <2>2 DEF Unlease, TaskRow
      <2>4. task' = [task EXCEPT ![t] = n]
          BY <1>3, <2>1, Parts DEF VerifyEnvelope, TaskOK
      <2> HIDE DEF n
      <2>5. task'[t] = n
          BY <1>3, <2>4, WriteRow
      <2> QED BY <2>3, <2>5
  <1>9. ~UpdateTaskProgress(p) /\ ~UpdateTaskProgress90(p)
      BY <1>3, <1>5 DEF UpdateTaskProgress, UpdateTaskProgress90
  <1>10. ~ReadBilling(p)
      BY <1>5 DEF ReadBilling
  <1>11. ~StartBilling(p) /\ ~Post(p)
      BY LeavesStart, LeavesPost
  <1>12. ~CallFails(p) /\ ~ResumeJob(p)
      <2>1. worker' # [worker EXCEPT ![p].pc = "poll", ![p].job = w.prov]
          BY Parts DEF WorkerOK, WorkerState
      <2> QED BY <1>6, <2>1 DEF CallFails, ResumeJob
  <1>13. ~BeginProviderCreate(p)
      BY <1>5, <1>6 DEF BeginProviderCreate
  <1>14. ~SaveProviderCall(p)
      BY <1>5, <1>6 DEF SaveProviderCall
  <1>15. ~Poll(p)
      BY <1>5, <1>6 DEF Poll
  <1>16. ~HandleError(p)
      <2> SUFFICES ASSUME HandleError(p) PROVE FALSE
          OBVIOUS
      <2>1. w.pc = "error"
          BY Positions
      <2>2. w.err # "canceled"
          BY <1>3, <2>1 DEF OnPath
      <2>3. \A e : worker' # [worker EXCEPT ![p].pc = "final", ![p].err = e]
          BY ErrSet, Parts
      <2> QED BY <1>2, <1>3, <2>2, <2>3 DEF HandleError
  <1>17. /\ ~ScheduleReconciliation(p) /\ ~WorkerMarkUncertain(p)
         /\ ~ClaimCancelledTaskResult(p) /\ ~SaveCancelledTaskResult(p)
      BY <1>4, Positions DEF Ended
  <1>18. ~FinalizeFailed(p)
      <2> SUFFICES ASSUME FinalizeFailed(p) PROVE FALSE
          OBVIOUS
      <2>1. w.pc = "final"
          BY Positions
      <2>2. w.err \in {"refund", "uncertain"} /\ (w.err = "refund" => order[o].status # "uncertain") /\ w.ord = o
          BY <1>3, <1>4, <2>1 DEF OnPath
      <2>3. FailedBillingOK(p)
          BY <1>3, <2>2 DEF FailedBillingOK, OpenBilling
      <2> DEFINE n == [Unlease(k) EXCEPT !.status = "failed", !.prov = w.prov, !.stage = w.stage]
      <2>4. k \in TaskRow
          BY <1>3, Parts DEF TaskOK
      <2>5. n.status = "failed"
          BY <2>4 DEF Unlease, TaskRow
      <2>6. task' = [task EXCEPT ![t] = n]
          BY <1>3, <2>3, Parts DEF FinalizeFailed, TaskOK
      <2> HIDE DEF n
      <2>7. task'[t] = n
          BY <1>3, <2>6, WriteRow
      <2> QED BY <2>5, <2>7
  <1>19. ~ReadLatest(p)
      BY <1>5 DEF ReadLatest
  <1>20. ~FinalizeSucceeded(p)
      <2>1. \A e : worker' # [worker EXCEPT ![p].pc = "final", ![p].err = e]
          BY ErrSet, Parts
      <2> QED BY <1>5, <2>1 DEF FinalizeSucceeded
  <1>21. ~SettleCompleted(p)
      BY <1>4, Positions
  <1> QED BY <1>7, <1>8, <1>9, <1>10, <1>11, <1>12, <1>13, <1>14, <1>15, <1>16, <1>17, <1>18,
             <1>19, <1>20, <1>21 DEF WorkerStep

LEMMA KeptStep ==
    ASSUME TypeInv, LeaseInv, Attempts, [Next]_vars, OnceInv, LiveInv, Resolutions = {}, left["crash"] = 0,
           KeptInv, PathInv
    PROVE  KeptInv'
  <1> SUFFICES ASSUME NEW t \in Tasks, task'[t].status = "running", order'[task'[t].order].status \in OpenBilling
               PROVE  \E p \in Workers : worker'[p].pc # "idle" /\ worker'[p].t = t
      BY DEF KeptInv, Closed
  <1>1. ASSUME NEW p \in Workers, ClaimTask(p, t) PROVE worker'[p].pc # "idle" /\ worker'[p].t = t
      BY <1>1, ClaimKeeps
  <1>2. CASE task[t].status = "running"
      <2>1. task[t].order \in Orders /\ task'[t].order = task[t].order /\ order[task[t].order].task = t
          BY <1>2, RowOnce, InUse DEF OneWay
      <2>2. order[task[t].order].status \in OpenBilling
          BY <2>1, ClosedStays, NoneAssumption DEF Closed
      <2>3. PICK p \in Workers : worker[p].pc # "idle" /\ worker[p].t = t
          BY <1>2, <2>2 DEF KeptInv, Closed
      <2>4. worker'[p].pc # "idle"
          <3>1. \A x \in Crashable : ~Crash(x)
              BY DEF Crash
          <3>2. WorkerStep(p) => worker'[p].pc # "idle"
              BY <2>3, StaysOn
          <3> QED BY <2>3, <3>1, <3>2, Quitting
      <2>5. worker'[p].t = t
          BY <2>3, <2>4, BusyBefore DEF ClaimTask, At
      <2> QED BY <2>4, <2>5
  <1> QED BY <1>1, <1>2, RunningFrom

----------------------------------------------------------------------------
(* Refunds *)

LEMMA NoGuessStep ==
    ASSUME TypeInv, Attempts, [Next]_vars, OnceInv, Resolutions = {}, ProvInv,
           UnsentInv, RefundIdle, PathInv, NoGuessedRefund
    PROVE  NoGuessedRefund'
  <1> SUFFICES ASSUME NEW o \in Orders, order'[o].status = "refunded"
               PROVE  up'[o] \in {"none", "failed"}
      BY DEF NoGuessedRefund
  <1>1. CASE order[o].status = "refunded"
      <2>1. up[o] \in {"none", "failed"}
          BY <1>1 DEF NoGuessedRefund
      <2>2. ASSUME NEW p \in Workers, Post(p), worker[p].ord = o PROVE FALSE
          <3>1. Unsent(worker[p])
              BY <2>2, Positions DEF Unsent
          <3> QED BY <1>1, <2>2, <3>1 DEF UnsentInv
      <2> QED BY <2>1, <2>2, UpSteps DEF UpMoves
  <1>2. CASE order[o].status # "refunded"
      <2>1. ASSUME NEW p \in Workers, worker[p].pc = "final", worker[p].ord = o, worker[p].err = "refund",
                   RunningLease(p), order[o].status \in {"reserved", "running"}
            PROVE  up[o] \in {"none", "failed"}
          <3>1. o = task[worker[p].t].order
              BY <2>1, OwnOrder
          <3>2. Runs(p)
              BY <2>1, <3>1 DEF Runs, RunningLease, Closed, OpenBilling
          <3> QED BY <2>1, <3>1, <3>2 DEF PathInv, OnPath, IdleJob
      <2>2. ASSUME NEW c \in Clients, client[c].pc = "refund", client[c].ord = o PROVE up[o] = "none"
          BY <2>2 DEF RefundIdle
      <2> QED BY <1>2, <2>1, <2>2, RefundedBy
  <1> QED BY <1>1, <1>2

GuessInv ==
    /\ OnceInv /\ LiveInv /\ PlaceInv /\ OneAttempt /\ left["crash"] = 0
    /\ QueuedInv /\ KeptInv /\ EarlyInv /\ UnsentInv /\ ReservedInv /\ RefundIdle
    /\ PathInv /\ ProvInv /\ NoGuessedRefund

LEMMA GuessInit ==
    ASSUME Init, Budget["stall"] = 0, Budget["retry"] = 0, Budget["crash"] = 0
    PROVE  GuessInv
  <1>1. OnceInv
      BY OnceInit
  <1>2. \A t \in Tasks : task[t].status = "absent"
      <2>1. AbsentTask.status = "absent"
          BY DEF AbsentTask
      <2> QED BY <2>1 DEF Init
  <1>3. \A p \in Workers : worker[p].pc = "idle" /\ ~worker[p].lost /\ ~worker[p].rec /\ ~worker[p].ctx
      BY IdleFlags, IdleCopy DEF Init
  <1>4. \A c \in Clients : client[c].pc = "idle"
      BY IdlePC DEF Init
  <1>5. left["stall"] = 0 /\ left["crash"] = 0
      BY DEF Init
  <1>6. \A o \in Orders : up[o] = "none" /\ order[o].prov = None /\ order[o].status = "unused"
      BY DEF Init, UnusedOrder
  <1>7. LiveInv /\ PlaceInv /\ OneAttempt
      BY <1>3, <1>5 DEF LiveInv, Live, PlaceInv, OneAttempt, Attempting
  <1>8. QueuedInv /\ KeptInv /\ RefundIdle
      BY <1>2, <1>4 DEF QueuedInv, KeptInv, RefundIdle
  <1>9. EarlyInv /\ UnsentInv /\ PathInv
      BY <1>3 DEF EarlyInv, Attempting, UnsentInv, Unsent, PathInv, Runs
  <1>10. ReservedInv /\ ProvInv /\ NoGuessedRefund
      BY <1>6 DEF ReservedInv, ProvInv, NoGuessedRefund
  <1> QED BY <1>1, <1>5, <1>7, <1>8, <1>9, <1>10 DEF GuessInv

LEMMA GuessStep ==
    ASSUME TypeInv, LeaseInv, Attempts, [Next]_vars, GuessInv, Resolutions = {},
           "renew" \notin Faults, "slot" \notin Faults
    PROVE  GuessInv'
  <1> USE DEF GuessInv
  <1>1. OnceInv' /\ LiveInv' /\ PlaceInv' /\ OneAttempt'
      BY OnceStep, LiveStep, PlaceStep, OneAttemptStep
  <1>2. left'["crash"] = 0
      BY LeftStays DEF Events
  <1>3. QueuedInv' /\ KeptInv' /\ EarlyInv'
      BY QueuedStep, KeptStep, EarlyStep
  <1>4. UnsentInv' /\ ReservedInv' /\ RefundIdle'
      BY UnsentStep, ReservedStep, RefundIdleStep
  <1>5. PathInv' /\ ProvInv'
      BY PathStep, ProvStep
  <1>6. NoGuessedRefund'
      BY NoGuessStep
  <1> QED BY <1>1, <1>2, <1>3, <1>4, <1>5, <1>6

\* Credits are given back only when the provider is not working for the task
\* and has produced nothing: when processClaimedTask refunds, the create
\* request was not accepted, and when a cancellation refunds, nothing was
\* sent.  For tasks that are not retried, workers that neither stall nor
\* crash, renewals that succeed and free channel slots: the attempt after one
\* that died past its create request, a slot failure while polling, and the
\* cancellation of a resumed task that is still queued, can refund a job that
\* is under way.
THEOREM RefundIsNoGuess ==
    ASSUME Budget["stall"] = 0, Budget["retry"] = 0, Budget["crash"] = 0, Resolutions = {},
           "renew" \notin Faults, "slot" \notin Faults
    PROVE  Spec => []NoGuessedRefund
  <1>1. Init => GuessInv
      BY GuessInit
  <1>2. GuessInv /\ TypeInv /\ LeaseInv /\ Attempts /\ [Next]_vars => GuessInv'
      BY GuessStep
  <1>3. GuessInv => NoGuessedRefund
      BY DEF GuessInv
  <1> QED BY <1>1, <1>2, <1>3, TypeInit, TypeStep, LeaseInit, LeaseStep, AttemptsInit, AttemptsStep, PTL DEF Spec
=============================================================================
