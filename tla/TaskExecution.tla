--------------------------- MODULE TaskExecution ---------------------------
(***************************************************************************)
(* The leased task queue of the backend and the billing order of every     *)
(* attempt: how a task is created, claimed, run against a provider,        *)
(* cancelled, retried, resumed and finalised, by workers and clients that  *)
(* share one database and may crash or stall between any two transactions. *)
(*                                                                         *)
(* One step is one database transaction, or one exchange with the          *)
(* provider, together with the local decisions that follow it.             *)
(*                                                                         *)
(* The random lease token written by each claim is represented by the      *)
(* generation the claim creates: a token is non-empty exactly while an     *)
(* owner is recorded, and no two claims of a task share a generation.      *)
(* A provider job is named by the billing order of the attempt that        *)
(* created it.  cancel_requested_at is set exactly when the status is      *)
(* "cancelled".  Credit balances are the subject of CreditLedger.          *)
(***************************************************************************)
EXTENDS Naturals, FiniteSets

CONSTANTS
    Tasks, Orders,     \* rows that may come to exist
    Workers, Clients,  \* worker slots; users' and administrators' requests
    Procs,             \* backend processes: the lease owners
    Proc,              \* the process of each worker and client
    Kind,              \* the provider protocol of each task
    Faults,            \* the failures this instance lets happen
    Crashable,         \* the processes that may crash
    Resolutions,       \* how administrators resolve orders by hand
    Reconciles,        \* does the Kuaizi billing reconciliation run?
    MaxGen,            \* bound on lease_generation
    Budget,            \* bound on how often each external event happens
    None               \* no row, no job, no owner

\* "fenced": Kuaizi asynchronous jobs, created behind BeginProviderCreate.
\* "plain":  the other asynchronous adapters, which POST without it.
\* "token":  synchronous calls billed by token usage.
Kinds == {"fenced", "plain", "token"}

\* "envelope": verifyTaskExecutionEnvelope rejects the row; "definite": an
\* error that says the provider did not accept; "ambiguous": a timeout or a
\* lost answer; "slot": no channel slot; "record": the call log cannot be
\* written; "persist": the produced media cannot be stored; "save": the
\* completion transaction fails; "renew": a lease renewal fails.
FaultKinds == {"envelope", "definite", "ambiguous", "slot", "record",
               "persist", "save", "renew"}

Events == {"crash", "stall", "cancel", "retry"}

ASSUME NoneAssumption == /\ None \notin Tasks
                         /\ None \notin Orders
                         /\ None \notin Procs
ASSUME ActorAssumption == /\ Workers \cap Clients = {}
                          /\ Proc \in [Workers \cup Clients -> Procs]
                          /\ Crashable \subseteq Procs
ASSUME ShapeAssumption == /\ Kind \in [Tasks -> Kinds]
                          /\ Faults \subseteq FaultKinds
                          /\ Resolutions \subseteq {"settled", "refunded"}
                          /\ Reconciles \in BOOLEAN
ASSUME BoundAssumption == /\ MaxGen \in Nat
                          /\ Budget \in [Events -> Nat]

VARIABLES
    task,    \* tasks table
    order,   \* billing_orders table
    log,     \* tasks with a successful billable call in api_call_logs
    outbox,  \* tasks whose terminal fact was enqueued with its wake-up
    posts,   \* create requests sent to the provider for each order
    up,      \* what the provider knows of the job of each order
    worker,  \* local state of each worker slot
    client,  \* local state of each user request
    left     \* how often each external event may still happen

vars == <<task, order, log, outbox, posts, up, worker, client, left>>

----------------------------------------------------------------------------
(* Rows and local states *)

TaskStatus == {"absent", "queued", "running", "succeeded", "failed", "cancelled"}
Stages == {"", "creating", "accepted", "cancel_reconcile", "cancel_reconciled",
           "provider_resume"}
OpenBilling == {"reserved", "running", "uncertain"}
BillingStatus == OpenBilling \cup {"unused", "settled", "refunded"}
Jobs == {"none", "open", "done", "failed"}

TaskRow == [status : TaskStatus, stage : Stages, prov : Orders \cup {None},
            result : Orders \cup {None}, owner : Procs \cup {None},
            gen : Nat, expired : BOOLEAN, order : Orders \cup {None}]
OrderRow == [status : BillingStatus, prov : Orders \cup {None},
             task : Tasks \cup {None}]

Errors == {"", "definite", "ambiguous", "slot", "persist", "canceled",
           "refund", "uncertain"}
\* The steps of processClaimedTask, in its order.
WorkerPC == {"idle", "claimed", "verify", "progress", "readbill", "startbill",
             "call", "post", "save", "poll", "error", "schedule", "markunc",
             "final", "succeeded", "claimres", "saveres", "persist",
             "complete", "settle"}
WorkerState == [pc : WorkerPC, t : Tasks \cup {None}, gen : Nat,
                ord : Orders \cup {None}, prov : Orders \cup {None},
                stage : Stages, rec : BOOLEAN, job : Orders \cup {None},
                err : Errors, lost : BOOLEAN, ctx : BOOLEAN]
ClientPC == {"idle", "cancelQueued", "cancelRunning", "refund", "markunc",
             "reread", "lastread", "retry", "resume"}
ClientState == [pc : ClientPC, t : Tasks \cup {None}, ord : Orders \cup {None}]

AbsentTask == [status |-> "absent", stage |-> "", prov |-> None,
               result |-> None, owner |-> None, gen |-> 0,
               expired |-> FALSE, order |-> None]
UnusedOrder == [status |-> "unused", prov |-> None, task |-> None]
IdleWorker == [pc |-> "idle", t |-> None, gen |-> 0, ord |-> None,
               prov |-> None, stage |-> "", rec |-> FALSE, job |-> None,
               err |-> "", lost |-> FALSE, ctx |-> FALSE]
IdleClient == [pc |-> "idle", t |-> None, ord |-> None]

Init == /\ task = [t \in Tasks |-> AbsentTask]
        /\ order = [o \in Orders |-> UnusedOrder]
        /\ log = {}
        /\ outbox = {}
        /\ posts = [o \in Orders |-> 0]
        /\ up = [o \in Orders |-> "none"]
        /\ worker = [p \in Workers |-> IdleWorker]
        /\ client = [c \in Clients |-> IdleClient]
        /\ left = Budget

\* The rows a worker has read by the time it reaches each step.
WorkerRefs(w) ==
    /\ w.pc # "idle" => w.t \in Tasks
    /\ w.pc \notin {"idle", "claimed"} => w.ord \in Orders
    /\ w.pc \in {"save", "poll", "succeeded", "claimres", "saveres",
                  "persist", "complete"} => w.job \in Orders

\* Rows, local states and the references they follow are well formed.
TypeOK == /\ task \in [Tasks -> TaskRow]
          /\ order \in [Orders -> OrderRow]
          /\ log \subseteq Tasks
          /\ outbox \subseteq Tasks
          /\ posts \in [Orders -> Nat]
          /\ up \in [Orders -> Jobs]
          /\ worker \in [Workers -> WorkerState]
          /\ client \in [Clients -> ClientState]
          /\ left \in [Events -> Nat]
          /\ \A t \in Tasks : task[t].status # "absent" => task[t].order \in Orders
          /\ \A p \in Workers : WorkerRefs(worker[p])
          /\ \A c \in Clients :
                client[c].pc # "idle" => /\ client[c].t \in Tasks
                                         /\ client[c].ord \in Orders

----------------------------------------------------------------------------
(* Guards and updates shared by the transactions *)

\* Mutation of HoldsLease: only the owner is compared.
OwnsLease(p) == task[worker[p].t].owner = Proc[p]

\* taskLeaseQuery: the lease facts a worker presents are the stored ones.
HoldsLease(p) == /\ task[worker[p].t].owner = Proc[p]
                 /\ task[worker[p].t].gen = worker[p].gen

RunningLease(p) == /\ HoldsLease(p)
                   /\ task[worker[p].t].status = "running"

Unlease(k) == [k EXCEPT !.owner = None, !.expired = FALSE]

SetBilling(o, s) == [order EXCEPT ![o].status = s]

\* MarkBillingUncertain: an order already settled or refunded is a conflict.
MarkedUncertain(o) == IF order[o].status \in OpenBilling
                      THEN SetBilling(o, "uncertain") ELSE order

\* Mutation of Refundable: a settled order is refunded too.
RefundableSettled(o) == order[o].status \in OpenBilling \cup {"settled", "refunded"}

\* SettleBillingOrder and RefundBillingOrder are idempotent, and each refuses
\* the other's outcome.
Settleable(o) == order[o].status \in OpenBilling \cup {"settled"}
Refundable(o) == order[o].status \in OpenBilling \cup {"refunded"}

At(p, pc) == worker[p].pc = pc
Goto(p, pc) == worker' = [worker EXCEPT ![p].pc = pc]
Return(p) == worker' = [worker EXCEPT ![p] = IdleWorker]
Fail(p, e) == worker' = [worker EXCEPT ![p].pc = "error", ![p].err = e]

\* The registrations of registerActiveTask: made once the envelope is checked.
Registered(p) == worker[p].pc \notin {"idle", "claimed", "verify"}

----------------------------------------------------------------------------
(* Creating and claiming *)

\* CreateTaskWithCreditReservation: the order is reserved with the task.
CreateTask(t) ==
    /\ task[t].status = "absent"
    /\ \E o \in Orders :
          /\ order[o].status = "unused"
          /\ order' = [order EXCEPT ![o] = [status |-> "reserved",
                                            prov |-> None, task |-> t]]
          /\ task' = [task EXCEPT ![t].status = "queued", ![t].order = o]
    /\ UNCHANGED <<log, outbox, posts, up, worker, client, left>>

\* Mutation of Claimable: a running task is never taken over.
ClaimableNoTakeover(k) ==
    \/ k.status = "queued"
    \/ /\ k.status = "cancelled" /\ k.prov # None /\ k.result = None
       /\ k.stage \in {"accepted", "cancel_reconcile"}
       /\ k.owner = None \/ k.expired

\* Mutation of Claimable: cancelled tasks are not reconciled.
ClaimableNoReconciliation(k) ==
    k.status = "queued" \/ (k.status = "running" /\ k.expired)

\* The row ClaimNextTask selects: queued, running past its lease, or cancelled
\* with a provider job whose outcome is still to be fetched.
Claimable(k) ==
    \/ k.status = "queued"
    \/ k.status = "running" /\ k.expired
    \/ /\ k.status = "cancelled"
       /\ k.prov # None
       /\ k.result = None
       /\ k.stage \in {"accepted", "cancel_reconcile"}
       /\ k.owner = None \/ k.expired

\* Mutation of ClaimTask: the claim keeps the lease generation.
ClaimSameGeneration(p, t) ==
    /\ At(p, "idle")
    /\ Claimable(task[t])
    /\ task' = [task EXCEPT
           ![t].status = IF @ = "cancelled" THEN @ ELSE "running",
           ![t].owner = Proc[p], ![t].expired = FALSE]
    /\ worker' = [worker EXCEPT ![p].pc = "claimed", ![p].t = t,
                                ![p].gen = task[t].gen]
    /\ UNCHANGED <<order, log, outbox, posts, up, client, left>>

\* ClaimNextTask, when it selects t.
ClaimTask(p, t) ==
    /\ At(p, "idle")
    /\ Claimable(task[t])
    /\ task[t].gen < MaxGen
    /\ task' = [task EXCEPT
           ![t].status = IF @ = "cancelled" THEN @ ELSE "running",
           ![t].owner = Proc[p], ![t].expired = FALSE,
           ![t].gen = @ + 1]
    /\ worker' = [worker EXCEPT ![p].pc = "claimed", ![p].t = t,
                                ![p].gen = task[t].gen + 1]
    /\ UNCHANGED <<order, log, outbox, posts, up, client, left>>

ClaimNextTask(p) == \E t \in Tasks : ClaimTask(p, t)

\* Mutation of Reread: the row is not read again after the claim.
RereadSkipped(p) ==
    /\ At(p, "claimed")
    /\ Goto(p, "verify")
    /\ UNCHANGED <<task, order, log, outbox, posts, up, client, left>>

\* processClaimedTask reads the row again and keeps this copy to its end.
Reread(p) ==
    LET k == task[worker[p].t] IN
    /\ At(p, "claimed")
    /\ IF HoldsLease(p)
       THEN worker' = [worker EXCEPT ![p].pc = "verify", ![p].ord = k.order,
                           ![p].prov = k.prov, ![p].stage = k.stage,
                           ![p].rec = (k.status = "cancelled")]
       ELSE Return(p)
    /\ UNCHANGED <<task, order, log, outbox, posts, up, client, left>>

\* verifyTaskExecutionEnvelope; when it fails, FailClaimedTaskFacts ends the
\* task without touching its order and without a wake-up.
VerifyEnvelope(p) ==
    /\ At(p, "verify")
    /\ \/ /\ Goto(p, IF worker[p].rec THEN "call" ELSE "progress")
          /\ UNCHANGED task
       \/ /\ "envelope" \in Faults
          /\ task' = IF RunningLease(p)
                     THEN [task EXCEPT ![worker[p].t] =
                              [Unlease(@) EXCEPT !.status = "failed"]]
                     ELSE task
          /\ Return(p)
    /\ UNCHANGED <<order, log, outbox, posts, up, client, left>>

\* UpdateTaskProgress before the provider is called.
UpdateTaskProgress(p) ==
    /\ At(p, "progress")
    /\ IF RunningLease(p)
       THEN Goto(p, IF worker[p].prov = None THEN "startbill" ELSE "readbill")
       ELSE Return(p)
    /\ UNCHANGED <<task, order, log, outbox, posts, up, client, left>>

\* A resumed task whose order is already uncertain keeps it that way.
ReadBilling(p) ==
    LET o == order[worker[p].ord] IN
    /\ At(p, "readbill")
    /\ Goto(p, IF o.status = "uncertain" /\ o.prov = worker[p].prov
               THEN "call" ELSE "startbill")
    /\ UNCHANGED <<task, order, log, outbox, posts, up, client, left>>

\* MarkBillingRunning accepts a reserved or running order,
\* BeginTokenBillingRequest a reserved one only.
Startable(p) ==
    order[worker[p].ord].status \in
        IF Kind[worker[p].t] = "token" THEN {"reserved"}
                                       ELSE {"reserved", "running"}

\* Mutation of StartBilling: the charge is put under review before the call.
StartUnderReview(p) ==
    /\ At(p, "startbill")
    /\ order' = MarkedUncertain(worker[p].ord)
    /\ Goto(p, "call")
    /\ UNCHANGED <<task, log, outbox, posts, up, client, left>>

StartBilling(p) ==
    /\ At(p, "startbill")
    /\ IF Startable(p)
       THEN /\ order' = SetBilling(worker[p].ord, "running")
            /\ Goto(p, "call")
       ELSE /\ worker' = [worker EXCEPT ![p].pc = "final", ![p].err =
                   IF Kind[worker[p].t] = "token" THEN "uncertain" ELSE "refund"]
            /\ UNCHANGED order
    /\ UNCHANGED <<task, log, outbox, posts, up, client, left>>

----------------------------------------------------------------------------
(* Calling the provider: processTask, doBinary and the adapters *)

\* A failure before any request of this attempt: input, credentials, slot.
CallFails(p) ==
    /\ At(p, "call")
    /\ \/ "definite" \in Faults /\ Fail(p, "definite")
       \/ "slot" \in Faults /\ Fail(p, "slot")
       \/ worker[p].ctx /\ Fail(p, "canceled")
    /\ UNCHANGED <<task, order, log, outbox, posts, up, client, left>>

\* resumedProviderRequestID: a known job is queried, never created again.
ResumeJob(p) ==
    /\ At(p, "call")
    /\ worker[p].prov # None
    /\ worker' = [worker EXCEPT ![p].pc = "poll", ![p].job = worker[p].prov]
    /\ UNCHANGED <<task, order, log, outbox, posts, up, client, left>>

\* Mutation of CreateAllowed: the creation boundary is not looked at.
CreateAllowedUnfenced(p) == RunningLease(p) /\ task[worker[p].t].prov = None

\* The conditions of BeginProviderCreate.
CreateAllowed(p) ==
    /\ RunningLease(p)
    /\ task[worker[p].t].prov = None
    /\ task[worker[p].t].stage = ""

\* BeginProviderCreate commits the creation boundary of a fenced job; a
\* refusal is an error that leaves the charge to review.
BeginProviderCreate(p) ==
    /\ At(p, "call")
    /\ worker[p].prov = None
    /\ IF Kind[worker[p].t] # "fenced"
       THEN Goto(p, "post") /\ UNCHANGED task
       ELSE IF CreateAllowed(p)
            THEN /\ task' = [task EXCEPT ![worker[p].t].stage = "creating"]
                 /\ Goto(p, "post")
            ELSE Fail(p, "ambiguous") /\ UNCHANGED task
    /\ UNCHANGED <<order, log, outbox, posts, up, client, left>>

\* recordProviderRequest after a failed request: when its log cannot be
\* written, the order is marked uncertain.
FailureLogged(o) ==
    {order} \cup (IF "record" \in Faults THEN {MarkedUncertain(o)} ELSE {})

\* The create request.  The provider may accept and answer, accept and have
\* its answer lost, refuse, or never receive it.  A synchronous call answers
\* with its result.  Of the jobs of one order, up records the furthest.
Post(p) ==
    LET o == worker[p].ord
        accepted == IF Kind[worker[p].t] = "token" \/ up[o] = "done"
                    THEN "done" ELSE "open" IN
    /\ At(p, "post")
    /\ posts' = [posts EXCEPT ![o] = @ + 1]
    /\ \/ /\ up' = [up EXCEPT ![o] = accepted]
          /\ worker' = [worker EXCEPT ![p].pc = "save", ![p].job = o]
          /\ UNCHANGED order
       \/ /\ "ambiguous" \in Faults
          /\ up' \in {up, [up EXCEPT ![o] = accepted]}
          /\ Fail(p, "ambiguous")
          /\ order' \in FailureLogged(o)
       \/ /\ worker[p].ctx
          /\ up' \in {up, [up EXCEPT ![o] = accepted]}
          /\ Fail(p, "canceled")
          /\ order' \in FailureLogged(o)
       \/ /\ "definite" \in Faults
          /\ Fail(p, "definite")
          /\ order' \in FailureLogged(o)
          /\ UNCHANGED up
    /\ UNCHANGED <<task, log, outbox, client, left>>

\* SaveProviderCall, for a fenced job: its id becomes the recovery fact of the
\* running task, or of the task cancelled since this worker's claim.
JobUnsaved(k) == k.prov = None /\ k.stage = "creating"

SavesRunning(p) == RunningLease(p) /\ JobUnsaved(task[worker[p].t])

SavesCancelled(p) ==
    LET k == task[worker[p].t] IN
    /\ k.status = "cancelled"
    /\ JobUnsaved(k)
    /\ k.owner = None
    /\ k.gen = worker[p].gen + 1

\* recordProviderRequest after an accepted request.  When the fact cannot be
\* stored the order is marked uncertain and the call fails.
SaveProviderCall(p) ==
    LET w == worker[p]
        fenced == Kind[w.t] = "fenced"
        saved == fenced => SavesRunning(p) \/ SavesCancelled(p) IN
    /\ At(p, "save")
    /\ task' = IF fenced /\ saved
               THEN [task EXCEPT ![w.t].prov = w.job,
                        ![w.t].stage = IF SavesRunning(p) THEN "accepted"
                                                          ELSE "cancel_reconcile"]
               ELSE task
    /\ \/ /\ saved
          /\ log' = log \cup {w.t}
          /\ order' = [order EXCEPT ![w.ord].prov = w.job]
          /\ Goto(p, IF Kind[w.t] = "token" THEN "succeeded" ELSE "poll")
       \/ /\ ~saved \/ "record" \in Faults
          /\ order' = [MarkedUncertain(w.ord) EXCEPT ![w.ord].prov =
                          IF fenced /\ saved THEN w.job ELSE @]
          /\ Fail(p, IF fenced THEN "ambiguous" ELSE "definite")
          /\ log' \in IF fenced THEN {log} ELSE {log, log \cup {w.t}}
    /\ UNCHANGED <<outbox, posts, up, client, left>>

\* The polling loop of an asynchronous adapter, up to the produced media.  A
\* status request that cannot be logged fails the call, whatever it answered.
Poll(p) ==
    LET job == up[worker[p].job] IN
    /\ At(p, "poll")
    /\ \/ /\ \/ job = "done" /\ Goto(p, "succeeded")
             \/ job = "done" /\ "persist" \in Faults /\ Fail(p, "persist")
             \/ job = "failed" /\ Fail(p, "definite")
             \/ "slot" \in Faults /\ Fail(p, "slot")
          /\ UNCHANGED order
       \/ /\ \/ "definite" \in Faults /\ Fail(p, "definite")
             \/ "ambiguous" \in Faults /\ Fail(p, "ambiguous")
             \/ worker[p].ctx /\ Fail(p, "canceled")
          /\ order' \in FailureLogged(worker[p].ord)
       \/ /\ "record" \in Faults
          /\ Fail(p, "definite")
          /\ order' = MarkedUncertain(worker[p].ord)
    /\ UNCHANGED <<task, log, outbox, posts, up, client, left>>

----------------------------------------------------------------------------
(* The error path of processClaimedTask *)

\* Mutation of RequiresReview: only the error itself is looked at.
RequiresReviewByError(p) == worker[p].err \in {"ambiguous", "persist"}

\* BillingFailureRequiresReview, and the overrides around it: a failure after
\* the provider succeeded is always reviewed, a channel slot failure never.
RequiresReview(p) ==
    LET w == worker[p] IN
    \/ w.err \in {"ambiguous", "persist"}
    \/ /\ w.err = "definite"
       /\ \/ task[w.t].prov # None
          \/ order[w.ord].status = "uncertain"
          \/ w.t \in log

HandleError(p) ==
    LET w == worker[p]  k == task[w.t] IN
    /\ At(p, "error")
    /\ IF k.status = "cancelled"
       THEN IF k.prov = None THEN Return(p)
            ELSE Goto(p, IF w.rec THEN "schedule" ELSE "markunc")
       ELSE IF w.lost \/ w.err = "canceled" THEN Return(p)
            ELSE worker' = [worker EXCEPT ![p].pc = "final", ![p].err =
                       IF RequiresReview(p) THEN "uncertain" ELSE "refund"]
    /\ UNCHANGED <<task, order, log, outbox, posts, up, client, left>>

\* ScheduleCancelledTaskReconciliation, under the reconciliation claim.
ScheduleReconciliation(p) ==
    LET k == task[worker[p].t] IN
    /\ At(p, "schedule")
    /\ IF HoldsLease(p) /\ k.status = "cancelled" /\ k.prov # None
       THEN /\ task' = [task EXCEPT ![worker[p].t] =
                           [Unlease(@) EXCEPT !.stage = "cancel_reconcile"]]
            /\ Goto(p, "markunc")
       ELSE Return(p) /\ UNCHANGED task
    /\ UNCHANGED <<order, log, outbox, posts, up, client, left>>

\* MarkBillingUncertain as the last act of a worker; its error is dropped.
WorkerMarkUncertain(p) ==
    /\ At(p, "markunc")
    /\ order' = MarkedUncertain(worker[p].ord)
    /\ Return(p)
    /\ UNCHANGED <<task, log, outbox, posts, up, client, left>>

\* finalizeFailedBillingTx accepts the order in these states.
FailedBillingOK(p) ==
    order[worker[p].ord].status \in
        IF worker[p].err = "refund" THEN {"reserved", "running"} ELSE OpenBilling

\* Mutation of FailedBilling: the order is left to a later transaction.
FailedBillingKept(p) == order[worker[p].ord].status

FailedBilling(p) == IF worker[p].err = "refund" THEN "refunded" ELSE "uncertain"

\* FinalizeFailedTaskAndBillingWithOutbox: task, order and wake-up in one
\* transaction.  provider_request_id and poll_stage are written back from the
\* worker's copy.  A conflict leaves everything, and the lease runs out.
FinalizeFailed(p) ==
    LET w == worker[p] IN
    /\ At(p, "final")
    /\ IF FailedBillingOK(p) /\ RunningLease(p)
       THEN /\ task' = [task EXCEPT ![w.t] =
                  [Unlease(@) EXCEPT !.status = "failed", !.prov = w.prov,
                                     !.stage = w.stage]]
            /\ order' = [order EXCEPT ![w.ord].status = FailedBilling(p),
                         ![w.ord].prov =
                             IF w.err = "uncertain" /\ w.prov # None THEN w.prov ELSE @]
            /\ outbox' = outbox \cup {w.t}
       ELSE UNCHANGED <<task, order, outbox>>
    /\ Return(p)
    /\ UNCHANGED <<log, posts, up, client, left>>

----------------------------------------------------------------------------
(* The success path of processClaimedTask *)

ReadLatest(p) ==
    /\ At(p, "succeeded")
    /\ Goto(p, IF task[worker[p].t].status # "cancelled" THEN "persist"
               ELSE IF worker[p].rec THEN "saveres" ELSE "claimres")
    /\ UNCHANGED <<task, order, log, outbox, posts, up, client, left>>

\* The conditions of ClaimCancelledTaskResult.
ResultClaimable(p) ==
    LET k == task[worker[p].t] IN
    /\ k.status = "cancelled"
    /\ k.result = None
    /\ k.owner = None
    /\ k.gen = worker[p].gen + 1

ClaimCancelledTaskResult(p) ==
    LET t == worker[p].t IN
    /\ At(p, "claimres")
    /\ IF ResultClaimable(p)
       THEN /\ task' = [task EXCEPT ![t].owner = Proc[p], ![t].expired = FALSE,
                                    ![t].gen = @ + 1]
            /\ worker' = [worker EXCEPT ![p].pc = "saveres",
                              ![p].gen = task[t].gen + 1, ![p].ord = task[t].order]
       ELSE Goto(p, "markunc") /\ UNCHANGED task
    /\ UNCHANGED <<order, log, outbox, posts, up, client, left>>

\* SaveCancelledTaskResultWithOutbox: the cancelled task keeps its result and
\* the charge goes to review; a closed order is a conflict.
SaveCancelledTaskResult(p) ==
    LET w == worker[p] IN
    /\ At(p, "saveres")
    /\ IF /\ HoldsLease(p) /\ task[w.t].status = "cancelled"
          /\ order[w.ord].status \in OpenBilling
       THEN /\ task' = [task EXCEPT ![w.t] =
                  [Unlease(@) EXCEPT !.result = w.job,
                                     !.stage = "cancel_reconciled"]]
            /\ order' = SetBilling(w.ord, "uncertain")
            /\ outbox' = outbox \cup {w.t}
            /\ Return(p)
       ELSE Goto(p, "markunc") /\ UNCHANGED <<task, order, outbox>>
    /\ UNCHANGED <<log, posts, up, client, left>>

\* UpdateTaskProgress before the completion.
UpdateTaskProgress90(p) ==
    /\ At(p, "persist")
    /\ IF RunningLease(p) THEN Goto(p, "complete") ELSE Return(p)
    /\ UNCHANGED <<task, order, log, outbox, posts, up, client, left>>

\* Mutation of CompletedBilling: the settlement is left to the next step.
CompletedBillingLater(p) == order[worker[p].ord].status

\* saveTaskCompletion settles a fixed price and defers a token price.
CompletedBilling(p) ==
    IF Kind[worker[p].t] = "token" THEN "uncertain" ELSE "settled"

CompletedBillingOK(p) ==
    IF Kind[worker[p].t] = "token"
    THEN order[worker[p].ord].status \in OpenBilling
    ELSE Settleable(worker[p].ord)

\* FinalizeSucceededTaskAndBilling: result, charge and wake-up in one
\* transaction; when it fails the task is to be failed with its charge open.
FinalizeSucceeded(p) ==
    LET w == worker[p] IN
    /\ At(p, "complete")
    /\ \/ /\ CompletedBillingOK(p)
          /\ RunningLease(p)
          /\ task' = [task EXCEPT ![w.t] =
                [Unlease(@) EXCEPT !.status = "succeeded", !.result = w.job,
                                   !.prov = w.prov, !.stage = w.stage]]
          /\ order' = SetBilling(w.ord, CompletedBilling(p))
          /\ outbox' = outbox \cup {w.t}
          /\ Goto(p, "settle")
       \/ /\ ~(CompletedBillingOK(p) /\ RunningLease(p)) \/ "save" \in Faults
          /\ worker' = [worker EXCEPT ![p].pc = "final", ![p].err = "uncertain"]
          /\ UNCHANGED <<task, order, outbox>>
    /\ UNCHANGED <<log, posts, up, client, left>>

\* settleCompletedTaskBilling: a fixed price is settled already; a token price
\* is settled now if the provider's bill can be read, else it stays uncertain.
SettleCompleted(p) ==
    LET o == worker[p].ord IN
    /\ At(p, "settle")
    /\ \/ UNCHANGED order
       \/ /\ Kind[worker[p].t] = "token"
          /\ order[o].prov # None
          /\ order[o].status \in OpenBilling
          /\ order' = SetBilling(o, "settled")
    /\ Return(p)
    /\ UNCHANGED <<task, log, outbox, posts, up, client, left>>

\* RenewTaskLease, every 15 seconds.  It revives an expired lease nobody took;
\* when the lease is gone, or the update fails, the context is cancelled.
RenewTaskLease(p) ==
    LET k == task[worker[p].t] IN
    /\ Registered(p)
    /\ ~worker[p].lost
    /\ \/ /\ HoldsLease(p)
          /\ k.status \in {"running", "cancelled"}
          /\ task' = [task EXCEPT ![worker[p].t].expired = FALSE]
          /\ UNCHANGED worker
       \/ /\ \/ ~(HoldsLease(p) /\ k.status \in {"running", "cancelled"})
             \/ "renew" \in Faults
          /\ worker' = [worker EXCEPT ![p].lost = TRUE, ![p].ctx = TRUE]
          /\ UNCHANGED task
    /\ UNCHANGED <<order, log, outbox, posts, up, client, left>>

----------------------------------------------------------------------------
(* Requests of users and administrators *)

Finish(c) == client' = [client EXCEPT ![c] = IdleClient]

\* cancelActiveTask reaches at most one worker of its own process: the map
\* keeps one cancel function per task, and any worker's return deletes it.
CancelActiveTask(c, t) ==
    \/ UNCHANGED worker
    \/ \E p \in Workers : /\ Registered(p)
                          /\ worker[p].t = t
                          /\ Proc[p] = Proc[c]
                          /\ worker' = [worker EXCEPT ![p].ctx = TRUE]

\* CancelTask reads the task and chooses its branch; cancelling a cancelled
\* task only repeats cancelActiveTask.
CancelTask(c, t) ==
    /\ client[c].pc = "idle"
    /\ left["cancel"] > 0
    /\ \/ /\ task[t].status \in {"queued", "running"}
          /\ client' = [client EXCEPT ![c] =
                [pc |-> IF task[t].status = "queued" THEN "cancelQueued"
                                                     ELSE "cancelRunning",
                 t |-> t, ord |-> task[t].order]]
          /\ UNCHANGED worker
       \/ /\ task[t].status = "cancelled"
          /\ CancelActiveTask(c, t)
          /\ UNCHANGED client
    /\ left' = [left EXCEPT !["cancel"] = @ - 1]
    /\ UNCHANGED <<task, order, log, outbox, posts, up>>

\* CancelTaskIfStatus: the producer's lease is withdrawn, and a known job is
\* queued for reconciliation.
Cancelled(k) == [Unlease(k) EXCEPT !.status = "cancelled", !.gen = @ + 1,
                    !.stage = IF k.prov # None THEN "cancel_reconcile" ELSE @]

CancelTaskIfQueued(c) ==
    LET t == client[c].t IN
    /\ client[c].pc = "cancelQueued"
    /\ IF task[t].status = "queued"
       THEN /\ task' = [task EXCEPT ![t] = Cancelled(@)]
            /\ client' = [client EXCEPT ![c].pc = "refund"]
       ELSE /\ client' = [client EXCEPT ![c].pc = "reread"]
            /\ UNCHANGED task
    /\ UNCHANGED <<order, log, outbox, posts, up, worker, left>>

\* Mutation of CancelTaskIfRunning: a running task is refunded like a queued one.
CancelRunningRefunds(c) ==
    LET t == client[c].t IN
    /\ client[c].pc = "cancelRunning"
    /\ IF task[t].status = "running"
       THEN /\ task' = [task EXCEPT ![t] = Cancelled(@)]
            /\ client' = [client EXCEPT ![c].pc = "refund"]
       ELSE Finish(c) /\ UNCHANGED task
    /\ UNCHANGED <<order, log, outbox, posts, up, worker, left>>

CancelTaskIfRunning(c) ==
    LET t == client[c].t IN
    /\ client[c].pc = "cancelRunning"
    /\ IF task[t].status = "running"
       THEN /\ task' = [task EXCEPT ![t] = Cancelled(@)]
            /\ client' = [client EXCEPT ![c].pc = "markunc"]
       ELSE /\ client' = [client EXCEPT ![c].pc = "lastread"]
            /\ UNCHANGED task
    /\ UNCHANGED <<order, log, outbox, posts, up, worker, left>>

\* The order id is the one read before the task was cancelled.  An error of
\* either billing call ends the request.
CancelRefund(c) ==
    /\ client[c].pc = "refund"
    /\ IF Refundable(client[c].ord)
       THEN /\ order' = SetBilling(client[c].ord, "refunded")
            /\ client' = [client EXCEPT ![c].pc = "reread"]
       ELSE Finish(c) /\ UNCHANGED order
    /\ UNCHANGED <<task, log, outbox, posts, up, worker, left>>

CancelMarkUncertain(c) ==
    /\ client[c].pc = "markunc"
    /\ order' = MarkedUncertain(client[c].ord)
    /\ IF order[client[c].ord].status \in OpenBilling
       THEN client' = [client EXCEPT ![c].pc = "lastread"]
       ELSE Finish(c)
    /\ UNCHANGED <<task, log, outbox, posts, up, worker, left>>

\* The row is read once more.  After the branch for queued tasks a task found
\* running, perhaps retried meanwhile, goes through the branch for those.
CancelReread(c) ==
    LET t == client[c].t IN
    /\ client[c].pc \in {"reread", "lastread"}
    /\ IF client[c].pc = "reread" /\ task[t].status = "running"
       THEN /\ client' = [client EXCEPT ![c].pc = "cancelRunning",
                                        ![c].ord = task[t].order]
            /\ UNCHANGED worker
       ELSE /\ IF task[t].status = "cancelled" THEN CancelActiveTask(c, t)
                                               ELSE UNCHANGED worker
            /\ Finish(c)
    /\ UNCHANGED <<task, order, log, outbox, posts, up, left>>

\* Mutation of HasUncertainBilling: only orders with a known job count.
HasUncertainJob(t) ==
    \E o \in Orders : /\ order[o].task = t /\ order[o].status = "uncertain"
                       /\ order[o].prov # None

\* TaskHasUncertainBilling: any order of the task, current or not.
HasUncertainBilling(t) ==
    \E o \in Orders : order[o].task = t /\ order[o].status = "uncertain"

\* RetryTask reads the task and its orders and chooses its branch; an
\* uncertain charge without a known job refuses the request.
RetryTask(c, t) ==
    /\ client[c].pc = "idle"
    /\ left["retry"] > 0
    /\ task[t].status \in {"failed", "cancelled"}
    /\ HasUncertainBilling(t) => task[t].prov # None
    /\ client' = [client EXCEPT ![c] =
          [pc |-> IF HasUncertainBilling(t) THEN "resume" ELSE "retry",
           t |-> t, ord |-> task[t].order]]
    /\ left' = [left EXCEPT !["retry"] = @ - 1]
    /\ UNCHANGED <<task, order, log, outbox, posts, up, worker>>

\* RetryTaskWithBilling: a new order, and every trace of the old attempt but
\* its lease generation forgotten.
RetryTaskWithBilling(c) ==
    LET t == client[c].t IN
    /\ client[c].pc = "retry"
    /\ \/ /\ task[t].status \in {"failed", "cancelled"}
          /\ \E o \in Orders :
                /\ order[o].status = "unused"
                /\ order' = [order EXCEPT ![o] = [status |-> "reserved",
                                                  prov |-> None, task |-> t]]
                /\ task' = [task EXCEPT ![t] =
                      [AbsentTask EXCEPT !.status = "queued", !.order = o,
                                         !.gen = task[t].gen]]
       \/ /\ task[t].status \notin {"failed", "cancelled"}
          /\ UNCHANGED <<task, order>>
    /\ Finish(c)
    /\ UNCHANGED <<log, outbox, posts, up, worker, left>>

\* The conditions of ResumeTaskWithUncertainBilling.
Resumable(t) ==
    /\ task[t].status \in {"failed", "cancelled"}
    /\ task[t].prov # None
    /\ order[task[t].order].task = t
    /\ order[task[t].order].status = "uncertain"
    /\ order[task[t].order].prov = task[t].prov

ResumeTaskWithUncertainBilling(c) ==
    LET t == client[c].t IN
    /\ client[c].pc = "resume"
    /\ task' = IF Resumable(t)
               THEN [task EXCEPT ![t] =
                       [Unlease(@) EXCEPT !.status = "queued", !.result = None,
                                          !.stage = "provider_resume"]]
               ELSE task
    /\ Finish(c)
    /\ UNCHANGED <<order, log, outbox, posts, up, worker, left>>

\* ResolveBillingOrder: an administrator settles or refunds any open order.
ResolveBillingOrder(o) ==
    /\ order[o].status \in OpenBilling
    /\ \E s \in Resolutions : order' = SetBilling(o, s)
    /\ UNCHANGED <<task, log, outbox, posts, up, worker, client, left>>

\* RunKuaiziBillingReconciliationBatch: an uncertain order with a known job
\* follows the provider's bill; a pending bill is deferred.
ReconcileBillingOrder(o) ==
    /\ Reconciles
    /\ order[o].status = "uncertain"
    /\ order[o].prov # None
    /\ Kind[order[o].task] # "plain"
    /\ \/ up[order[o].prov] = "done" /\ order' = SetBilling(o, "settled")
       \/ up[order[o].prov] = "failed" /\ order' = SetBilling(o, "refunded")
    /\ UNCHANGED <<task, log, outbox, posts, up, worker, client, left>>

----------------------------------------------------------------------------
(* The environment *)

\* The provider finishes a job (external).
ProviderFinishes(o) ==
    /\ up[o] = "open"
    /\ up' \in {[up EXCEPT ![o] = "done"], [up EXCEPT ![o] = "failed"]}
    /\ UNCHANGED <<task, order, log, outbox, posts, worker, client, left>>

\* A process dies: its workers and requests stop where they are.  Leases stay.
Crash(x) ==
    /\ left["crash"] > 0
    /\ left' = [left EXCEPT !["crash"] = @ - 1]
    /\ worker' = [p \in Workers |-> IF Proc[p] = x THEN IdleWorker ELSE worker[p]]
    /\ client' = [c \in Clients |-> IF Proc[c] = x THEN IdleClient ELSE client[c]]
    /\ UNCHANGED <<task, order, log, outbox, posts, up>>

Held(t) == \E p \in Workers : /\ worker[p].pc # "idle"
                              /\ worker[p].t = t
                              /\ HoldsLease(p)
                              /\ ~worker[p].lost

\* 45 seconds without renewal.  While the holder is alive and renewing this
\* takes a stall of that length, of which only so many happen.
LeaseExpires(t) ==
    /\ task[t].owner # None
    /\ ~task[t].expired
    /\ task' = [task EXCEPT ![t].expired = TRUE]
    /\ IF Held(t)
       THEN left["stall"] > 0 /\ left' = [left EXCEPT !["stall"] = @ - 1]
       ELSE UNCHANGED left
    /\ UNCHANGED <<order, log, outbox, posts, up, worker, client>>

----------------------------------------------------------------------------

\* The steps of processClaimedTask after the claim.
WorkerStep(p) ==
    \/ Reread(p) \/ VerifyEnvelope(p) \/ UpdateTaskProgress(p)
    \/ ReadBilling(p) \/ StartBilling(p)
    \/ CallFails(p) \/ ResumeJob(p) \/ BeginProviderCreate(p)
    \/ Post(p) \/ SaveProviderCall(p) \/ Poll(p)
    \/ HandleError(p) \/ ScheduleReconciliation(p) \/ WorkerMarkUncertain(p)
    \/ FinalizeFailed(p)
    \/ ReadLatest(p) \/ ClaimCancelledTaskResult(p) \/ SaveCancelledTaskResult(p)
    \/ UpdateTaskProgress90(p) \/ FinalizeSucceeded(p) \/ SettleCompleted(p)

ClientStep(c) ==
    \/ CancelTaskIfQueued(c) \/ CancelTaskIfRunning(c)
    \/ CancelRefund(c) \/ CancelMarkUncertain(c) \/ CancelReread(c)
    \/ RetryTaskWithBilling(c) \/ ResumeTaskWithUncertainBilling(c)

Next ==
    \/ \E t \in Tasks : CreateTask(t) \/ LeaseExpires(t)
    \/ \E p \in Workers : ClaimNextTask(p) \/ WorkerStep(p) \/ RenewTaskLease(p)
    \/ \E c \in Clients : ClientStep(c) \/ \E t \in Tasks : CancelTask(c, t) \/ RetryTask(c, t)
    \/ \E o \in Orders : \/ ResolveBillingOrder(o) \/ ReconcileBillingOrder(o)
                         \/ ProviderFinishes(o)
    \/ \E x \in Crashable : Crash(x)

Spec == Init /\ [][Next]_vars

----------------------------------------------------------------------------
(* Safety *)

\* The creation boundary committed by BeginProviderCreate, and the reserved to
\* running transition of BeginTokenBillingRequest, let at most one create
\* request leave for an order, whatever crashes, stalls, reclaims, cancels and
\* retries happen around it.
OnePostPerOrder ==
    \A o \in Orders :
        order[o].task # None /\ Kind[order[o].task] # "plain" => posts[o] <= 1

\* A task never shows the output of an attempt other than its current one,
\* although workers of earlier attempts may still be running.
ResultFromOwnOrder ==
    \A t \in Tasks : task[t].result # None => task[t].result = task[t].order

\* A succeeded task has a finished provider job and its charge is settled or,
\* for a token price, still under review: never refunded.
SucceededIsCharged ==
    \A t \in Tasks : task[t].status = "succeeded" =>
        /\ up[task[t].order] = "done"
        /\ \/ order[task[t].order].status = "settled"
           \/ Kind[t] = "token" /\ order[task[t].order].status = "uncertain"

\* No two workers of a task are ever both accepted by the lease check, not
\* even two workers of one process, whose lease_owner is the same.
NoSharedLease ==
    \A p, q \in Workers :
        /\ worker[p].pc # "idle" /\ worker[q].pc # "idle"
        /\ worker[p].t = worker[q].t
        /\ HoldsLease(p) /\ HoldsLease(q)
        => p = q

\* The reserved credits of an attempt are given back only when the provider
\* is not working for it and has not produced anything.
NoGuessedRefund ==
    \A o \in Orders : order[o].status = "refunded" => up[o] \in {"none", "failed"}

\* A failed task does not hold credits nobody is going to look at: its order
\* is closed or under review.
FailedIsResolved ==
    \A t \in Tasks : task[t].status = "failed" =>
        order[task[t].order].status \notin {"reserved", "running"}

\* While a task is being generated, no earlier attempt of it has a charge that
\* is still open: a new paid request waits for the review of the old one.
RetryWaitsForReview ==
    \A t \in Tasks, o \in Orders :
        /\ task[t].status \in {"queued", "running"}
        /\ order[o].task = t
        /\ o # task[t].order
        => order[o].status \notin OpenBilling

\* A running task whose worker is gone can be taken over: its next attempt
\* gets past the billing step, or ends the task.
Retryable(t) ==
    LET o == order[task[t].order] IN
    \/ o.status \in {"reserved", "running"}
    \/ o.status = "uncertain" /\ Kind[t] = "token"
    \/ o.status = "uncertain" /\ task[t].prov # None /\ o.prov = task[t].prov

RunningIsRetryable ==
    \A t \in Tasks :
        task[t].status = "running" /\ task[t].expired /\ ~Held(t) => Retryable(t)

\* As long as a cancelled task owes the user the output of a finished job, the
\* transaction that stores it can still succeed: the order is open.
CancelledResultStorable ==
    \A t \in Tasks :
        /\ task[t].status = "cancelled"
        /\ task[t].prov # None
        /\ task[t].result = None
        /\ up[task[t].prov] = "done"
        => order[task[t].order].status \in OpenBilling

----------------------------------------------------------------------------
(* Refinement *)

Billing == INSTANCE BillingLifecycle WITH
               status <- [o \in Orders |-> order[o].status]

\* Every transaction of every actor moves an order along its life cycle or
\* leaves it alone: nothing reopens a closed order, closes it twice, or starts
\* to spend an order under review.
ImplementsBilling == Billing!Spec

----------------------------------------------------------------------------
(* Liveness *)

\* The dispatcher ticks every two seconds and claims the oldest claimable row,
\* while a reconciliation that failed waits a minute (next_poll_at): no task is
\* passed over forever.  A claimed task runs under a deadline, leases are
\* timed, requests return and the provider answers.
Fairness ==
    /\ \A t \in Tasks : SF_vars(\E p \in Workers : ClaimTask(p, t))
    /\ \A p \in Workers : WF_vars(WorkerStep(p))
    /\ \A c \in Clients : WF_vars(ClientStep(c))
    /\ \A t \in Tasks : WF_vars(~Held(t) /\ LeaseExpires(t))
    /\ \A o \in Orders : WF_vars(ProviderFinishes(o))

FairSpec == Spec /\ Fairness

\* Whatever worker crashes, a queued or running task is eventually finished.
TaskEnds ==
    \A t \in Tasks : task[t].status \in {"queued", "running"} ~>
                     task[t].status \in {"succeeded", "failed", "cancelled"}

\* A cancelled task whose known job has finished eventually keeps its output,
\* unless the user has asked for the task to run again.
CancelledResultKept ==
    \A t \in Tasks :
        (task[t].status = "cancelled" /\ task[t].prov # None
            /\ up[task[t].prov] = "done")
        ~> (task[t].result # None \/ task[t].status # "cancelled")
=============================================================================
