------------------------ MODULE TaskExecutionProofs ------------------------
(***************************************************************************)
(* Proofs about TaskExecution for every set of tasks, orders, workers,     *)
(* clients and processes, every kind of task, every set of faults and      *)
(* every bound: type correctness and the exclusiveness of a lease.         *)
(***************************************************************************)
EXTENDS TaskExecution, TLAPS

\* The parts of TypeOK, one for each table.
TaskOK == /\ task \in [Tasks -> TaskRow]
          /\ \A t \in Tasks : task[t].status # "absent" => task[t].order \in Orders
OrderOK == order \in [Orders -> OrderRow]
WorkerOK == /\ worker \in [Workers -> WorkerState]
            /\ \A p \in Workers : WorkerRefs(worker[p])
ClientOK == /\ client \in [Clients -> ClientState]
            /\ \A c \in Clients :
                  client[c].pc # "idle" => /\ client[c].t \in Tasks
                                           /\ client[c].ord \in Orders
RestOK == /\ log \subseteq Tasks
          /\ outbox \subseteq Tasks
          /\ posts \in [Orders -> Nat]
          /\ up \in [Orders -> Jobs]
          /\ left \in [Events -> Nat]

\* A worker's task exists: without it TypeOK is not inductive, because Reread
\* takes the order id from the row.
TaskExists == \A p \in Workers :
                 worker[p].pc # "idle" => task[worker[p].t].status # "absent"

TypeInv == TaskOK /\ OrderOK /\ WorkerOK /\ ClientOK /\ RestOK /\ TaskExists

LEMMA TypeParts == TypeInv => TypeOK
  BY DEF TypeInv, TypeOK, TaskOK, OrderOK, WorkerOK, ClientOK, RestOK

\* What every step but a claim does to the workers and to the task rows: a
\* busy worker keeps its task and generation, no generation decreases and no
\* row disappears.
KeepsClaims == \A p \in Workers :
    worker'[p].pc # "idle" => /\ worker[p].pc # "idle"
                              /\ worker'[p].t = worker[p].t
                              /\ worker'[p].gen = worker[p].gen
KeepsRows == \A t \in Tasks :
    /\ task'[t].gen >= task[t].gen
    /\ task[t].status # "absent" => task'[t].status # "absent"

\* The steps whose workers have a provider job.
JobPC == {"save", "poll", "succeeded", "claimres", "saveres", "persist", "complete"}

----------------------------------------------------------------------------
(* Updates of one worker *)

LEMMA WorkerSet ==
    ASSUME WorkerOK, NEW p \in Workers, NEW w \in WorkerState, WorkerRefs(w),
           worker' = [worker EXCEPT ![p] = w]
    PROVE  WorkerOK'
  BY DEF WorkerOK

LEMMA WorkerSame ==
    ASSUME WorkerOK, UNCHANGED worker
    PROVE  WorkerOK' /\ KeepsClaims
  BY DEF WorkerOK, KeepsClaims

LEMMA GotoType ==
    ASSUME WorkerOK, NEW p \in Workers, NEW pc \in WorkerPC, Goto(p, pc),
           worker[p].pc \notin {"idle", "claimed"},
           pc \in JobPC => worker[p].job \in Orders
    PROVE  WorkerOK' /\ KeepsClaims
  <1> DEFINE w == [worker[p] EXCEPT !.pc = pc]
  <1>1. worker' = [worker EXCEPT ![p] = w]
      BY DEF Goto, WorkerOK
  <1>2. w \in WorkerState
      BY DEF WorkerOK, WorkerState
  <1>3. WorkerRefs(w)
      BY DEF WorkerOK, WorkerRefs, WorkerState, JobPC
  <1>4. KeepsClaims
      BY <1>1 DEF KeepsClaims, WorkerOK, WorkerState
  <1> QED BY <1>1, <1>2, <1>3, <1>4, WorkerSet

LEMMA FailType ==
    ASSUME WorkerOK, NEW p \in Workers, NEW e \in Errors,
           NEW pc \in {"error", "final"},
           worker' = [worker EXCEPT ![p].pc = pc, ![p].err = e],
           worker[p].pc \notin {"idle", "claimed"}
    PROVE  WorkerOK' /\ KeepsClaims
  <1> DEFINE w == [worker[p] EXCEPT !.pc = pc, !.err = e]
  <1>1. worker' = [worker EXCEPT ![p] = w]
      BY DEF WorkerOK
  <1>2. w \in WorkerState
      <2>1. pc \in WorkerPC
          BY DEF WorkerPC
      <2> QED BY <2>1 DEF WorkerOK, WorkerState
  <1>3. WorkerRefs(w)
      BY DEF WorkerOK, WorkerRefs, WorkerState
  <1>4. KeepsClaims
      BY <1>1 DEF KeepsClaims, WorkerOK, WorkerState
  <1> QED BY <1>1, <1>2, <1>3, <1>4, WorkerSet

LEMMA IdleType == IdleWorker \in WorkerState /\ WorkerRefs(IdleWorker)
  BY DEF IdleWorker, WorkerState, WorkerRefs, WorkerPC, Stages, Errors

LEMMA ReturnType ==
    ASSUME WorkerOK, NEW p \in Workers, Return(p)
    PROVE  WorkerOK' /\ KeepsClaims
  <1>1. WorkerOK'
      BY IdleType, WorkerSet DEF Return
  <1>2. KeepsClaims
      BY DEF KeepsClaims, Return, WorkerOK, IdleWorker
  <1> QED BY <1>1, <1>2

\* A new claim: the pc, the task and the generation of the worker change.
LEMMA ClaimType ==
    ASSUME WorkerOK, NEW p \in Workers, NEW t \in Tasks, NEW g \in Nat,
           worker' = [worker EXCEPT ![p].pc = "claimed", ![p].t = t, ![p].gen = g]
    PROVE  WorkerOK'
  <1> DEFINE w == [worker[p] EXCEPT !.pc = "claimed", !.t = t, !.gen = g]
  <1>1. worker' = [worker EXCEPT ![p] = w]
      BY DEF WorkerOK
  <1>2. w \in WorkerState
      <2>1. "claimed" \in WorkerPC
          BY DEF WorkerPC
      <2> QED BY <2>1 DEF WorkerOK, WorkerState
  <1>3. WorkerRefs(w)
      BY DEF WorkerOK, WorkerRefs, WorkerState
  <1> QED BY <1>1, <1>2, <1>3, WorkerSet

\* The claim of a cancelled task's result.
LEMMA ResultClaimType ==
    ASSUME WorkerOK, NEW p \in Workers, NEW o \in Orders, NEW g \in Nat,
           worker[p].pc = "claimres",
           worker' = [worker EXCEPT ![p].pc = "saveres", ![p].gen = g, ![p].ord = o]
    PROVE  WorkerOK'
  <1> DEFINE w == [worker[p] EXCEPT !.pc = "saveres", !.gen = g, !.ord = o]
  <1>1. worker' = [worker EXCEPT ![p] = w]
      BY DEF WorkerOK
  <1>2. w \in WorkerState
      <2>1. "saveres" \in WorkerPC
          BY DEF WorkerPC
      <2> QED BY <2>1 DEF WorkerOK, WorkerState
  <1>3. WorkerRefs(w)
      BY DEF WorkerOK, WorkerRefs, WorkerState
  <1> QED BY <1>1, <1>2, <1>3, WorkerSet

\* The copy of the row that Reread keeps.
LEMMA CopyType ==
    ASSUME WorkerOK, NEW p \in Workers, NEW o \in Orders,
           NEW j \in Orders \cup {None}, NEW s \in Stages, NEW b \in BOOLEAN,
           worker[p].pc # "idle",
           worker' = [worker EXCEPT ![p].pc = "verify", ![p].ord = o,
                          ![p].prov = j, ![p].stage = s, ![p].rec = b]
    PROVE  WorkerOK' /\ KeepsClaims
  <1> DEFINE w == [worker[p] EXCEPT !.pc = "verify", !.ord = o, !.prov = j,
                                    !.stage = s, !.rec = b]
  <1>1. worker' = [worker EXCEPT ![p] = w]
      BY DEF WorkerOK
  <1>2. w \in WorkerState
      <2>1. "verify" \in WorkerPC
          BY DEF WorkerPC
      <2> QED BY <2>1 DEF WorkerOK, WorkerState
  <1>3. WorkerRefs(w)
      BY DEF WorkerOK, WorkerRefs, WorkerState
  <1>4. KeepsClaims
      BY <1>1 DEF KeepsClaims, WorkerOK, WorkerState
  <1> QED BY <1>1, <1>2, <1>3, <1>4, WorkerSet

LEMMA JobType ==
    ASSUME WorkerOK, NEW p \in Workers, NEW o \in Orders, NEW pc \in {"poll", "save"},
           worker[p].pc \notin {"idle", "claimed"},
           worker' = [worker EXCEPT ![p].pc = pc, ![p].job = o]
    PROVE  WorkerOK' /\ KeepsClaims
  <1> DEFINE w == [worker[p] EXCEPT !.pc = pc, !.job = o]
  <1>1. worker' = [worker EXCEPT ![p] = w]
      BY DEF WorkerOK
  <1>2. w \in WorkerState
      <2>1. pc \in WorkerPC
          BY DEF WorkerPC
      <2> QED BY <2>1 DEF WorkerOK, WorkerState
  <1>3. WorkerRefs(w)
      BY DEF WorkerOK, WorkerRefs, WorkerState
  <1>4. KeepsClaims
      BY <1>1 DEF KeepsClaims, WorkerOK, WorkerState
  <1> QED BY <1>1, <1>2, <1>3, <1>4, WorkerSet

\* A cancelled context, and the lost lease that cancels it.
LEMMA FlagType ==
    ASSUME WorkerOK, NEW p \in Workers, NEW lost \in BOOLEAN,
           worker' = [worker EXCEPT ![p].lost = lost, ![p].ctx = TRUE]
    PROVE  WorkerOK' /\ KeepsClaims
  <1> DEFINE w == [worker[p] EXCEPT !.lost = lost, !.ctx = TRUE]
  <1>1. worker' = [worker EXCEPT ![p] = w]
      BY DEF WorkerOK
  <1>2. w \in WorkerState
      BY DEF WorkerOK, WorkerState
  <1>3. WorkerRefs(w)
      BY DEF WorkerOK, WorkerRefs, WorkerState
  <1>4. KeepsClaims
      BY <1>1 DEF KeepsClaims, WorkerOK, WorkerState
  <1> QED BY <1>1, <1>2, <1>3, <1>4, WorkerSet

----------------------------------------------------------------------------
(* Updates of one row *)

LEMMA TaskSet ==
    ASSUME TaskOK, NEW t \in Tasks, NEW k \in TaskRow, k.status # "absent",
           k.order \in Orders, k.gen >= task[t].gen,
           task' = [task EXCEPT ![t] = k]
    PROVE  TaskOK' /\ KeepsRows
  <1>1. TaskOK'
      BY DEF TaskOK
  <1>2. \A u \in Tasks : task[u].gen \in Nat
      BY DEF TaskOK, TaskRow
  <1>3. KeepsRows
      BY <1>2 DEF TaskOK, KeepsRows
  <1> QED BY <1>1, <1>3

LEMMA TaskSame ==
    ASSUME TaskOK, UNCHANGED task
    PROVE  TaskOK' /\ KeepsRows
  <1>1. \A u \in Tasks : task[u].gen \in Nat
      BY DEF TaskOK, TaskRow
  <1> QED BY <1>1 DEF TaskOK, KeepsRows

LEMMA Statuses == /\ \A s \in {"queued", "running", "succeeded", "failed",
                               "cancelled"} : s \in TaskStatus
                  /\ \A s \in {"", "creating", "accepted", "cancel_reconcile",
                               "cancel_reconciled", "provider_resume"} : s \in Stages
  BY DEF TaskStatus, Stages

LEMMA SetBillingType ==
    ASSUME OrderOK, NEW o \in Orders, NEW s \in BillingStatus
    PROVE  SetBilling(o, s) \in [Orders -> OrderRow]
  BY DEF OrderOK, SetBilling, OrderRow

LEMMA MarkedType ==
    ASSUME OrderOK, NEW o \in Orders
    PROVE  MarkedUncertain(o) \in [Orders -> OrderRow]
  <1>1. "uncertain" \in BillingStatus
      BY DEF BillingStatus, OpenBilling
  <1> QED BY <1>1, SetBillingType DEF MarkedUncertain, OrderOK

LEMMA FailureLoggedType ==
    ASSUME OrderOK, NEW o \in Orders, order' \in FailureLogged(o)
    PROVE  OrderOK'
  BY MarkedType DEF FailureLogged, OrderOK

LEMMA Reserved ==
    ASSUME OrderOK, NEW o \in Orders, NEW t \in Tasks
    PROVE  [order EXCEPT ![o] = [status |-> "reserved", prov |-> None, task |-> t]]
               \in [Orders -> OrderRow]
  BY DEF OrderOK, OrderRow, BillingStatus, OpenBilling

LEMMA ProvSet ==
    ASSUME NEW f \in [Orders -> OrderRow], NEW o \in Orders, NEW j \in Orders \cup {None}
    PROVE  [f EXCEPT ![o].prov = j] \in [Orders -> OrderRow]
  BY DEF OrderRow

----------------------------------------------------------------------------
(* From the parts to the whole *)

\* What a worker has read is there.
LEMMA WorkerFacts ==
    ASSUME TypeInv, NEW p \in Workers
    PROVE  /\ worker[p] \in WorkerState
           /\ worker[p].pc # "idle" =>
                 /\ worker[p].t \in Tasks
                 /\ task[worker[p].t] \in TaskRow
                 /\ task[worker[p].t].status # "absent"
                 /\ task[worker[p].t].order \in Orders
           /\ worker[p].pc \notin {"idle", "claimed"} => worker[p].ord \in Orders
           /\ worker[p].pc \in JobPC => worker[p].job \in Orders
           /\ worker[p].prov \in Orders \cup {None}
           /\ worker[p].stage \in Stages
           /\ worker[p].gen \in Nat
  BY DEF TypeInv, WorkerOK, TaskOK, TaskExists, WorkerRefs, WorkerState, JobPC

LEMMA RestSame ==
    ASSUME TypeInv, UNCHANGED <<log, outbox, posts, up, left>>
    PROVE  RestOK'
  BY DEF TypeInv, RestOK

LEMMA OrderSame == ASSUME TypeInv, UNCHANGED order PROVE OrderOK'
  BY DEF TypeInv, OrderOK

LEMMA ClientSame == ASSUME TypeInv, UNCHANGED client PROVE ClientOK'
  BY DEF TypeInv, ClientOK

\* A step that keeps claims and rows keeps the workers' tasks in existence.
LEMMA Compose ==
    ASSUME TypeInv, TaskOK', OrderOK', WorkerOK', ClientOK', RestOK',
           KeepsClaims, KeepsRows
    PROVE  TypeInv'
  <1>1. TaskExists'
      BY WorkerFacts DEF TypeInv, TaskExists, KeepsClaims, KeepsRows
  <1> QED BY <1>1 DEF TypeInv

\* The steps that are no claims.
Quiet == TypeInv' /\ KeepsClaims /\ KeepsRows

LEMMA Parts == TypeInv => TaskOK /\ OrderOK /\ WorkerOK /\ ClientOK /\ RestOK
  BY DEF TypeInv

----------------------------------------------------------------------------
(* The worker's steps *)

LEMMA RereadType == ASSUME TypeInv, NEW p \in Workers, Reread(p) PROVE Quiet
  <1> DEFINE k == task[worker[p].t]
  <1>0. TaskOK' /\ KeepsRows /\ OrderOK' /\ ClientOK' /\ RestOK'
      BY Parts, TaskSame, OrderSame, ClientSame, RestSame DEF Reread
  <1>1. k \in TaskRow /\ k.order \in Orders /\ worker[p].pc # "idle"
      BY WorkerFacts DEF Reread, At
  <1>2. /\ k.prov \in Orders \cup {None}
        /\ k.stage \in Stages
        /\ (k.status = "cancelled") \in BOOLEAN
      BY <1>1 DEF TaskRow
  <1>3. WorkerOK' /\ KeepsClaims
      <2>1. CASE HoldsLease(p)
          <3> HIDE DEF k
          <3>1. worker' = [worker EXCEPT ![p].pc = "verify", ![p].ord = k.order,
                             ![p].prov = k.prov, ![p].stage = k.stage,
                             ![p].rec = (k.status = "cancelled")]
              BY <2>1 DEF Reread, k
          <3> DEFINE b == (k.status = "cancelled")
          <3>2. b \in BOOLEAN
              BY <1>2
          <3>3. worker' = [worker EXCEPT ![p].pc = "verify", ![p].ord = k.order,
                             ![p].prov = k.prov, ![p].stage = k.stage,
                             ![p].rec = b]
              BY <3>1
          <3> HIDE DEF b
          <3> QED BY <1>1, <1>2, <3>2, <3>3, CopyType, Parts
      <2>2. CASE ~HoldsLease(p)
          BY <2>2, ReturnType, Parts DEF Reread
      <2> QED BY <2>1, <2>2
  <1> QED BY <1>0, <1>3, Compose DEF Quiet

\* A step of a worker that is past its claim: move on, give up, or fail.
LEMMA Moves ==
    ASSUME TypeInv, NEW p \in Workers, NEW pc \in WorkerPC \ JobPC,
           worker[p].pc \notin {"idle", "claimed"}, Goto(p, pc)
    PROVE  WorkerOK' /\ KeepsClaims
  BY GotoType, Parts

LEMMA MovesWithJob ==
    ASSUME TypeInv, NEW p \in Workers, NEW pc \in WorkerPC,
           worker[p].pc \in JobPC, Goto(p, pc)
    PROVE  WorkerOK' /\ KeepsClaims
  <1>1. worker[p].job \in Orders /\ worker[p].pc \notin {"idle", "claimed"}
      BY WorkerFacts DEF JobPC
  <1> QED BY <1>1, GotoType, Parts

LEMMA Fails ==
    ASSUME TypeInv, NEW p \in Workers, NEW e \in Errors,
           worker[p].pc \notin {"idle", "claimed"}, Fail(p, e)
    PROVE  WorkerOK' /\ KeepsClaims
  BY FailType, Parts DEF Fail

LEMMA Returns ==
    ASSUME TypeInv, NEW p \in Workers, Return(p)
    PROVE  WorkerOK' /\ KeepsClaims
  BY ReturnType, Parts

LEMMA PCs ==
    /\ \A x \in {"verify", "progress", "readbill", "startbill", "call", "post",
                 "error", "schedule", "markunc", "final", "settle"} :
          x \in WorkerPC \ JobPC
    /\ \A x \in JobPC : x \in WorkerPC
  BY DEF WorkerPC, JobPC

LEMMA Errs == \A e \in {"definite", "ambiguous", "slot", "persist", "canceled",
                        "refund", "uncertain"} : e \in Errors
  BY DEF Errors

\* A new row for the task of a worker.
LEMMA RowSet ==
    ASSUME TypeInv, NEW t \in Tasks, task[t].status # "absent",
           NEW k \in TaskRow, k.status # "absent", k.order = task[t].order,
           k.gen \in {task[t].gen, task[t].gen + 1},
           task' = [task EXCEPT ![t] = k]
    PROVE  TaskOK' /\ KeepsRows
  <1>1. task[t].order \in Orders /\ task[t].gen \in Nat
      BY DEF TypeInv, TaskOK, TaskRow
  <1>2. k.gen >= task[t].gen
      BY <1>1
  <1> QED BY <1>1, <1>2, TaskSet, Parts

LEMMA VerifyEnvelopeType ==
    ASSUME TypeInv, NEW p \in Workers, VerifyEnvelope(p) PROVE Quiet
  <1> DEFINE t == worker[p].t
             k == [Unlease(task[t]) EXCEPT !.status = "failed"]
  <1>0. OrderOK' /\ ClientOK' /\ RestOK'
      BY OrderSame, ClientSame, RestSame DEF VerifyEnvelope
  <1>1. worker[p].pc = "verify"
      BY DEF VerifyEnvelope, At
  <1>2. t \in Tasks /\ task[t] \in TaskRow /\ task[t].status # "absent"
      BY <1>1, WorkerFacts
  <1>3. WorkerOK' /\ KeepsClaims
      <2>1. Goto(p, "call") \/ Goto(p, "progress") \/ Return(p)
          BY DEF VerifyEnvelope
      <2> QED BY <1>1, <2>1, Moves, Returns, PCs
  <1>4. TaskOK' /\ KeepsRows
      <2>1. UNCHANGED task \/ task' = [task EXCEPT ![t] = k]
          BY DEF VerifyEnvelope
      <2>2. /\ k \in TaskRow /\ k.status # "absent"
            /\ k.order = task[t].order /\ k.gen = task[t].gen
          BY <1>2, Statuses DEF TaskRow, Unlease
      <2> HIDE DEF k, t
      <2> QED BY <1>2, <2>1, <2>2, RowSet, TaskSame, Parts
  <1> QED BY <1>0, <1>3, <1>4, Compose DEF Quiet

LEMMA UpdateTaskProgressType ==
    ASSUME TypeInv, NEW p \in Workers, UpdateTaskProgress(p) PROVE Quiet
  <1>0. TaskOK' /\ KeepsRows /\ OrderOK' /\ ClientOK' /\ RestOK'
      BY Parts, TaskSame, OrderSame, ClientSame, RestSame DEF UpdateTaskProgress
  <1>1. worker[p].pc = "progress"
      BY DEF UpdateTaskProgress, At
  <1>2. Goto(p, "startbill") \/ Goto(p, "readbill") \/ Return(p)
      BY DEF UpdateTaskProgress
  <1>3. WorkerOK' /\ KeepsClaims
      BY <1>1, <1>2, Moves, Returns, PCs
  <1> QED BY <1>0, <1>3, Compose DEF Quiet

LEMMA ReadBillingType ==
    ASSUME TypeInv, NEW p \in Workers, ReadBilling(p) PROVE Quiet
  <1>0. TaskOK' /\ KeepsRows /\ OrderOK' /\ ClientOK' /\ RestOK'
      BY Parts, TaskSame, OrderSame, ClientSame, RestSame DEF ReadBilling
  <1>1. worker[p].pc = "readbill"
      BY DEF ReadBilling, At
  <1>2. Goto(p, "startbill") \/ Goto(p, "call")
      BY DEF ReadBilling
  <1>3. WorkerOK' /\ KeepsClaims
      BY <1>1, <1>2, Moves, PCs
  <1> QED BY <1>0, <1>3, Compose DEF Quiet

LEMMA StartBillingType ==
    ASSUME TypeInv, NEW p \in Workers, StartBilling(p) PROVE Quiet
  <1>0. TaskOK' /\ KeepsRows /\ ClientOK' /\ RestOK'
      BY Parts, TaskSame, ClientSame, RestSame DEF StartBilling
  <1>1. worker[p].pc = "startbill" /\ worker[p].ord \in Orders
      BY WorkerFacts DEF StartBilling, At
  <1>2. OrderOK'
      <2>1. "running" \in BillingStatus
          BY DEF BillingStatus, OpenBilling
      <2>2. UNCHANGED order \/ order' = SetBilling(worker[p].ord, "running")
          BY DEF StartBilling
      <2>3. CASE order' = SetBilling(worker[p].ord, "running")
          BY <1>1, <2>1, <2>3, SetBillingType, Parts DEF OrderOK
      <2> QED BY <2>2, <2>3, OrderSame
  <1>3. WorkerOK' /\ KeepsClaims
      <2>1. CASE Goto(p, "call")
          BY <1>1, <2>1, Moves, PCs
      <2>2. ASSUME NEW e \in {"uncertain", "refund"},
                   worker' = [worker EXCEPT ![p].pc = "final", ![p].err = e]
            PROVE  WorkerOK' /\ KeepsClaims
          BY <1>1, <2>2, FailType, Errs, Parts
      <2>3. \/ Goto(p, "call")
            \/ worker' = [worker EXCEPT ![p].pc = "final", ![p].err = "uncertain"]
            \/ worker' = [worker EXCEPT ![p].pc = "final", ![p].err = "refund"]
          BY DEF StartBilling
      <2> QED BY <2>1, <2>2, <2>3
  <1> QED BY <1>0, <1>2, <1>3, Compose DEF Quiet

LEMMA CallFailsType ==
    ASSUME TypeInv, NEW p \in Workers, CallFails(p) PROVE Quiet
  <1>0. TaskOK' /\ KeepsRows /\ OrderOK' /\ ClientOK' /\ RestOK'
      BY Parts, TaskSame, OrderSame, ClientSame, RestSame DEF CallFails
  <1>1. worker[p].pc = "call"
      BY DEF CallFails, At
  <1>2. Fail(p, "definite") \/ Fail(p, "slot") \/ Fail(p, "canceled")
      BY DEF CallFails
  <1>3. WorkerOK' /\ KeepsClaims
      BY <1>1, <1>2, Fails, Errs
  <1> QED BY <1>0, <1>3, Compose DEF Quiet

LEMMA ResumeJobType ==
    ASSUME TypeInv, NEW p \in Workers, ResumeJob(p) PROVE Quiet
  <1>0. TaskOK' /\ KeepsRows /\ OrderOK' /\ ClientOK' /\ RestOK'
      BY Parts, TaskSame, OrderSame, ClientSame, RestSame DEF ResumeJob
  <1>1. worker[p].pc = "call" /\ worker[p].prov \in Orders
      BY WorkerFacts DEF ResumeJob, At
  <1>2. WorkerOK' /\ KeepsClaims
      BY <1>1, JobType, Parts DEF ResumeJob
  <1> QED BY <1>0, <1>2, Compose DEF Quiet

LEMMA BeginProviderCreateType ==
    ASSUME TypeInv, NEW p \in Workers, BeginProviderCreate(p) PROVE Quiet
  <1> DEFINE t == worker[p].t
             k == [task[t] EXCEPT !.stage = "creating"]
  <1>0. OrderOK' /\ ClientOK' /\ RestOK'
      BY OrderSame, ClientSame, RestSame DEF BeginProviderCreate
  <1>1. worker[p].pc = "call"
      BY DEF BeginProviderCreate, At
  <1>2. t \in Tasks /\ task[t] \in TaskRow /\ task[t].status # "absent"
      BY <1>1, WorkerFacts
  <1>3. WorkerOK' /\ KeepsClaims
      <2>1. Goto(p, "post") \/ Fail(p, "ambiguous")
          BY DEF BeginProviderCreate
      <2> QED BY <1>1, <2>1, Moves, Fails, PCs, Errs
  <1>4. TaskOK' /\ KeepsRows
      <2>1. UNCHANGED task \/ task' = [task EXCEPT ![t].stage = "creating"]
          BY DEF BeginProviderCreate
      <2>2. /\ k \in TaskRow /\ k.status # "absent"
            /\ k.order = task[t].order /\ k.gen = task[t].gen
          BY <1>2, Statuses DEF TaskRow
      <2>3. UNCHANGED task \/ task' = [task EXCEPT ![t] = k]
          BY <1>2, <2>1, Parts DEF TaskOK
      <2> HIDE DEF k, t
      <2> QED BY <1>2, <2>2, <2>3, RowSet, TaskSame, Parts
  <1> QED BY <1>0, <1>3, <1>4, Compose DEF Quiet

LEMMA PostType == ASSUME TypeInv, NEW p \in Workers, Post(p) PROVE Quiet
  <1> DEFINE o == worker[p].ord
  <1>0. TaskOK' /\ KeepsRows /\ ClientOK'
      BY Parts, TaskSame, ClientSame DEF Post
  <1>1. worker[p].pc = "post" /\ o \in Orders
      BY WorkerFacts DEF Post, At
  <1>2. OrderOK'
      <2>1. UNCHANGED order \/ order' \in FailureLogged(o)
          BY DEF Post
      <2> HIDE DEF o
      <2> QED BY <1>1, <2>1, FailureLoggedType, OrderSame, Parts
  <1>3. RestOK'
      <2>1. posts \in [Orders -> Nat] /\ posts' = [posts EXCEPT ![o] = @ + 1]
          BY Parts DEF Post, RestOK
      <2>2. posts' \in [Orders -> Nat]
          BY <1>1, <2>1
      <2>3. up' \in [Orders -> Jobs]
          <3>1. \/ up' = up \/ up' = [up EXCEPT ![o] = "done"]
                \/ up' = [up EXCEPT ![o] = "open"]
              BY DEF Post
          <3> QED BY <1>1, <3>1, Parts DEF RestOK, Jobs
      <2>4. UNCHANGED <<log, outbox, left>>
          BY DEF Post
      <2> QED BY <2>2, <2>3, <2>4, Parts DEF RestOK
  <1>4. WorkerOK' /\ KeepsClaims
      <2>1. \/ worker' = [worker EXCEPT ![p].pc = "save", ![p].job = o]
            \/ Fail(p, "ambiguous") \/ Fail(p, "canceled") \/ Fail(p, "definite")
          BY DEF Post
      <2>2. CASE worker' = [worker EXCEPT ![p].pc = "save", ![p].job = o]
          BY <1>1, <2>2, JobType, Parts
      <2> QED BY <1>1, <2>1, <2>2, Fails, Errs
  <1> QED BY <1>0, <1>2, <1>3, <1>4, Compose DEF Quiet

LEMMA SaveProviderCallType ==
    ASSUME TypeInv, NEW p \in Workers, SaveProviderCall(p) PROVE Quiet
  <1> DEFINE t == worker[p].t
             o == worker[p].ord
             j == worker[p].job
  <1>1. worker[p].pc = "save" /\ o \in Orders /\ j \in Orders
      BY WorkerFacts DEF SaveProviderCall, At, JobPC
  <1>2. t \in Tasks /\ task[t] \in TaskRow /\ task[t].status # "absent"
      BY <1>1, WorkerFacts
  <1>3. ClientOK'
      BY ClientSame DEF SaveProviderCall
  <1>4. RestOK'
      <2>1. log' \subseteq log \cup {t}
          BY DEF SaveProviderCall
      <2>2. UNCHANGED <<outbox, posts, up, left>>
          BY DEF SaveProviderCall
      <2> QED BY <1>2, <2>1, <2>2, Parts DEF RestOK
  <1>5. TaskOK' /\ KeepsRows
      <2>1. ASSUME NEW s \in {"accepted", "cancel_reconcile"},
                   task' = [task EXCEPT ![t].prov = j, ![t].stage = s]
            PROVE  TaskOK' /\ KeepsRows
          <3> DEFINE k == [task[t] EXCEPT !.prov = j, !.stage = s]
          <3>1. /\ k \in TaskRow /\ k.status # "absent"
                /\ k.order = task[t].order /\ k.gen = task[t].gen
              BY <1>1, <1>2, Statuses DEF TaskRow
          <3>2. task' = [task EXCEPT ![t] = k]
              BY <1>2, <2>1, Parts DEF TaskOK
          <3> HIDE DEF k, t
          <3> QED BY <1>2, <3>1, <3>2, RowSet
      <2>2. \/ UNCHANGED task
            \/ task' = [task EXCEPT ![t].prov = j, ![t].stage = "accepted"]
            \/ task' = [task EXCEPT ![t].prov = j, ![t].stage = "cancel_reconcile"]
          BY DEF SaveProviderCall
      <2> QED BY <2>1, <2>2, TaskSame, Parts
  <1>6. OrderOK'
      <2> DEFINE f == MarkedUncertain(o)
                 q == f[o].prov
      <2>1. \/ order' = [order EXCEPT ![o].prov = j]
            \/ order' = [f EXCEPT ![o].prov = j]
            \/ order' = [f EXCEPT ![o].prov = q]
          BY DEF SaveProviderCall
      <2>2. f \in [Orders -> OrderRow]
          BY <1>1, MarkedType, Parts
      <2>3. q \in Orders \cup {None}
          BY <1>1, <2>2 DEF OrderRow
      <2>4. order \in [Orders -> OrderRow]
          BY Parts DEF OrderOK
      <2> HIDE DEF o, j, f, q
      <2>5. [order EXCEPT ![o].prov = j] \in [Orders -> OrderRow]
          BY <1>1, <2>4, ProvSet
      <2>6. [f EXCEPT ![o].prov = j] \in [Orders -> OrderRow]
          BY <1>1, <2>2, ProvSet
      <2>7. [f EXCEPT ![o].prov = q] \in [Orders -> OrderRow]
          BY <1>1, <2>2, <2>3, ProvSet
      <2> QED BY <2>1, <2>5, <2>6, <2>7 DEF OrderOK
  <1>7. WorkerOK' /\ KeepsClaims
      <2>1. \/ Goto(p, "succeeded") \/ Goto(p, "poll")
            \/ Fail(p, "ambiguous") \/ Fail(p, "definite")
          BY DEF SaveProviderCall
      <2>2. worker[p].pc \in JobPC /\ "succeeded" \in JobPC /\ "poll" \in JobPC
          BY <1>1 DEF JobPC
      <2> QED BY <1>1, <2>1, <2>2, MovesWithJob, Fails, PCs, Errs
  <1> QED BY <1>3, <1>4, <1>5, <1>6, <1>7, Compose DEF Quiet

LEMMA PollType == ASSUME TypeInv, NEW p \in Workers, Poll(p) PROVE Quiet
  <1>0. TaskOK' /\ KeepsRows /\ ClientOK' /\ RestOK'
      BY Parts, TaskSame, ClientSame, RestSame DEF Poll
  <1>1. worker[p].pc = "poll" /\ worker[p].ord \in Orders
      BY WorkerFacts DEF Poll, At
  <1>2. OrderOK'
      <2>1. \/ UNCHANGED order \/ order' \in FailureLogged(worker[p].ord)
            \/ order' = MarkedUncertain(worker[p].ord)
          BY DEF Poll
      <2> QED BY <1>1, <2>1, FailureLoggedType, MarkedType, OrderSame, Parts DEF OrderOK
  <1>3. WorkerOK' /\ KeepsClaims
      <2>1. \/ Goto(p, "succeeded")
            \/ Fail(p, "persist") \/ Fail(p, "definite") \/ Fail(p, "slot")
            \/ Fail(p, "ambiguous") \/ Fail(p, "canceled")
          BY DEF Poll
      <2>2. worker[p].pc \in JobPC /\ "succeeded" \in WorkerPC
          BY <1>1 DEF JobPC, WorkerPC
      <2> QED BY <1>1, <2>1, <2>2, MovesWithJob, Fails, Errs
  <1> QED BY <1>0, <1>2, <1>3, Compose DEF Quiet

LEMMA HandleErrorType ==
    ASSUME TypeInv, NEW p \in Workers, HandleError(p) PROVE Quiet
  <1>0. TaskOK' /\ KeepsRows /\ OrderOK' /\ ClientOK' /\ RestOK'
      BY Parts, TaskSame, OrderSame, ClientSame, RestSame DEF HandleError
  <1>1. worker[p].pc = "error"
      BY DEF HandleError, At
  <1>2. WorkerOK' /\ KeepsClaims
      <2>1. \/ Return(p) \/ Goto(p, "schedule") \/ Goto(p, "markunc")
            \/ worker' = [worker EXCEPT ![p].pc = "final", ![p].err = "uncertain"]
            \/ worker' = [worker EXCEPT ![p].pc = "final", ![p].err = "refund"]
          BY DEF HandleError
      <2>2. ASSUME NEW e \in {"uncertain", "refund"},
                   worker' = [worker EXCEPT ![p].pc = "final", ![p].err = e]
            PROVE  WorkerOK' /\ KeepsClaims
          BY <1>1, <2>2, FailType, Errs, Parts
      <2> QED BY <1>1, <2>1, <2>2, Moves, Returns, PCs
  <1> QED BY <1>0, <1>2, Compose DEF Quiet

LEMMA ScheduleReconciliationType ==
    ASSUME TypeInv, NEW p \in Workers, ScheduleReconciliation(p) PROVE Quiet
  <1> DEFINE t == worker[p].t
             k == [Unlease(task[t]) EXCEPT !.stage = "cancel_reconcile"]
  <1>0. OrderOK' /\ ClientOK' /\ RestOK'
      BY OrderSame, ClientSame, RestSame DEF ScheduleReconciliation
  <1>1. worker[p].pc = "schedule"
      BY DEF ScheduleReconciliation, At
  <1>2. t \in Tasks /\ task[t] \in TaskRow /\ task[t].status # "absent"
      BY <1>1, WorkerFacts
  <1>3. WorkerOK' /\ KeepsClaims
      <2>1. Goto(p, "markunc") \/ Return(p)
          BY DEF ScheduleReconciliation
      <2> QED BY <1>1, <2>1, Moves, Returns, PCs
  <1>4. TaskOK' /\ KeepsRows
      <2>1. UNCHANGED task \/ task' = [task EXCEPT ![t] = k]
          BY DEF ScheduleReconciliation
      <2>2. /\ k \in TaskRow /\ k.status # "absent"
            /\ k.order = task[t].order /\ k.gen = task[t].gen
          BY <1>2, Statuses DEF TaskRow, Unlease
      <2> HIDE DEF k, t
      <2> QED BY <1>2, <2>1, <2>2, RowSet, TaskSame, Parts
  <1> QED BY <1>0, <1>3, <1>4, Compose DEF Quiet

LEMMA WorkerMarkUncertainType ==
    ASSUME TypeInv, NEW p \in Workers, WorkerMarkUncertain(p) PROVE Quiet
  <1>0. TaskOK' /\ KeepsRows /\ ClientOK' /\ RestOK'
      BY Parts, TaskSame, ClientSame, RestSame DEF WorkerMarkUncertain
  <1>1. worker[p].pc = "markunc" /\ worker[p].ord \in Orders
      BY WorkerFacts DEF WorkerMarkUncertain, At
  <1>2. OrderOK'
      BY <1>1, MarkedType, Parts DEF WorkerMarkUncertain, OrderOK
  <1>3. WorkerOK' /\ KeepsClaims
      BY Returns DEF WorkerMarkUncertain
  <1> QED BY <1>0, <1>2, <1>3, Compose DEF Quiet

LEMMA FinalizeFailedType ==
    ASSUME TypeInv, NEW p \in Workers, FinalizeFailed(p) PROVE Quiet
  <1> DEFINE w == worker[p]
             k == [Unlease(task[w.t]) EXCEPT !.status = "failed", !.prov = w.prov,
                                             !.stage = w.stage]
             j == IF w.err = "uncertain" /\ w.prov # None
                  THEN w.prov ELSE order[w.ord].prov
             f == SetBilling(w.ord, FailedBilling(p))
  <1>1. w.pc = "final" /\ w.ord \in Orders
      BY WorkerFacts DEF FinalizeFailed, At
  <1>2. w.t \in Tasks /\ task[w.t] \in TaskRow /\ task[w.t].status # "absent"
      BY <1>1, WorkerFacts
  <1>3. ClientOK'
      BY ClientSame DEF FinalizeFailed
  <1>4. RestOK'
      <2>1. outbox' \subseteq outbox \cup {w.t}
          BY DEF FinalizeFailed
      <2>2. UNCHANGED <<log, posts, up, left>>
          BY DEF FinalizeFailed
      <2> QED BY <1>2, <2>1, <2>2, Parts DEF RestOK
  <1>5. WorkerOK' /\ KeepsClaims
      BY Returns DEF FinalizeFailed
  <1>6. TaskOK' /\ KeepsRows
      <2>1. UNCHANGED task \/ task' = [task EXCEPT ![w.t] = k]
          BY DEF FinalizeFailed
      <2>2. w.prov \in Orders \cup {None} /\ w.stage \in Stages
          BY WorkerFacts
      <2>3. /\ k \in TaskRow /\ k.status # "absent"
            /\ k.order = task[w.t].order /\ k.gen = task[w.t].gen
          BY <1>2, <2>2, Statuses DEF TaskRow, Unlease
      <2> HIDE DEF k, w
      <2> QED BY <1>2, <2>1, <2>3, RowSet, TaskSame, Parts
  <1>7. OrderOK'
      <2>1. FailedBilling(p) \in BillingStatus
          BY DEF FailedBilling, BillingStatus, OpenBilling
      <2>2. f \in [Orders -> OrderRow]
          BY <1>1, <2>1, SetBillingType, Parts
      <2>3. j \in Orders \cup {None}
          BY <1>1, WorkerFacts, Parts DEF OrderOK, OrderRow
      <2>4. UNCHANGED order \/ order' = [order EXCEPT ![w.ord].status = FailedBilling(p),
                                                      ![w.ord].prov = j]
          BY DEF FinalizeFailed
      <2>5. UNCHANGED order \/ order' = [f EXCEPT ![w.ord].prov = j]
          <3> HIDE DEF j, w
          <3> QED BY <1>1, <2>4, Parts DEF SetBilling, OrderOK, OrderRow
      <2> HIDE DEF f, j, w
      <2> QED BY <1>1, <2>2, <2>3, <2>5, ProvSet, OrderSame DEF OrderOK
  <1> QED BY <1>3, <1>4, <1>5, <1>6, <1>7, Compose DEF Quiet

LEMMA ReadLatestType ==
    ASSUME TypeInv, NEW p \in Workers, ReadLatest(p) PROVE Quiet
  <1>0. TaskOK' /\ KeepsRows /\ OrderOK' /\ ClientOK' /\ RestOK'
      BY Parts, TaskSame, OrderSame, ClientSame, RestSame DEF ReadLatest
  <1>1. worker[p].pc \in JobPC
      BY DEF ReadLatest, At, JobPC
  <1>2. Goto(p, "persist") \/ Goto(p, "saveres") \/ Goto(p, "claimres")
      BY DEF ReadLatest
  <1>3. "persist" \in WorkerPC /\ "saveres" \in WorkerPC /\ "claimres" \in WorkerPC
      BY DEF WorkerPC
  <1>4. WorkerOK' /\ KeepsClaims
      BY <1>1, <1>2, <1>3, MovesWithJob
  <1> QED BY <1>0, <1>4, Compose DEF Quiet

LEMMA SaveCancelledTaskResultType ==
    ASSUME TypeInv, NEW p \in Workers, SaveCancelledTaskResult(p) PROVE Quiet
  <1> DEFINE w == worker[p]
             k == [Unlease(task[w.t]) EXCEPT !.result = w.job,
                                             !.stage = "cancel_reconciled"]
  <1>1. w.pc = "saveres" /\ w.ord \in Orders /\ w.job \in Orders
      BY WorkerFacts DEF SaveCancelledTaskResult, At, JobPC
  <1>2. w.t \in Tasks /\ task[w.t] \in TaskRow /\ task[w.t].status # "absent"
      BY <1>1, WorkerFacts
  <1>3. ClientOK'
      BY ClientSame DEF SaveCancelledTaskResult
  <1>4. RestOK'
      <2>1. outbox' \subseteq outbox \cup {w.t}
          BY DEF SaveCancelledTaskResult
      <2>2. UNCHANGED <<log, posts, up, left>>
          BY DEF SaveCancelledTaskResult
      <2> QED BY <1>2, <2>1, <2>2, Parts DEF RestOK
  <1>5. WorkerOK' /\ KeepsClaims
      <2>1. Return(p) \/ Goto(p, "markunc")
          BY DEF SaveCancelledTaskResult
      <2> QED BY <1>1, <2>1, Returns, Moves, PCs
  <1>6. TaskOK' /\ KeepsRows
      <2>1. UNCHANGED task \/ task' = [task EXCEPT ![w.t] = k]
          BY DEF SaveCancelledTaskResult
      <2>2. /\ k \in TaskRow /\ k.status # "absent"
            /\ k.order = task[w.t].order /\ k.gen = task[w.t].gen
          BY <1>1, <1>2, Statuses DEF TaskRow, Unlease
      <2> HIDE DEF k, w
      <2> QED BY <1>2, <2>1, <2>2, RowSet, TaskSame, Parts
  <1>7. OrderOK'
      <2>1. "uncertain" \in BillingStatus
          BY DEF BillingStatus, OpenBilling
      <2>2. UNCHANGED order \/ order' = SetBilling(w.ord, "uncertain")
          BY DEF SaveCancelledTaskResult
      <2> HIDE DEF w
      <2> QED BY <1>1, <2>1, <2>2, SetBillingType, OrderSame, Parts DEF OrderOK
  <1> QED BY <1>3, <1>4, <1>5, <1>6, <1>7, Compose DEF Quiet

LEMMA UpdateTaskProgress90Type ==
    ASSUME TypeInv, NEW p \in Workers, UpdateTaskProgress90(p) PROVE Quiet
  <1>0. TaskOK' /\ KeepsRows /\ OrderOK' /\ ClientOK' /\ RestOK'
      BY Parts, TaskSame, OrderSame, ClientSame, RestSame DEF UpdateTaskProgress90
  <1>1. worker[p].pc \in JobPC
      BY DEF UpdateTaskProgress90, At, JobPC
  <1>2. Goto(p, "complete") \/ Return(p)
      BY DEF UpdateTaskProgress90
  <1>3. "complete" \in WorkerPC
      BY DEF WorkerPC
  <1>4. WorkerOK' /\ KeepsClaims
      BY <1>1, <1>2, <1>3, MovesWithJob, Returns
  <1> QED BY <1>0, <1>4, Compose DEF Quiet

LEMMA FinalizeSucceededType ==
    ASSUME TypeInv, NEW p \in Workers, FinalizeSucceeded(p) PROVE Quiet
  <1> DEFINE w == worker[p]
             k == [Unlease(task[w.t]) EXCEPT !.status = "succeeded", !.result = w.job,
                                             !.prov = w.prov, !.stage = w.stage]
  <1>1. w.pc = "complete" /\ w.ord \in Orders /\ w.job \in Orders
      BY WorkerFacts DEF FinalizeSucceeded, At, JobPC
  <1>2. w.t \in Tasks /\ task[w.t] \in TaskRow /\ task[w.t].status # "absent"
      BY <1>1, WorkerFacts
  <1>3. ClientOK'
      BY ClientSame DEF FinalizeSucceeded
  <1>4. RestOK'
      <2>1. outbox' \subseteq outbox \cup {w.t}
          BY DEF FinalizeSucceeded
      <2>2. UNCHANGED <<log, posts, up, left>>
          BY DEF FinalizeSucceeded
      <2> QED BY <1>2, <2>1, <2>2, Parts DEF RestOK
  <1>5. WorkerOK' /\ KeepsClaims
      <2>1. \/ Goto(p, "settle")
            \/ worker' = [worker EXCEPT ![p].pc = "final", ![p].err = "uncertain"]
          BY DEF FinalizeSucceeded
      <2>2. CASE worker' = [worker EXCEPT ![p].pc = "final", ![p].err = "uncertain"]
          BY <1>1, <2>2, FailType, Errs, Parts
      <2> QED BY <1>1, <2>1, <2>2, Moves, PCs
  <1>6. TaskOK' /\ KeepsRows
      <2>1. UNCHANGED task \/ task' = [task EXCEPT ![w.t] = k]
          BY DEF FinalizeSucceeded
      <2>2. w.prov \in Orders \cup {None} /\ w.stage \in Stages
          BY WorkerFacts
      <2>3. /\ k \in TaskRow /\ k.status # "absent"
            /\ k.order = task[w.t].order /\ k.gen = task[w.t].gen
          BY <1>1, <1>2, <2>2, Statuses DEF TaskRow, Unlease
      <2> HIDE DEF k, w
      <2> QED BY <1>2, <2>1, <2>3, RowSet, TaskSame, Parts
  <1>7. OrderOK'
      <2>1. CompletedBilling(p) \in BillingStatus
          BY DEF CompletedBilling, BillingStatus, OpenBilling
      <2>2. UNCHANGED order \/ order' = SetBilling(w.ord, CompletedBilling(p))
          BY DEF FinalizeSucceeded
      <2> HIDE DEF w
      <2> QED BY <1>1, <2>1, <2>2, SetBillingType, OrderSame, Parts DEF OrderOK
  <1> QED BY <1>3, <1>4, <1>5, <1>6, <1>7, Compose DEF Quiet

LEMMA SettleCompletedType ==
    ASSUME TypeInv, NEW p \in Workers, SettleCompleted(p) PROVE Quiet
  <1>0. TaskOK' /\ KeepsRows /\ ClientOK' /\ RestOK'
      BY Parts, TaskSame, ClientSame, RestSame DEF SettleCompleted
  <1>1. worker[p].pc = "settle" /\ worker[p].ord \in Orders
      BY WorkerFacts DEF SettleCompleted, At
  <1>2. OrderOK'
      <2>1. "settled" \in BillingStatus
          BY DEF BillingStatus
      <2>2. UNCHANGED order \/ order' = SetBilling(worker[p].ord, "settled")
          BY DEF SettleCompleted
      <2> QED BY <1>1, <2>1, <2>2, SetBillingType, OrderSame, Parts DEF OrderOK
  <1>3. WorkerOK' /\ KeepsClaims
      BY Returns DEF SettleCompleted
  <1> QED BY <1>0, <1>2, <1>3, Compose DEF Quiet

LEMMA RenewTaskLeaseType ==
    ASSUME TypeInv, NEW p \in Workers, RenewTaskLease(p) PROVE Quiet
  <1> DEFINE t == worker[p].t
             k == [task[t] EXCEPT !.expired = FALSE]
  <1>0. OrderOK' /\ ClientOK' /\ RestOK'
      BY OrderSame, ClientSame, RestSame DEF RenewTaskLease
  <1>1. t \in Tasks /\ task[t] \in TaskRow /\ task[t].status # "absent"
      BY WorkerFacts DEF RenewTaskLease, Registered
  <1>2. WorkerOK' /\ KeepsClaims
      <2>1. UNCHANGED worker
                \/ worker' = [worker EXCEPT ![p].lost = TRUE, ![p].ctx = TRUE]
          BY DEF RenewTaskLease
      <2> QED BY <2>1, WorkerSame, FlagType, Parts
  <1>3. TaskOK' /\ KeepsRows
      <2>1. UNCHANGED task \/ task' = [task EXCEPT ![t].expired = FALSE]
          BY DEF RenewTaskLease
      <2>2. UNCHANGED task \/ task' = [task EXCEPT ![t] = k]
          BY <1>1, <2>1, Parts DEF TaskOK
      <2>3. /\ k \in TaskRow /\ k.status # "absent"
            /\ k.order = task[t].order /\ k.gen = task[t].gen
          BY <1>1 DEF TaskRow
      <2> HIDE DEF k, t
      <2> QED BY <1>1, <2>2, <2>3, RowSet, TaskSame, Parts
  <1> QED BY <1>0, <1>2, <1>3, Compose DEF Quiet

----------------------------------------------------------------------------
(* The clients' steps *)

\* What a client has read is there.
LEMMA ClientFacts ==
    ASSUME TypeInv, NEW c \in Clients, client[c].pc # "idle"
    PROVE  /\ client[c].t \in Tasks
           /\ task[client[c].t] \in TaskRow
           /\ client[c].ord \in Orders
  BY DEF TypeInv, ClientOK, TaskOK

LEMMA ClientSet ==
    ASSUME TypeInv, NEW c \in Clients, NEW pc \in ClientPC, NEW t \in Tasks,
           NEW o \in Orders,
           client' = [client EXCEPT ![c] = [pc |-> pc, t |-> t, ord |-> o]]
    PROVE  ClientOK'
  BY DEF TypeInv, ClientOK, ClientState

LEMMA ClientMoves ==
    ASSUME TypeInv, NEW c \in Clients, NEW pc \in ClientPC, client[c].pc # "idle",
           client' = [client EXCEPT ![c].pc = pc]
    PROVE  ClientOK'
  BY ClientFacts DEF TypeInv, ClientOK, ClientState

LEMMA ClientMovesTo ==
    ASSUME TypeInv, NEW c \in Clients, NEW pc \in ClientPC, NEW o \in Orders,
           client[c].pc # "idle",
           client' = [client EXCEPT ![c].pc = pc, ![c].ord = o]
    PROVE  ClientOK'
  BY ClientFacts DEF TypeInv, ClientOK, ClientState

LEMMA ClientFinishes ==
    ASSUME TypeInv, NEW c \in Clients, Finish(c)
    PROVE  ClientOK'
  BY DEF TypeInv, ClientOK, ClientState, ClientPC, Finish, IdleClient

LEMMA ClientPCs ==
    \A x \in {"idle", "cancelQueued", "cancelRunning", "refund", "markunc",
              "reread", "lastread", "retry", "resume"} : x \in ClientPC
  BY DEF ClientPC

LEMMA CancelActiveTaskType ==
    ASSUME TypeInv, NEW c \in Clients, NEW t \in Tasks, CancelActiveTask(c, t)
    PROVE  WorkerOK' /\ KeepsClaims
  <1>1. CASE UNCHANGED worker
      BY <1>1, WorkerSame, Parts
  <1>2. ASSUME NEW p \in Workers, worker' = [worker EXCEPT ![p].ctx = TRUE]
        PROVE  WorkerOK' /\ KeepsClaims
      <2> DEFINE lost == worker[p].lost
      <2>1. lost \in BOOLEAN
          BY WorkerFacts DEF WorkerState
      <2>2. worker' = [worker EXCEPT ![p].lost = lost, ![p].ctx = TRUE]
          BY <1>2, Parts DEF WorkerOK, WorkerState
      <2> HIDE DEF lost
      <2> QED BY <2>1, <2>2, FlagType, Parts
  <1> QED BY <1>1, <1>2 DEF CancelActiveTask

\* left["e"] - 1 is a natural number when something is left.
LEMMA LeftType ==
    ASSUME TypeInv, NEW e \in Events, left[e] > 0, left' = [left EXCEPT ![e] = @ - 1],
           UNCHANGED <<log, outbox, posts, up>>
    PROVE  RestOK'
  <1>1. left \in [Events -> Nat]
      BY DEF TypeInv, RestOK
  <1>2. left[e] - 1 \in Nat
      BY <1>1
  <1>3. left' \in [Events -> Nat]
      BY <1>1, <1>2
  <1> QED BY <1>3 DEF TypeInv, RestOK

LEMMA CancelTaskType ==
    ASSUME TypeInv, NEW c \in Clients, NEW t \in Tasks, CancelTask(c, t)
    PROVE  Quiet
  <1>0. TaskOK' /\ KeepsRows /\ OrderOK'
      BY Parts, TaskSame, OrderSame DEF CancelTask
  <1>1. RestOK'
      <2>1. "cancel" \in Events
          BY DEF Events
      <2> QED BY <2>1, LeftType DEF CancelTask
  <1>2. WorkerOK' /\ KeepsClaims
      BY CancelActiveTaskType, WorkerSame, Parts DEF CancelTask
  <1>3. ClientOK'
      <2>1. ASSUME NEW pc \in {"cancelQueued", "cancelRunning"}, task[t].status # "absent",
                   client' = [client EXCEPT ![c] = [pc |-> pc, t |-> t,
                                                     ord |-> task[t].order]]
            PROVE  ClientOK'
          <3>1. task[t].order \in Orders /\ pc \in ClientPC
              BY <2>1, ClientPCs, Parts DEF TaskOK
          <3> QED BY <2>1, <3>1, ClientSet
      <2>2. \/ UNCHANGED client
            \/ /\ task[t].status # "absent"
               /\ client' = [client EXCEPT ![c] = [pc |-> "cancelQueued", t |-> t,
                                                     ord |-> task[t].order]]
            \/ /\ task[t].status # "absent"
               /\ client' = [client EXCEPT ![c] = [pc |-> "cancelRunning", t |-> t,
                                                     ord |-> task[t].order]]
          BY DEF CancelTask
      <2> QED BY <2>1, <2>2, ClientSame
  <1> QED BY <1>0, <1>1, <1>2, <1>3, Compose DEF Quiet

\* The row CancelTaskIfStatus writes.
LEMMA CancelledType ==
    ASSUME TypeInv, NEW t \in Tasks, task[t].status # "absent",
           task' = [task EXCEPT ![t] = Cancelled(@)]
    PROVE  TaskOK' /\ KeepsRows
  <1> DEFINE k == Cancelled(task[t])
  <1>1. task[t] \in TaskRow
      BY Parts DEF TaskOK
  <1>2. /\ k \in TaskRow /\ k.status # "absent"
        /\ k.order = task[t].order /\ k.gen = task[t].gen + 1
      <2> DEFINE g == task[t].gen + 1
                 s == IF task[t].prov # None THEN "cancel_reconcile" ELSE task[t].stage
                 u == Unlease(task[t])
      <2>0. u.gen = task[t].gen /\ u.stage = task[t].stage
          BY <1>1 DEF TaskRow, Unlease
      <2>1. k = [u EXCEPT !.status = "cancelled", !.gen = g, !.stage = s]
          <3>1. k = [u EXCEPT !.status = "cancelled", !.gen = u.gen + 1,
                       !.stage = IF task[t].prov # None THEN "cancel_reconcile"
                                                        ELSE u.stage]
              BY DEF Cancelled
          <3> HIDE DEF u
          <3> QED BY <2>0, <3>1
      <2>2. g \in Nat /\ s \in Stages
          <3>1. task[t].gen \in Nat /\ task[t].stage \in Stages
              BY <1>1 DEF TaskRow
          <3>2. g \in Nat
              BY <3>1
          <3>3. s \in Stages
              BY <3>1, Statuses
          <3> QED BY <3>2, <3>3
      <2> HIDE DEF k, g, s, u
      <2>3. /\ k \in TaskRow /\ k.status # "absent"
            /\ k.order = task[t].order /\ k.gen = g
          BY <1>1, <2>1, <2>2, Statuses DEF TaskRow, Unlease, u
      <2> QED BY <2>3 DEF g
  <1>3. task' = [task EXCEPT ![t] = k]
      OBVIOUS
  <1> HIDE DEF k
  <1> QED BY <1>2, <1>3, RowSet

LEMMA CancelTaskIfQueuedType ==
    ASSUME TypeInv, NEW c \in Clients, CancelTaskIfQueued(c) PROVE Quiet
  <1> DEFINE t == client[c].t
  <1>0. OrderOK' /\ RestOK' /\ WorkerOK' /\ KeepsClaims
      BY OrderSame, RestSame, WorkerSame, Parts DEF CancelTaskIfQueued
  <1>1. client[c].pc = "cancelQueued" /\ t \in Tasks
      BY ClientFacts DEF CancelTaskIfQueued
  <1>2. TaskOK' /\ KeepsRows
      <2>1. \/ UNCHANGED task
            \/ task[t].status = "queued" /\ task' = [task EXCEPT ![t] = Cancelled(@)]
          BY DEF CancelTaskIfQueued
      <2> HIDE DEF t
      <2> QED BY <1>1, <2>1, TaskSame, CancelledType, Parts
  <1>3. ClientOK'
      <2>1. \/ client' = [client EXCEPT ![c].pc = "refund"]
            \/ client' = [client EXCEPT ![c].pc = "reread"]
          BY DEF CancelTaskIfQueued
      <2> QED BY <1>1, <2>1, ClientMoves, ClientPCs
  <1> QED BY <1>0, <1>2, <1>3, Compose DEF Quiet

LEMMA CancelTaskIfRunningType ==
    ASSUME TypeInv, NEW c \in Clients, CancelTaskIfRunning(c) PROVE Quiet
  <1> DEFINE t == client[c].t
  <1>0. OrderOK' /\ RestOK' /\ WorkerOK' /\ KeepsClaims
      BY OrderSame, RestSame, WorkerSame, Parts DEF CancelTaskIfRunning
  <1>1. client[c].pc = "cancelRunning" /\ t \in Tasks
      BY ClientFacts DEF CancelTaskIfRunning
  <1>2. TaskOK' /\ KeepsRows
      <2>1. \/ UNCHANGED task
            \/ task[t].status = "running" /\ task' = [task EXCEPT ![t] = Cancelled(@)]
          BY DEF CancelTaskIfRunning
      <2> HIDE DEF t
      <2> QED BY <1>1, <2>1, TaskSame, CancelledType, Parts
  <1>3. ClientOK'
      <2>1. \/ client' = [client EXCEPT ![c].pc = "markunc"]
            \/ client' = [client EXCEPT ![c].pc = "lastread"]
          BY DEF CancelTaskIfRunning
      <2> QED BY <1>1, <2>1, ClientMoves, ClientPCs
  <1> QED BY <1>0, <1>2, <1>3, Compose DEF Quiet

LEMMA CancelRefundType ==
    ASSUME TypeInv, NEW c \in Clients, CancelRefund(c) PROVE Quiet
  <1>0. TaskOK' /\ KeepsRows /\ RestOK' /\ WorkerOK' /\ KeepsClaims
      BY TaskSame, RestSame, WorkerSame, Parts DEF CancelRefund
  <1>1. client[c].pc = "refund" /\ client[c].ord \in Orders
      BY ClientFacts DEF CancelRefund
  <1>2. OrderOK'
      <2>1. "refunded" \in BillingStatus
          BY DEF BillingStatus
      <2>2. UNCHANGED order \/ order' = SetBilling(client[c].ord, "refunded")
          BY DEF CancelRefund
      <2> QED BY <1>1, <2>1, <2>2, SetBillingType, OrderSame, Parts DEF OrderOK
  <1>3. ClientOK'
      <2>1. Finish(c) \/ client' = [client EXCEPT ![c].pc = "reread"]
          BY DEF CancelRefund
      <2> QED BY <1>1, <2>1, ClientMoves, ClientFinishes, ClientPCs
  <1> QED BY <1>0, <1>2, <1>3, Compose DEF Quiet

LEMMA CancelMarkUncertainType ==
    ASSUME TypeInv, NEW c \in Clients, CancelMarkUncertain(c) PROVE Quiet
  <1>0. TaskOK' /\ KeepsRows /\ RestOK' /\ WorkerOK' /\ KeepsClaims
      BY TaskSame, RestSame, WorkerSame, Parts DEF CancelMarkUncertain
  <1>1. client[c].pc = "markunc" /\ client[c].ord \in Orders
      BY ClientFacts DEF CancelMarkUncertain
  <1>2. OrderOK'
      BY <1>1, MarkedType, Parts DEF CancelMarkUncertain, OrderOK
  <1>3. ClientOK'
      <2>1. Finish(c) \/ client' = [client EXCEPT ![c].pc = "lastread"]
          BY DEF CancelMarkUncertain
      <2> QED BY <1>1, <2>1, ClientMoves, ClientFinishes, ClientPCs
  <1> QED BY <1>0, <1>2, <1>3, Compose DEF Quiet

LEMMA CancelRereadType ==
    ASSUME TypeInv, NEW c \in Clients, CancelReread(c) PROVE Quiet
  <1> DEFINE t == client[c].t
  <1>0. TaskOK' /\ KeepsRows /\ OrderOK' /\ RestOK'
      BY TaskSame, OrderSame, RestSame, Parts DEF CancelReread
  <1>1. client[c].pc # "idle" /\ t \in Tasks
      BY ClientFacts DEF CancelReread
  <1>2. WorkerOK' /\ KeepsClaims
      <2>1. UNCHANGED worker \/ CancelActiveTask(c, t)
          BY DEF CancelReread
      <2> HIDE DEF t
      <2> QED BY <1>1, <2>1, CancelActiveTaskType, WorkerSame, Parts
  <1>3. ClientOK'
      <2>1. CASE /\ task[t].status = "running"
                 /\ client' = [client EXCEPT ![c].pc = "cancelRunning",
                                             ![c].ord = task[t].order]
          <3>1. task[t].order \in Orders /\ "cancelRunning" \in ClientPC
              BY <1>1, <2>1, ClientPCs, Parts DEF TaskOK
          <3> HIDE DEF t
          <3> QED BY <1>1, <2>1, <3>1, ClientMovesTo
      <2>2. CASE Finish(c)
          BY <2>2, ClientFinishes
      <2> QED BY <2>1, <2>2 DEF CancelReread
  <1> QED BY <1>0, <1>2, <1>3, Compose DEF Quiet

LEMMA RetryTaskType ==
    ASSUME TypeInv, NEW c \in Clients, NEW t \in Tasks, RetryTask(c, t)
    PROVE  Quiet
  <1>0. TaskOK' /\ KeepsRows /\ OrderOK' /\ WorkerOK' /\ KeepsClaims
      BY Parts, TaskSame, OrderSame, WorkerSame DEF RetryTask
  <1>1. RestOK'
      <2>1. "retry" \in Events
          BY DEF Events
      <2> QED BY <2>1, LeftType DEF RetryTask
  <1>2. task[t].order \in Orders
      BY Parts DEF RetryTask, TaskOK
  <1>3. ClientOK'
      <2>1. ASSUME NEW pc \in {"resume", "retry"},
                   client' = [client EXCEPT ![c] = [pc |-> pc, t |-> t,
                                                     ord |-> task[t].order]]
            PROVE  ClientOK'
          BY <1>2, <2>1, ClientSet, ClientPCs
      <2>2. \/ client' = [client EXCEPT ![c] = [pc |-> "resume", t |-> t,
                                                 ord |-> task[t].order]]
            \/ client' = [client EXCEPT ![c] = [pc |-> "retry", t |-> t,
                                                 ord |-> task[t].order]]
          BY DEF RetryTask
      <2> QED BY <2>1, <2>2
  <1> QED BY <1>0, <1>1, <1>3, Compose DEF Quiet

LEMMA RetryTaskWithBillingType ==
    ASSUME TypeInv, NEW c \in Clients, RetryTaskWithBilling(c) PROVE Quiet
  <1> DEFINE t == client[c].t
  <1>0. RestOK' /\ WorkerOK' /\ KeepsClaims /\ ClientOK'
      BY RestSame, WorkerSame, ClientFinishes, Parts DEF RetryTaskWithBilling
  <1>1. t \in Tasks /\ task[t] \in TaskRow
      BY ClientFacts DEF RetryTaskWithBilling
  <1>2. CASE UNCHANGED <<task, order>>
      BY <1>0, <1>2, TaskSame, OrderSame, Parts, Compose DEF Quiet
  <1>3. ASSUME NEW o \in Orders,
               order' = [order EXCEPT ![o] = [status |-> "reserved",
                                              prov |-> None, task |-> t]],
               task' = [task EXCEPT ![t] =
                      [AbsentTask EXCEPT !.status = "queued", !.order = o,
                                         !.gen = task[t].gen]]
        PROVE  Quiet
      <2> DEFINE k == [AbsentTask EXCEPT !.status = "queued", !.order = o,
                                         !.gen = task[t].gen]
      <2>1. k \in TaskRow /\ k.status # "absent" /\ k.order \in Orders
          BY <1>1, Statuses DEF TaskRow, AbsentTask
      <2>2. k.gen >= task[t].gen
          BY <1>1 DEF TaskRow, AbsentTask
      <2>3. OrderOK'
          BY <1>1, <1>3, Reserved, Parts DEF OrderOK
      <2>4. task' = [task EXCEPT ![t] = k]
          BY <1>3
      <2>5. TaskOK' /\ KeepsRows
          <3> HIDE DEF k, t
          <3> QED BY <1>1, <2>1, <2>2, <2>4, TaskSet, Parts
      <2> QED BY <1>0, <2>3, <2>5, Compose DEF Quiet
  <1> QED BY <1>2, <1>3 DEF RetryTaskWithBilling

LEMMA ResumeType ==
    ASSUME TypeInv, NEW c \in Clients, ResumeTaskWithUncertainBilling(c)
    PROVE  Quiet
  <1> DEFINE t == client[c].t
             k == [Unlease(task[t]) EXCEPT !.status = "queued", !.result = None,
                                           !.stage = "provider_resume"]
  <1>0. OrderOK' /\ RestOK' /\ WorkerOK' /\ KeepsClaims /\ ClientOK'
      BY OrderSame, RestSame, WorkerSame, ClientFinishes, Parts
         DEF ResumeTaskWithUncertainBilling
  <1>1. t \in Tasks /\ task[t] \in TaskRow
      BY ClientFacts DEF ResumeTaskWithUncertainBilling
  <1>2. TaskOK' /\ KeepsRows
      <2>1. UNCHANGED task \/ (task[t].status # "absent" /\ task' = [task EXCEPT ![t] = k])
          BY DEF ResumeTaskWithUncertainBilling, Resumable
      <2>2. /\ k \in TaskRow /\ k.status # "absent"
            /\ k.order = task[t].order /\ k.gen = task[t].gen
          BY <1>1, Statuses DEF TaskRow, Unlease
      <2> HIDE DEF k, t
      <2> QED BY <1>1, <2>1, <2>2, RowSet, TaskSame, Parts
  <1> QED BY <1>0, <1>2, Compose DEF Quiet

----------------------------------------------------------------------------
(* Claims *)

\* A claim creates a generation no worker of the task has, and disturbs no
\* other worker and no other task.
FreshClaim(p, t) ==
    /\ TypeInv'
    /\ worker'[p].t = t
    /\ worker'[p].gen = task[t].gen + 1
    /\ task'[t].gen = task[t].gen + 1
    /\ \A q \in Workers \ {p} : worker'[q] = worker[q]
    /\ \A u \in Tasks \ {t} : task'[u].gen = task[u].gen

LEMMA ClaimTaskType ==
    ASSUME TypeInv, NEW p \in Workers, NEW t \in Tasks, ClaimTask(p, t)
    PROVE  FreshClaim(p, t)
  <1> DEFINE g == task[t].gen + 1
             s == IF task[t].status = "cancelled" THEN "cancelled" ELSE "running"
             k == [task[t] EXCEPT !.status = s, !.owner = Proc[p],
                                  !.expired = FALSE, !.gen = g]
  <1>0. OrderOK' /\ ClientOK' /\ RestOK'
      BY OrderSame, ClientSame, RestSame DEF ClaimTask
  <1>1. /\ task[t] \in TaskRow /\ task[t].status # "absent"
        /\ g \in Nat /\ Proc[p] \in Procs
      <2>1. task[t] \in TaskRow /\ task[t].status # "absent"
          BY Parts DEF TaskOK, ClaimTask, Claimable
      <2>2. task[t].gen \in Nat
          BY <2>1 DEF TaskRow
      <2>3. g \in Nat
          BY <2>2
      <2> QED BY <2>1, <2>3, ActorAssumption
  <1>2. /\ worker' = [worker EXCEPT ![p].pc = "claimed", ![p].t = t, ![p].gen = g]
        /\ worker' \in [Workers -> WorkerState]
        /\ WorkerOK'
      <2>1. worker' = [worker EXCEPT ![p].pc = "claimed", ![p].t = t, ![p].gen = g]
          BY DEF ClaimTask
      <2> HIDE DEF g
      <2>2. WorkerOK'
          BY <1>1, <2>1, ClaimType, Parts
      <2> QED BY <2>1, <2>2 DEF WorkerOK
  <1>3. task' = [task EXCEPT ![t] = k]
      <2>1. task' = [task EXCEPT ![t].status = s, ![t].owner = Proc[p],
                                 ![t].expired = FALSE, ![t].gen = g]
          BY Parts DEF ClaimTask, TaskOK
      <2> HIDE DEF s, g
      <2> QED BY <2>1, Parts DEF TaskOK
  <1>4. /\ k \in TaskRow /\ k.status # "absent"
        /\ k.order = task[t].order /\ k.gen = g
      <2>1. s \in TaskStatus /\ s # "absent"
          BY Statuses
      <2> HIDE DEF s, g
      <2> QED BY <1>1, <2>1 DEF TaskRow
  <1>5. TaskOK' /\ KeepsRows
      <2> HIDE DEF k
      <2> QED BY <1>1, <1>3, <1>4, RowSet
  <1>6. /\ worker'[p].t = t /\ worker'[p].gen = g
        /\ \A q \in Workers \ {p} : worker'[q] = worker[q]
      <2> HIDE DEF g
      <2> QED BY <1>2, Parts DEF WorkerOK, WorkerState
  <1>7. task'[t].gen = g /\ \A u \in Tasks \ {t} : task'[u].gen = task[u].gen
      <2> HIDE DEF k, g
      <2> QED BY <1>3, <1>4, Parts DEF TaskOK
  <1>8. TaskExists'
      <2> SUFFICES ASSUME NEW q \in Workers, worker'[q].pc # "idle"
                   PROVE  task'[worker'[q].t].status # "absent"
          BY DEF TaskExists
      <2>1. CASE q = p
          BY <2>1, <1>1, <1>5, <1>6 DEF KeepsRows
      <2>2. CASE q # p
          <3>1. worker'[q] = worker[q]
              BY <1>6, <2>2
          <3> QED BY <3>1, <1>5, WorkerFacts DEF KeepsRows
      <2> QED BY <2>1, <2>2
  <1>9. TypeInv'
      BY <1>0, <1>2, <1>5, <1>8 DEF TypeInv
  <1> QED BY <1>6, <1>7, <1>9 DEF FreshClaim

LEMMA ClaimCancelledTaskResultType ==
    ASSUME TypeInv, NEW p \in Workers, ClaimCancelledTaskResult(p)
    PROVE  Quiet \/ FreshClaim(p, worker[p].t)
  <1> DEFINE t == worker[p].t
             g == task[t].gen + 1
             k == [task[t] EXCEPT !.owner = Proc[p], !.expired = FALSE, !.gen = g]
  <1>0. OrderOK' /\ ClientOK' /\ RestOK'
      BY OrderSame, ClientSame, RestSame DEF ClaimCancelledTaskResult
  <1>1. worker[p].pc = "claimres"
      BY DEF ClaimCancelledTaskResult, At
  <1>2. /\ t \in Tasks /\ task[t] \in TaskRow /\ task[t].status # "absent"
        /\ task[t].order \in Orders /\ Proc[p] \in Procs
      BY <1>1, WorkerFacts, ActorAssumption
  <1>3. CASE ~ResultClaimable(p)
      <2>1. Goto(p, "markunc") /\ UNCHANGED task
          BY <1>3 DEF ClaimCancelledTaskResult
      <2>2. WorkerOK' /\ KeepsClaims
          BY <1>1, <2>1, Moves, PCs
      <2> QED BY <1>0, <2>1, <2>2, TaskSame, Parts, Compose DEF Quiet
  <1>4. CASE ResultClaimable(p)
      <2>1. g \in Nat
          <3>1. task[t].gen \in Nat
              BY <1>2 DEF TaskRow
          <3> QED BY <3>1
      <2>2. worker' = [worker EXCEPT ![p].pc = "saveres", ![p].gen = g,
                                     ![p].ord = task[t].order]
          BY <1>4 DEF ClaimCancelledTaskResult
      <2>3. task' = [task EXCEPT ![t].owner = Proc[p], ![t].expired = FALSE,
                                 ![t].gen = g]
          BY <1>4, <1>2, Parts DEF ClaimCancelledTaskResult, TaskOK
      <2>4. WorkerOK'
          <3> HIDE DEF g, t
          <3> QED BY <1>1, <1>2, <2>1, <2>2, ResultClaimType, Parts
      <2>5. task' = [task EXCEPT ![t] = k]
          <3> HIDE DEF g
          <3> QED BY <2>3, <1>2, Parts DEF TaskOK
      <2>6. /\ k \in TaskRow /\ k.status # "absent"
            /\ k.order = task[t].order /\ k.gen = g
          <3> HIDE DEF g
          <3> QED BY <1>2, <2>1 DEF TaskRow
      <2>7. TaskOK' /\ KeepsRows
          <3> HIDE DEF k, t
          <3> QED BY <1>2, <2>5, <2>6, RowSet DEF g
      <2>8. /\ worker'[p].t = t /\ worker'[p].gen = g
            /\ \A q \in Workers \ {p} : worker'[q] = worker[q]
          <3> HIDE DEF g
          <3> QED BY <2>2, Parts DEF WorkerOK, WorkerState
      <2>9. task'[t].gen = g /\ \A u \in Tasks \ {t} : task'[u].gen = task[u].gen
          <3> HIDE DEF k, g
          <3> QED BY <1>2, <2>5, <2>6, Parts DEF TaskOK
      <2>10. TaskExists'
          <3> SUFFICES ASSUME NEW q \in Workers, worker'[q].pc # "idle"
                       PROVE  task'[worker'[q].t].status # "absent"
              BY DEF TaskExists
          <3>1. worker'[q].t = worker[q].t /\ worker[q].pc # "idle"
              BY <1>1, <2>8
          <3> QED BY <3>1, <2>7, WorkerFacts DEF KeepsRows
      <2>11. TypeInv'
          BY <1>0, <2>4, <2>7, <2>10 DEF TypeInv
      <2> QED BY <2>8, <2>9, <2>11 DEF FreshClaim
  <1> QED BY <1>3, <1>4

----------------------------------------------------------------------------
(* The other steps *)

LEMMA CreateTaskType == ASSUME TypeInv, NEW t \in Tasks, CreateTask(t) PROVE Quiet
  <1>0. WorkerOK' /\ KeepsClaims /\ ClientOK' /\ RestOK'
      BY WorkerSame, ClientSame, RestSame, Parts DEF CreateTask
  <1>1. PICK o \in Orders :
            /\ order' = [order EXCEPT ![o] = [status |-> "reserved",
                                              prov |-> None, task |-> t]]
            /\ task' = [task EXCEPT ![t].status = "queued", ![t].order = o]
      BY DEF CreateTask
  <1> DEFINE k == [task[t] EXCEPT !.status = "queued", !.order = o]
  <1>2. task[t] \in TaskRow
      BY Parts DEF TaskOK
  <1>3. OrderOK'
      BY <1>1, Reserved, Parts DEF OrderOK
  <1>4. /\ k \in TaskRow /\ k.status # "absent" /\ k.order \in Orders
        /\ k.gen = task[t].gen /\ k.gen \in Nat
      BY <1>2, Statuses DEF TaskRow
  <1>5. task' = [task EXCEPT ![t] = k]
      BY <1>1, Parts DEF TaskOK
  <1>6. TaskOK' /\ KeepsRows
      <2> HIDE DEF k
      <2>1. k.gen >= task[t].gen
          BY <1>4
      <2> QED BY <1>4, <1>5, <2>1, TaskSet, Parts
  <1> QED BY <1>0, <1>3, <1>6, Compose DEF Quiet

LEMMA LeaseExpiresType ==
    ASSUME TypeInv, NEW t \in Tasks, LeaseExpires(t) PROVE Quiet
  <1>0. WorkerOK' /\ KeepsClaims /\ ClientOK' /\ OrderOK'
      BY WorkerSame, ClientSame, OrderSame, Parts DEF LeaseExpires
  <1>1. RestOK'
      <2>1. "stall" \in Events
          BY DEF Events
      <2>2. CASE UNCHANGED left
          BY <2>2, RestSame DEF LeaseExpires
      <2>3. CASE left["stall"] > 0 /\ left' = [left EXCEPT !["stall"] = @ - 1]
          BY <2>1, <2>3, LeftType DEF LeaseExpires
      <2> QED BY <2>2, <2>3 DEF LeaseExpires
  <1>2. task' = [task EXCEPT ![t].expired = TRUE] /\ task \in [Tasks -> TaskRow]
      BY Parts DEF LeaseExpires, TaskOK
  <1>3. /\ task' \in [Tasks -> TaskRow]
        /\ \A u \in Tasks : /\ task'[u].gen = task[u].gen /\ task[u].gen \in Nat
                            /\ task'[u].status = task[u].status
                            /\ task'[u].order = task[u].order
      BY <1>2 DEF TaskRow
  <1>4. TaskOK' /\ KeepsRows
      BY <1>3, Parts DEF TaskOK, KeepsRows
  <1> QED BY <1>0, <1>1, <1>4, Compose DEF Quiet

LEMMA OrderStepType ==
    ASSUME TypeInv, NEW o \in Orders, ResolveBillingOrder(o) \/ ReconcileBillingOrder(o)
    PROVE  Quiet
  <1>0. /\ TaskOK' /\ KeepsRows /\ WorkerOK' /\ KeepsClaims /\ ClientOK' /\ RestOK'
      BY TaskSame, WorkerSame, ClientSame, RestSame, Parts
         DEF ResolveBillingOrder, ReconcileBillingOrder
  <1>1. order' = SetBilling(o, "settled") \/ order' = SetBilling(o, "refunded")
      BY ShapeAssumption DEF ResolveBillingOrder, ReconcileBillingOrder
  <1>2. "settled" \in BillingStatus /\ "refunded" \in BillingStatus
      BY DEF BillingStatus
  <1>3. OrderOK'
      BY <1>1, <1>2, SetBillingType, Parts DEF OrderOK
  <1> QED BY <1>0, <1>3, Compose DEF Quiet

LEMMA ProviderFinishesType ==
    ASSUME TypeInv, NEW o \in Orders, ProviderFinishes(o) PROVE Quiet
  <1>0. /\ TaskOK' /\ KeepsRows /\ WorkerOK' /\ KeepsClaims /\ ClientOK' /\ OrderOK'
      BY TaskSame, WorkerSame, ClientSame, OrderSame, Parts DEF ProviderFinishes
  <1>1. RestOK'
      BY Parts DEF ProviderFinishes, RestOK, Jobs
  <1> QED BY <1>0, <1>1, Compose DEF Quiet

LEMMA CrashType == ASSUME TypeInv, NEW x, Crash(x) PROVE Quiet
  <1>0. TaskOK' /\ KeepsRows /\ OrderOK'
      BY TaskSame, OrderSame, Parts DEF Crash
  <1>1. RestOK'
      <2>1. "crash" \in Events
          BY DEF Events
      <2> QED BY <2>1, LeftType DEF Crash
  <1>2. \A p \in Workers : worker'[p] = IdleWorker \/ worker'[p] = worker[p]
      BY DEF Crash
  <1>3. WorkerOK'
      BY <1>2, IdleType, Parts DEF Crash, WorkerOK
  <1>4. KeepsClaims
      <2>1. IdleWorker.pc = "idle"
          BY DEF IdleWorker
      <2> QED BY <1>2, <2>1 DEF KeepsClaims
  <1>5. ClientOK'
      <2>1. IdleClient \in ClientState /\ IdleClient.pc = "idle"
          BY DEF IdleClient, ClientState, ClientPC
      <2> QED BY <2>1, Parts DEF Crash, ClientOK
  <1> QED BY <1>0, <1>1, <1>3, <1>4, <1>5, Compose DEF Quiet

----------------------------------------------------------------------------
(* Type correctness *)

LEMMA StutterType == ASSUME TypeInv, UNCHANGED vars PROVE Quiet
  BY TaskSame, WorkerSame, ClientSame, OrderSame, RestSame, Parts, Compose
     DEF Quiet, vars

LEMMA WorkerStepType ==
    ASSUME TypeInv, NEW p \in Workers, WorkerStep(p)
    PROVE  Quiet \/ FreshClaim(p, worker[p].t)
  BY RereadType, VerifyEnvelopeType, UpdateTaskProgressType, ReadBillingType,
     StartBillingType, CallFailsType, ResumeJobType, BeginProviderCreateType,
     PostType, SaveProviderCallType, PollType, HandleErrorType,
     ScheduleReconciliationType, WorkerMarkUncertainType, FinalizeFailedType,
     ReadLatestType, ClaimCancelledTaskResultType, SaveCancelledTaskResultType,
     UpdateTaskProgress90Type, FinalizeSucceededType, SettleCompletedType
     DEF WorkerStep

LEMMA ClientStepType ==
    ASSUME TypeInv, NEW c \in Clients, ClientStep(c)
    PROVE  Quiet
  BY CancelTaskIfQueuedType, CancelTaskIfRunningType, CancelRefundType,
     CancelMarkUncertainType, CancelRereadType, RetryTaskWithBillingType, ResumeType
     DEF ClientStep

\* Every step is quiet or a fresh claim by some worker of an existing task.
LEMMA StepType ==
    ASSUME TypeInv, [Next]_vars
    PROVE  Quiet \/ \E p \in Workers, t \in Tasks : FreshClaim(p, t)
  <1>1. ASSUME NEW p \in Workers, WorkerStep(p)
        PROVE  Quiet \/ \E t \in Tasks : FreshClaim(p, t)
      <2>1. worker[p].pc # "idle"
          BY <1>1 DEF WorkerStep, At, Reread, VerifyEnvelope, UpdateTaskProgress,
             ReadBilling, StartBilling, CallFails, ResumeJob, BeginProviderCreate,
             Post, SaveProviderCall, Poll, HandleError, ScheduleReconciliation,
             WorkerMarkUncertain, FinalizeFailed, ReadLatest,
             ClaimCancelledTaskResult, SaveCancelledTaskResult,
             UpdateTaskProgress90, FinalizeSucceeded, SettleCompleted
      <2>2. worker[p].t \in Tasks
          BY <2>1, WorkerFacts
      <2> QED BY <1>1, <2>2, WorkerStepType
  <1>2. CASE UNCHANGED vars
      BY <1>2, StutterType
  <1>3. ASSUME NEW t \in Tasks, CreateTask(t) \/ LeaseExpires(t) PROVE Quiet
      BY <1>3, CreateTaskType, LeaseExpiresType
  <1>4. ASSUME NEW p \in Workers, ClaimNextTask(p)
        PROVE  \E t \in Tasks : FreshClaim(p, t)
      BY <1>4, ClaimTaskType DEF ClaimNextTask
  <1>5. ASSUME NEW p \in Workers, RenewTaskLease(p) PROVE Quiet
      BY <1>5, RenewTaskLeaseType
  <1>6. ASSUME NEW c \in Clients, ClientStep(c) PROVE Quiet
      BY <1>6, ClientStepType
  <1>7. ASSUME NEW c \in Clients, NEW t \in Tasks, CancelTask(c, t) \/ RetryTask(c, t)
        PROVE  Quiet
      BY <1>7, CancelTaskType, RetryTaskType
  <1>8. ASSUME NEW o \in Orders,
               \/ ResolveBillingOrder(o) \/ ReconcileBillingOrder(o)
               \/ ProviderFinishes(o)
        PROVE  Quiet
      BY <1>8, OrderStepType, ProviderFinishesType
  <1>9. ASSUME NEW x \in Crashable, Crash(x) PROVE Quiet
      BY <1>9, CrashType
  <1> QED BY <1>1, <1>2, <1>3, <1>4, <1>5, <1>6, <1>7, <1>8, <1>9 DEF Next

LEMMA TypeInit == Init => TypeInv
  <1> SUFFICES ASSUME Init PROVE TypeInv
      OBVIOUS
  <1>1. TaskOK
      BY DEF Init, TaskOK, AbsentTask, TaskRow, TaskStatus, Stages
  <1>2. OrderOK
      BY DEF Init, OrderOK, UnusedOrder, OrderRow, BillingStatus
  <1>3. WorkerOK
      BY IdleType DEF Init, WorkerOK
  <1>4. ClientOK
      BY DEF Init, ClientOK, IdleClient, ClientState, ClientPC
  <1>5. RestOK
      BY BoundAssumption DEF Init, RestOK, Jobs
  <1>6. TaskExists
      BY DEF Init, TaskExists, IdleWorker
  <1> QED BY <1>1, <1>2, <1>3, <1>4, <1>5, <1>6 DEF TypeInv

LEMMA TypeStep == TypeInv /\ [Next]_vars => TypeInv'
  BY StepType DEF Quiet, FreshClaim

\* The rows, the local states of workers and requests, and the references
\* between them stay well formed.
THEOREM TypeCorrect == Spec => []TypeOK
  BY TypeInit, TypeStep, TypeParts, PTL DEF Spec

----------------------------------------------------------------------------
(* Exclusive leases *)

\* Generations only grow, and no two workers of a task got the same one.
LeaseInv ==
    /\ \A p \in Workers :
          worker[p].pc # "idle" => worker[p].gen <= task[worker[p].t].gen
    /\ \A p, q \in Workers :
          /\ worker[p].pc # "idle" /\ worker[q].pc # "idle"
          /\ worker[p].t = worker[q].t
          /\ worker[p].gen = worker[q].gen
          => p = q

LEMMA LeaseQuiet == ASSUME TypeInv, LeaseInv, Quiet PROVE LeaseInv'
  <1>1. ASSUME NEW p \in Workers, worker'[p].pc # "idle"
        PROVE  worker'[p].gen <= task'[worker'[p].t].gen
      <2>1. /\ worker[p].pc # "idle" /\ worker'[p].t = worker[p].t
            /\ worker'[p].gen = worker[p].gen
          BY <1>1 DEF Quiet, KeepsClaims
      <2>2. /\ worker[p].t \in Tasks /\ worker[p].gen \in Nat
            /\ task[worker[p].t].gen \in Nat
          BY <2>1, WorkerFacts DEF TaskRow
      <2>3. task'[worker[p].t].gen \in Nat
          BY <2>2 DEF Quiet, TypeInv, TaskOK, TaskRow
      <2>4. worker[p].gen <= task[worker[p].t].gen
          BY <2>1 DEF LeaseInv
      <2>5. task'[worker[p].t].gen >= task[worker[p].t].gen
          BY <2>2 DEF Quiet, KeepsRows
      <2> QED BY <2>1, <2>2, <2>3, <2>4, <2>5
  <1>2. ASSUME NEW p \in Workers, NEW q \in Workers,
               worker'[p].pc # "idle", worker'[q].pc # "idle",
               worker'[p].t = worker'[q].t, worker'[p].gen = worker'[q].gen
        PROVE  p = q
      BY <1>2 DEF Quiet, KeepsClaims, LeaseInv
  <1> QED BY <1>1, <1>2 DEF LeaseInv

LEMMA LeaseClaim ==
    ASSUME TypeInv, LeaseInv, NEW p \in Workers, NEW t \in Tasks, FreshClaim(p, t)
    PROVE  LeaseInv'
  <1>1. task[t].gen \in Nat
      BY Parts DEF TaskOK, TaskRow
  <1>2. ASSUME NEW q \in Workers, q # p, worker'[q].pc # "idle"
        PROVE  /\ worker'[q] = worker[q] /\ worker[q].pc # "idle"
               /\ worker[q].t \in Tasks /\ worker[q].gen \in Nat
               /\ task[worker[q].t].gen \in Nat
               /\ worker[q].gen <= task[worker[q].t].gen
      <2>1. worker'[q] = worker[q] /\ worker[q].pc # "idle"
          BY <1>2 DEF FreshClaim
      <2> QED BY <2>1, WorkerFacts DEF LeaseInv, TaskRow
  <1>3. ASSUME NEW q \in Workers, worker'[q].pc # "idle"
        PROVE  worker'[q].gen <= task'[worker'[q].t].gen
      <2>1. CASE q = p
          BY <1>1, <2>1 DEF FreshClaim
      <2>2. CASE q # p /\ worker[q].t = t
          BY <1>1, <1>2, <1>3, <2>2 DEF FreshClaim
      <2>3. CASE q # p /\ worker[q].t # t
          BY <1>2, <1>3, <2>3 DEF FreshClaim
      <2> QED BY <2>1, <2>2, <2>3
  <1>4. ASSUME NEW q \in Workers, q # p, worker'[q].pc # "idle", worker'[q].t = t
        PROVE  worker'[q].gen # worker'[p].gen
      BY <1>1, <1>2, <1>4 DEF FreshClaim
  <1>5. ASSUME NEW q \in Workers, NEW r \in Workers,
               worker'[q].pc # "idle", worker'[r].pc # "idle",
               worker'[q].t = worker'[r].t, worker'[q].gen = worker'[r].gen
        PROVE  q = r
      <2>1. CASE q = p /\ r # p
          BY <1>4, <1>5, <2>1 DEF FreshClaim
      <2>2. CASE q # p /\ r = p
          BY <1>4, <1>5, <2>2 DEF FreshClaim
      <2>3. CASE q # p /\ r # p
          BY <1>2, <1>5, <2>3 DEF LeaseInv
      <2> QED BY <2>1, <2>2, <2>3
  <1> QED BY <1>3, <1>5 DEF LeaseInv

LEMMA LeaseStep == TypeInv /\ LeaseInv /\ [Next]_vars => LeaseInv'
  BY StepType, LeaseQuiet, LeaseClaim

LEMMA LeaseInit == Init => LeaseInv
  <1>1. IdleWorker.pc = "idle"
      BY DEF IdleWorker
  <1>2. Init => \A p \in Workers : worker[p] = IdleWorker
      BY DEF Init
  <1> QED BY <1>1, <1>2 DEF LeaseInv

\* At no time do two workers of a task, of the same process or not, both pass
\* the lease check.
THEOREM ExclusiveLease == Spec => []NoSharedLease
  <1>1. LeaseInv => NoSharedLease
      BY DEF LeaseInv, NoSharedLease, HoldsLease
  <1> QED BY <1>1, TypeInit, TypeStep, LeaseInit, LeaseStep, PTL DEF Spec

=============================================================================
