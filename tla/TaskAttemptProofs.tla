------------------------- MODULE TaskAttemptProofs -------------------------
(***************************************************************************)
(* What an attempt of a task may do, for every instance of TaskExecution:  *)
(* its output is the only one the task ever shows while it is the current  *)
(* attempt, and its create request leaves at most once, whatever workers   *)
(* of earlier claims still do.                                             *)
(*                                                                         *)
(* The argument has three layers.  Every step moves a row in one of a few  *)
(* ways (Advances), so that what a worker knows about its row (Fits) survives *)
(* the steps of others.  From these, Attempts relates rows, orders and     *)
(* workers, and OnePending counts the create requests.                     *)
(***************************************************************************)
EXTENDS TaskExecutionProofs

----------------------------------------------------------------------------
(* The invariant: rows, orders and workers of one attempt *)

\* A row refers to the job and to the output of its own order only, and a
\* lease is held on running and cancelled tasks only.
RowFits(k) ==
    /\ k.status = "absent" => k = AbsentTask
    /\ k.prov # None => k.prov = k.order
    /\ k.result # None => k.result = k.order
    /\ k.owner # None => k.status \in {"running", "cancelled"}

RowInv == \A t \in Tasks :
    /\ RowFits(task[t])
    /\ task[t].status # "absent" => order[task[t].order].task = t

OrderInv == \A o \in Orders :
    order[o].status = "unused" => order[o].task = None /\ posts[o] = 0

Holds(w, x, k) == k.owner = x /\ k.gen = w.gen

\* What a busy worker w of process x may rely on about the row k of its task.
\* While nobody else has claimed the row (the same generation), or when it has
\* been cancelled since (the next one), its order is still the worker's.
Fits(w, x, k) ==
    /\ w.pc = "claimed" /\ Holds(w, x, k) /\ k.status = "cancelled" => k.prov # None
    /\ w.pc \notin {"idle", "claimed"} =>
          /\ w.prov # None => w.prov = w.ord
          /\ w.rec => w.prov # None
          /\ Holds(w, x, k) => w.ord = k.order
    /\ w.pc = "claimres" => ~w.rec
    /\ w.pc = "readbill" => w.prov # None
    /\ w.pc \in {"post", "save"} => w.prov = None
    /\ w.pc \in JobPC => w.job = w.ord
    /\ w.pc \notin {"idle", "claimed", "saveres", "markunc"} /\ ~w.rec =>
          /\ k.gen = w.gen => k.status \in {"running", "succeeded"} /\ w.ord = k.order
          /\ k.gen = w.gen + 1 /\ k.status = "cancelled" => w.ord = k.order

WorkerFits(p) ==
    worker[p].pc # "idle" =>
        /\ Fits(worker[p], Proc[p], task[worker[p].t])
        /\ worker[p].pc # "claimed" => order[worker[p].ord].task = worker[p].t
WorkerInv == \A p \in Workers : WorkerFits(p)

Attempts == RowInv /\ OrderInv /\ WorkerInv

----------------------------------------------------------------------------
(* How rows and orders move *)

\* The creation boundary of the row has not been passed and may still be.
Uncreated(k) == k.status \in {"queued", "running"} /\ k.stage = ""

\* A new owner comes with a new generation, a task becomes cancelled from
\* queued or running with a new generation, a new order comes to a task that
\* is not running, and an order does not become uncreated again.
Advances(k, n) ==
    /\ n.gen >= k.gen
    /\ n.gen = k.gen /\ n.owner # None => n.owner = k.owner
    /\ n.status = "cancelled" =>
          /\ n.order = k.order
          /\ \/ k.status = "cancelled" /\ (k.prov # None => n.prov # None)
             \/ k.status \in {"queued", "running"} /\ n.gen = k.gen + 1
    /\ n.order # k.order => /\ n.owner = None
                            /\ k.status \in {"absent", "failed", "cancelled"}
    /\ n.gen = k.gen /\ k.status = "succeeded" => n.status = "succeeded"
    /\ n.order = k.order /\ Uncreated(n) => Uncreated(k)

\* A running task is ended under the claim that runs it.
Ends(k, n) == n.gen = k.gen /\ k.status = "running" /\ n.status # "running"

RowsAdvance == \A t \in Tasks :
    /\ Advances(task[t], task'[t])
    /\ task'[t].order # task[t].order => order[task'[t].order].status = "unused"

NoneEnds == \A t \in Tasks : ~Ends(task[t], task'[t])

\* An order is taken once, and stays with its task.
OrderKept(a, b) == /\ b.task = a.task
                   /\ b.status \in {"unused", "reserved"} => a.status = b.status
OrdersMove == \A o \in Orders :
    \/ OrderKept(order[o], order'[o])
    \/ order[o].status = "unused" /\ order'[o].status = "reserved"

LEMMA AdvancesSelf == ASSUME NEW k \in TaskRow PROVE Advances(k, k) /\ ~Ends(k, k)
  <1>1. k.gen \in Nat /\ k.status \in TaskStatus
      BY DEF TaskRow
  <1>2. k.gen >= k.gen /\ k.gen # k.gen + 1
      BY <1>1
  <1>3. Advances(k, k)
      BY <1>2 DEF Advances
  <1> QED BY <1>3 DEF Ends

LEMMA RowsSame == ASSUME TypeInv, UNCHANGED task PROVE RowsAdvance /\ NoneEnds
  BY AdvancesSelf, Parts DEF RowsAdvance, NoneEnds, TaskOK

LEMMA OrdersSame == ASSUME UNCHANGED order PROVE OrdersMove
  BY DEF OrdersMove, OrderKept

LEMMA OrdersSet ==
    ASSUME OrderOK, NEW o \in Orders, NEW s \in {"running", "uncertain", "settled", "refunded"},
           order' = SetBilling(o, s)
    PROVE  OrdersMove
  BY DEF OrderOK, OrderRow, SetBilling, OrdersMove, OrderKept

LEMMA OrdersMarked ==
    ASSUME OrderOK, NEW o \in Orders, order' = MarkedUncertain(o)
    PROVE  OrdersMove
  BY OrdersSet, OrdersSame DEF MarkedUncertain

LEMMA OrdersLogged ==
    ASSUME OrderOK, NEW o \in Orders, order' \in FailureLogged(o)
    PROVE  OrdersMove
  BY OrdersMarked, OrdersSame DEF FailureLogged

\* A reference from a row that exists to its order outlives every step.
LEMMA TaskOfOrder ==
    ASSUME OrderInv, OrdersMove, NEW o \in Orders, order[o].task # None
    PROVE  order'[o].task = order[o].task
  BY DEF OrderInv, OrdersMove, OrderKept

LEMMA RowsKept ==
    ASSUME TypeInv, RowInv, OrderInv, OrdersMove, UNCHANGED task
    PROVE  RowInv'
  BY TaskOfOrder, NoneAssumption, Parts DEF RowInv, TaskOK

\* One row changes and keeps its order.
LEMMA SetsRow ==
    ASSUME TypeInv, RowInv, OrderInv, OrdersMove, NEW t \in Tasks, NEW n \in TaskRow,
           task[t].status # "absent", n.order = task[t].order,
           task' = [task EXCEPT ![t] = n], Advances(task[t], n), RowFits(n)
    PROVE  /\ RowsAdvance
           /\ RowInv'
           /\ task'[t] = n
           /\ \A u \in Tasks \ {t} : task'[u] = task[u] /\ ~Ends(task[u], task'[u])
  <1>1. task'[t] = n /\ \A u \in Tasks \ {t} : task'[u] = task[u]
      BY Parts DEF TaskOK
  <1>2. ASSUME NEW u \in Tasks \ {t}
        PROVE  task'[u] = task[u] /\ Advances(task[u], task'[u]) /\ ~Ends(task[u], task'[u])
      BY <1>1, AdvancesSelf, Parts DEF TaskOK
  <1>3. RowsAdvance
      BY <1>1, <1>2 DEF RowsAdvance
  <1>4. ASSUME NEW u \in Tasks, task[u].status # "absent"
        PROVE  order'[task[u].order].task = u
      BY <1>4, TaskOfOrder, NoneAssumption, Parts DEF RowInv, TaskOK
  <1>5. RowInv'
      <2> SUFFICES ASSUME NEW u \in Tasks
                   PROVE  /\ RowFits(task'[u])
                          /\ task'[u].status # "absent" =>
                                order'[task'[u].order].task = u
          BY DEF RowInv
      <2>1. CASE u = t
          BY <1>1, <1>4, <2>1
      <2>2. CASE u # t
          BY <1>1, <1>4, <2>2 DEF RowInv
      <2> QED BY <2>1, <2>2
  <1>6. \A u \in Tasks \ {t} : task'[u] = task[u] /\ ~Ends(task[u], task'[u])
      BY <1>2
  <1> QED BY <1>1, <1>3, <1>5, <1>6

----------------------------------------------------------------------------
(* What a worker relies on *)

\* The steps of others leave it true.
LEMMA FitsMoved ==
    ASSUME NEW w \in WorkerState, NEW x \in Procs,
           NEW k \in TaskRow, NEW n \in TaskRow,
           Fits(w, x, k), Advances(k, n), w.gen <= k.gen,
           ~(Ends(k, n) /\ w.gen = k.gen)
    PROVE  Fits(w, x, n)
  <1>1. /\ w.gen \in Nat /\ k.gen \in Nat /\ n.gen \in Nat /\ n.gen >= k.gen
        /\ x # None /\ w.gen # w.gen + 1
      BY NoneAssumption DEF WorkerState, TaskRow, Advances
  <1>2. Holds(w, x, n) => Holds(w, x, k) /\ n.gen = k.gen /\ n.order = k.order
      <2> SUFFICES ASSUME n.owner = x, n.gen = w.gen
                   PROVE  k.owner = x /\ k.gen = w.gen /\ n.order = k.order
          BY DEF Holds
      <2>1. n.gen = k.gen
          BY <1>1
      <2> QED BY <1>1, <2>1 DEF Advances
  <1>3. Holds(w, x, n) /\ n.status = "cancelled" =>
           k.status = "cancelled" /\ (k.prov # None => n.prov # None)
      <2> SUFFICES ASSUME Holds(w, x, n), n.status = "cancelled"
                   PROVE  k.status = "cancelled" /\ (k.prov # None => n.prov # None)
          OBVIOUS
      <2>1. n.gen # k.gen + 1
          BY <1>1, <1>2
      <2> QED BY <2>1 DEF Advances
  <1> DEFINE past == w.pc \notin {"idle", "claimed", "saveres", "markunc"} /\ ~w.rec
  <1>4. ASSUME past, n.gen = w.gen
        PROVE  n.status \in {"running", "succeeded"} /\ w.ord = n.order
      <2>1. k.gen = w.gen
          BY <1>1, <1>4
      <2>2. k.status \in {"running", "succeeded"} /\ w.ord = k.order
          BY <1>4, <2>1 DEF Fits
      <2>3. n.order = k.order
          BY <2>2 DEF Advances
      <2>4. n.status \in {"running", "succeeded"}
          BY <1>4, <2>1, <2>2 DEF Advances, Ends
      <2> QED BY <2>2, <2>3, <2>4
  <1>5. ASSUME past, n.gen = w.gen + 1, n.status = "cancelled"
        PROVE  w.ord = n.order
      <2>1. CASE k.status = "cancelled"
          <3>1. k.gen # w.gen
              BY <1>5, <2>1 DEF Fits
          <3>2. k.gen = w.gen + 1
              BY <1>1, <1>5, <3>1
          <3> QED BY <1>5, <2>1, <3>2 DEF Fits, Advances
      <2>2. CASE k.status # "cancelled"
          <3>1. n.gen = k.gen + 1 /\ n.order = k.order
              BY <1>5, <2>2 DEF Advances
          <3>2. k.gen = w.gen
              BY <1>1, <1>5, <3>1
          <3> QED BY <1>5, <3>1, <3>2 DEF Fits
      <2> QED BY <2>1, <2>2
  <1> HIDE DEF past
  <1>6. w.pc = "claimed" /\ Holds(w, x, n) /\ n.status = "cancelled" => n.prov # None
      BY <1>2, <1>3 DEF Fits
  <1>7. w.pc \notin {"idle", "claimed"} /\ Holds(w, x, n) => w.ord = n.order
      BY <1>2 DEF Fits
  <1> QED BY <1>4, <1>5, <1>6, <1>7 DEF Fits, past

\* What a worker keeps when it only moves on.
Copy(w, v) == /\ v.t = w.t /\ v.gen = w.gen /\ v.ord = w.ord
              /\ v.prov = w.prov /\ v.rec = w.rec /\ v.job = w.job

Goes(p, pc) == /\ worker'[p].pc = pc /\ Copy(worker[p], worker'[p])
               /\ \A q \in Workers \ {p} : worker'[q] = worker[q]
Quits(p) == /\ worker'[p].pc = "idle"
            /\ \A q \in Workers \ {p} : worker'[q] = worker[q]

LEMMA GotoGoes ==
    ASSUME WorkerOK, NEW p \in Workers, NEW pc, Goto(p, pc)
    PROVE  Goes(p, pc)
  BY DEF WorkerOK, WorkerState, Goto, Goes, Copy

LEMMA FailGoes ==
    ASSUME WorkerOK, NEW p \in Workers, NEW pc, NEW e,
           worker' = [worker EXCEPT ![p].pc = pc, ![p].err = e]
    PROVE  Goes(p, pc)
  BY DEF WorkerOK, WorkerState, Goes, Copy

LEMMA ReturnQuits ==
    ASSUME WorkerOK, NEW p \in Workers, Return(p)
    PROVE  Quits(p)
  BY DEF WorkerOK, Return, Quits, IdleWorker

\* The positions a worker may move on to without looking at the row.
LEMMA GoesFits ==
    ASSUME NEW w, NEW v, NEW x, NEW k, Fits(w, x, k), Copy(w, v),
           w.pc \notin {"idle", "claimed"},
           v.pc # "claimed", v.pc = "claimres" => ~w.rec,
           v.pc = "readbill" => w.prov # None,
           v.pc \in {"post", "save"} => w.prov = None,
           v.pc \in JobPC => w.job = w.ord,
           w.pc \in {"saveres", "markunc"} => v.pc \in {"idle", "saveres", "markunc"}
    PROVE  Fits(v, x, k)
  BY DEF Fits, Copy, Holds, JobPC

----------------------------------------------------------------------------
(* From one worker to all of them *)

Stays(q) == worker'[q].pc = worker[q].pc /\ Copy(worker[q], worker'[q])

LEMMA StaysSelf == ASSUME NEW q, worker'[q] = worker[q] PROVE Stays(q)
  BY DEF Stays, Copy

LEMMA StaysFits ==
    ASSUME TypeInv, TypeInv', LeaseInv, OrderInv, NEW q \in Workers,
           WorkerFits(q), Stays(q), RowsAdvance, OrdersMove,
           worker[q].pc # "idle" =>
               ~(/\ Ends(task[worker[q].t], task'[worker[q].t])
                 /\ worker[q].gen = task[worker[q].t].gen)
    PROVE  WorkerFits(q)'
  <1> SUFFICES ASSUME worker[q].pc # "idle"
               PROVE  /\ Fits(worker'[q], Proc[q], task'[worker[q].t])
                      /\ worker[q].pc # "claimed" =>
                             order'[worker[q].ord].task = worker[q].t
      BY DEF WorkerFits, Stays, Copy
  <1> DEFINE w == worker[q]
             k == task[w.t]
             n == task'[w.t]
  <1>1. /\ w \in WorkerState /\ w.t \in Tasks /\ k \in TaskRow /\ Proc[q] \in Procs
        /\ w.pc # "claimed" => w.ord \in Orders
      BY WorkerFacts, ActorAssumption
  <1>2. n \in TaskRow
      BY <1>1 DEF TypeInv, TaskOK
  <1>3. w.gen <= k.gen /\ Fits(w, Proc[q], k)
      BY DEF LeaseInv, WorkerFits
  <1>4. Advances(k, n)
      BY <1>1 DEF RowsAdvance
  <1>5. Fits(w, Proc[q], n)
      <2> HIDE DEF w, k, n
      <2>1. ~(Ends(k, n) /\ w.gen = k.gen)
          BY DEF w, k, n
      <2> QED BY <1>1, <1>2, <1>3, <1>4, <2>1, FitsMoved
  <1>6. Fits(worker'[q], Proc[q], n)
      BY <1>5 DEF Fits, Holds, Stays, Copy
  <1>7. w.pc # "claimed" => order'[w.ord].task = w.t
      <2> SUFFICES ASSUME w.pc # "claimed" PROVE order'[w.ord].task = w.t
          OBVIOUS
      <2>1. order[w.ord].task = w.t /\ w.t # None
          BY <1>1, NoneAssumption DEF WorkerFits
      <2> QED BY <1>1, <2>1, TaskOfOrder
  <1> QED BY <1>6, <1>7

\* A step of worker p: what it does to its row it does under its claim.
Acts(p) ==
    /\ RowsAdvance /\ OrdersMove /\ RowInv'
    /\ \A q \in Workers \ {p} : worker'[q] = worker[q]
    /\ \A u \in Tasks : Ends(task[u], task'[u]) =>
           /\ worker[p].pc # "idle" /\ worker[p].t = u
           /\ worker[p].gen = task[u].gen
    /\ WorkerFits(p)'

LEMMA WorkersAct ==
    ASSUME TypeInv, TypeInv', LeaseInv, Attempts, NEW p \in Workers, Acts(p)
    PROVE  WorkerInv'
  <1> SUFFICES ASSUME NEW q \in Workers, q # p PROVE WorkerFits(q)'
      BY DEF WorkerInv, Acts
  <1>1. worker'[q] = worker[q] /\ WorkerFits(q)
      BY DEF Acts, Attempts, WorkerInv
  <1>2. ASSUME worker[q].pc # "idle",
               Ends(task[worker[q].t], task'[worker[q].t]),
               worker[q].gen = task[worker[q].t].gen
        PROVE  FALSE
      <2>1. worker[q].t \in Tasks
          BY <1>2, WorkerFacts
      <2>2. /\ worker[p].pc # "idle" /\ worker[p].t = worker[q].t
            /\ worker[p].gen = worker[q].gen
          BY <1>2, <2>1 DEF Acts
      <2> QED BY <1>2, <2>2 DEF LeaseInv
  <1> QED BY <1>1, <1>2, StaysSelf, StaysFits DEF Acts, Attempts

\* A step of anybody else: at most it stops workers or raises their flags.
Idles == \A q \in Workers : worker'[q].pc = "idle" \/ Stays(q)

LEMMA WorkersIdle ==
    ASSUME TypeInv, TypeInv', LeaseInv, Attempts, RowsAdvance, NoneEnds,
           OrdersMove, Idles
    PROVE  WorkerInv'
  <1> SUFFICES ASSUME NEW q \in Workers PROVE WorkerFits(q)'
      BY DEF WorkerInv
  <1>1. CASE worker'[q].pc = "idle"
      BY <1>1 DEF WorkerFits
  <1>2. CASE Stays(q)
      <2>1. worker[q].pc # "idle" => ~Ends(task[worker[q].t], task'[worker[q].t])
          BY WorkerFacts DEF NoneEnds
      <2> QED BY <1>2, <2>1, StaysFits DEF Attempts, WorkerInv
  <1> QED BY <1>1, <1>2 DEF Idles

LEMMA OrdersUnused ==
    ASSUME OrderInv, OrdersMove,
           \A o \in Orders : order[o].status = "unused" => posts'[o] = posts[o]
    PROVE  OrderInv'
  BY DEF OrderInv, OrdersMove, OrderKept

LEMMA IdlesSame == ASSUME UNCHANGED worker PROVE Idles
  BY DEF Idles, Stays, Copy

----------------------------------------------------------------------------
(* The worker's steps that write no row *)

LEMMA LocalActs ==
    ASSUME TypeInv, Attempts, UNCHANGED task, OrdersMove, NEW p \in Workers,
           \A q \in Workers \ {p} : worker'[q] = worker[q], WorkerFits(p)'
    PROVE  Acts(p)
  BY RowsSame, RowsKept DEF Acts, NoneEnds, Attempts

LEMMA QuitsFits == ASSUME NEW p \in Workers, Quits(p) PROVE WorkerFits(p)'
  BY DEF Quits, WorkerFits

LEMMA LocalQuits ==
    ASSUME TypeInv, Attempts, UNCHANGED task, OrdersMove, NEW p \in Workers, Quits(p)
    PROVE  Acts(p)
  BY LocalActs, QuitsFits DEF Quits

\* Moving on after a step that leaves the row n.
LEMMA GoesOn ==
    ASSUME TypeInv, Attempts, OrdersMove, NEW p \in Workers, NEW pc, Goes(p, pc),
           Fits(worker[p], Proc[p], task'[worker[p].t]),
           worker[p].pc \notin {"idle", "claimed"},
           pc # "claimed", pc = "claimres" => ~worker[p].rec,
           pc = "readbill" => worker[p].prov # None,
           pc \in {"post", "save"} => worker[p].prov = None,
           pc \in JobPC => worker[p].job = worker[p].ord,
           worker[p].pc \in {"saveres", "markunc"} => pc \in {"idle", "saveres", "markunc"}
    PROVE  WorkerFits(p)'
  <1>1. Fits(worker'[p], Proc[p], task'[worker[p].t])
      BY GoesFits DEF Goes
  <1>2. order[worker[p].ord].task = worker[p].t /\ worker[p].t # None
      BY WorkerFacts, NoneAssumption DEF Attempts, WorkerInv, WorkerFits
  <1>3. order'[worker[p].ord].task = worker[p].t
      BY <1>2, TaskOfOrder, WorkerFacts DEF Attempts
  <1> QED BY <1>1, <1>3 DEF WorkerFits, Goes, Copy

LEMMA OwnFits ==
    ASSUME Attempts, NEW p \in Workers, worker[p].pc # "idle"
    PROVE  /\ Fits(worker[p], Proc[p], task[worker[p].t])
           /\ worker[p].pc # "claimed" => order[worker[p].ord].task = worker[p].t
           /\ worker[p].pc \in JobPC => worker[p].job = worker[p].ord
  BY DEF Attempts, WorkerInv, WorkerFits, Fits, JobPC

LEMMA LocalGoes ==
    ASSUME TypeInv, Attempts, UNCHANGED task, OrdersMove, NEW p \in Workers,
           NEW pc, Goes(p, pc),
           worker[p].pc \notin {"idle", "claimed"},
           pc # "claimed", pc = "claimres" => ~worker[p].rec,
           pc = "readbill" => worker[p].prov # None,
           pc \in {"post", "save"} => worker[p].prov = None,
           pc \in JobPC => worker[p].pc \in JobPC,
           worker[p].pc \in {"saveres", "markunc"} => pc \in {"idle", "saveres", "markunc"}
    PROVE  Acts(p)
  <1>1. Fits(worker[p], Proc[p], task'[worker[p].t])
      BY OwnFits
  <1>2. WorkerFits(p)'
      BY <1>1, OwnFits, GoesOn
  <1> QED BY <1>2, LocalActs DEF Goes

LEMMA RereadActs ==
    ASSUME TypeInv, Attempts, NEW p \in Workers, Reread(p) PROVE Acts(p)
  <1> DEFINE t == worker[p].t
             k == task[t]
  <1>0. UNCHANGED <<task, order>> /\ worker[p].pc = "claimed" /\ OrdersMove
      BY OrdersSame DEF Reread, At
  <1>1. CASE ~HoldsLease(p)
      BY <1>0, <1>1, ReturnQuits, LocalQuits, Parts DEF Reread
  <1>2. CASE HoldsLease(p)
      <2>1. /\ t \in Tasks /\ k \in TaskRow /\ k.status # "absent"
            /\ Proc[p] \in Procs /\ k.owner = Proc[p] /\ k.gen = worker[p].gen
            /\ k.gen \in Nat
          BY <1>0, <1>2, WorkerFacts, ActorAssumption DEF HoldsLease, TaskRow
      <2>2. /\ k.prov # None => k.prov = k.order
            /\ k.owner # None => k.status \in {"running", "cancelled"}
            /\ order[k.order].task = t
          BY <2>1 DEF Attempts, RowInv, RowFits
      <2>3. k.status = "cancelled" => k.prov # None
          BY <1>0, <2>1 DEF Attempts, WorkerInv, WorkerFits, Fits, Holds
      <2>4. k.status \in {"running", "cancelled"} /\ k.gen # k.gen + 1
          BY <2>1, <2>2, NoneAssumption
      <2>5. /\ worker'[p].pc = "verify" /\ worker'[p].t = t
            /\ worker'[p].gen = worker[p].gen /\ worker'[p].ord = k.order
            /\ worker'[p].prov = k.prov
            /\ worker'[p].rec = (k.status = "cancelled")
            /\ \A q \in Workers \ {p} : worker'[q] = worker[q]
          BY <1>2, Parts DEF Reread, WorkerOK, WorkerState
      <2>6. Fits(worker'[p], Proc[p], k)
          <3> HIDE DEF k
          <3> QED BY <2>1, <2>2, <2>3, <2>4, <2>5 DEF Fits, JobPC
      <2>7. WorkerFits(p)'
          BY <1>0, <2>2, <2>5, <2>6 DEF WorkerFits
      <2> QED BY <1>0, <2>5, <2>7, LocalActs
  <1> QED BY <1>1, <1>2

LEMMA Gives == \A p \in Workers, e \in Errors :
                   WorkerOK /\ Fail(p, e) => Goes(p, "error")
  BY FailGoes DEF Fail

LEMMA UpdateTaskProgressActs ==
    ASSUME TypeInv, Attempts, NEW p \in Workers, UpdateTaskProgress(p) PROVE Acts(p)
  <1>1. /\ UNCHANGED <<task, order>> /\ worker[p].pc = "progress" /\ OrdersMove
        /\ \/ Goto(p, "startbill") \/ Return(p)
           \/ Goto(p, "readbill") /\ worker[p].prov # None
      BY OrdersSame DEF UpdateTaskProgress, At
  <1>2. \/ Goes(p, "startbill") \/ Quits(p)
        \/ Goes(p, "readbill") /\ worker[p].prov # None
      BY <1>1, GotoGoes, ReturnQuits, Parts
  <1> QED BY <1>1, <1>2, LocalGoes, LocalQuits DEF JobPC

LEMMA ReadBillingActs ==
    ASSUME TypeInv, Attempts, NEW p \in Workers, ReadBilling(p) PROVE Acts(p)
  <1>1. /\ UNCHANGED <<task, order>> /\ worker[p].pc = "readbill" /\ OrdersMove
        /\ Goto(p, "call") \/ Goto(p, "startbill")
      BY OrdersSame DEF ReadBilling, At
  <1>2. Goes(p, "call") \/ Goes(p, "startbill")
      BY <1>1, GotoGoes, Parts
  <1> QED BY <1>1, <1>2, LocalGoes DEF JobPC

LEMMA StartBillingActs ==
    ASSUME TypeInv, Attempts, NEW p \in Workers, StartBilling(p) PROVE Acts(p)
  <1>1. UNCHANGED task /\ worker[p].pc = "startbill" /\ worker[p].ord \in Orders
      BY WorkerFacts DEF StartBilling, At
  <1>2. OrdersMove
      BY <1>1, OrdersSet, OrdersSame, Parts DEF StartBilling
  <1> DEFINE e == IF Kind[worker[p].t] = "token" THEN "uncertain" ELSE "refund"
  <1>3. \/ Goto(p, "call")
        \/ worker' = [worker EXCEPT ![p].pc = "final", ![p].err = e]
      BY DEF StartBilling
  <1>4. Goes(p, "call") \/ Goes(p, "final")
      <2> HIDE DEF e
      <2> QED BY <1>3, GotoGoes, FailGoes, Parts
  <1> QED BY <1>1, <1>2, <1>4, LocalGoes DEF JobPC

LEMMA CallFailsActs ==
    ASSUME TypeInv, Attempts, NEW p \in Workers, CallFails(p) PROVE Acts(p)
  <1>1. UNCHANGED <<task, order>> /\ worker[p].pc = "call" /\ OrdersMove
      BY OrdersSame DEF CallFails, At
  <1>2. Goes(p, "error")
      BY Gives, Errs, Parts DEF CallFails
  <1> QED BY <1>1, <1>2, LocalGoes DEF JobPC

LEMMA ResumeJobActs ==
    ASSUME TypeInv, Attempts, NEW p \in Workers, ResumeJob(p) PROVE Acts(p)
  <1>1. UNCHANGED <<task, order>> /\ worker[p].pc = "call" /\ OrdersMove
      BY OrdersSame DEF ResumeJob, At
  <1>2. /\ worker'[p].pc = "poll" /\ worker'[p].job = worker[p].prov
        /\ worker'[p].t = worker[p].t /\ worker'[p].gen = worker[p].gen
        /\ worker'[p].ord = worker[p].ord /\ worker'[p].prov = worker[p].prov
        /\ worker'[p].rec = worker[p].rec
        /\ \A q \in Workers \ {p} : worker'[q] = worker[q]
      BY Parts DEF ResumeJob, WorkerOK, WorkerState
  <1>3. Fits(worker[p], Proc[p], task[worker[p].t]) /\ worker[p].prov # None
      BY <1>1, OwnFits DEF ResumeJob
  <1>4. Fits(worker'[p], Proc[p], task[worker[p].t])
      BY <1>1, <1>2, <1>3 DEF Fits, Holds, JobPC
  <1>5. WorkerFits(p)'
      BY <1>1, <1>2, <1>4, OwnFits DEF WorkerFits
  <1> QED BY <1>1, <1>2, <1>5, LocalActs

LEMMA PostActs ==
    ASSUME TypeInv, Attempts, NEW p \in Workers, Post(p) PROVE Acts(p)
  <1> DEFINE o == worker[p].ord
  <1>1. UNCHANGED task /\ worker[p].pc = "post" /\ o \in Orders
      BY WorkerFacts DEF Post, At
  <1>2. OrdersMove
      BY <1>1, OrdersLogged, OrdersSame, Parts DEF Post
  <1>3. \/ Fail(p, "ambiguous") \/ Fail(p, "canceled") \/ Fail(p, "definite")
        \/ worker' = [worker EXCEPT ![p].pc = "save", ![p].job = o]
      BY DEF Post
  <1>4. CASE Fail(p, "ambiguous") \/ Fail(p, "canceled") \/ Fail(p, "definite")
      <2>1. Goes(p, "error")
          BY <1>4, Gives, Errs, Parts
      <2> QED BY <1>1, <1>2, <2>1, LocalGoes DEF JobPC
  <1>5. CASE worker' = [worker EXCEPT ![p].pc = "save", ![p].job = o]
      <2>1. /\ worker'[p].pc = "save" /\ worker'[p].job = o
            /\ worker'[p].t = worker[p].t /\ worker'[p].gen = worker[p].gen
            /\ worker'[p].ord = o /\ worker'[p].prov = worker[p].prov
            /\ worker'[p].rec = worker[p].rec
            /\ \A q \in Workers \ {p} : worker'[q] = worker[q]
          BY <1>5, Parts DEF WorkerOK, WorkerState
      <2>2. Fits(worker[p], Proc[p], task[worker[p].t]) /\ order[o].task = worker[p].t
          BY <1>1, OwnFits
      <2>3. Fits(worker'[p], Proc[p], task[worker[p].t])
          BY <1>1, <2>1, <2>2 DEF Fits, Holds, JobPC
      <2>4. order'[o].task = worker[p].t
          BY <1>1, <1>2, <2>2, TaskOfOrder, WorkerFacts, NoneAssumption DEF Attempts
      <2>5. WorkerFits(p)'
          BY <1>1, <2>1, <2>3, <2>4 DEF WorkerFits
      <2> QED BY <1>1, <1>2, <2>1, <2>5, LocalActs
  <1> QED BY <1>3, <1>4, <1>5

LEMMA PollActs ==
    ASSUME TypeInv, Attempts, NEW p \in Workers, Poll(p) PROVE Acts(p)
  <1>1. UNCHANGED task /\ worker[p].pc = "poll" /\ worker[p].ord \in Orders
      BY WorkerFacts DEF Poll, At
  <1>2. OrdersMove
      BY <1>1, OrdersLogged, OrdersMarked, OrdersSame, Parts DEF Poll
  <1>3. Goes(p, "succeeded") \/ Goes(p, "error")
      BY GotoGoes, Gives, Errs, Parts DEF Poll
  <1> QED BY <1>1, <1>2, <1>3, LocalGoes DEF JobPC

LEMMA HandleErrorActs ==
    ASSUME TypeInv, Attempts, NEW p \in Workers, HandleError(p) PROVE Acts(p)
  <1>1. UNCHANGED <<task, order>> /\ worker[p].pc = "error" /\ OrdersMove
      BY OrdersSame DEF HandleError, At
  <1> DEFINE e == IF RequiresReview(p) THEN "uncertain" ELSE "refund"
  <1>2. \/ Return(p) \/ Goto(p, "schedule") \/ Goto(p, "markunc")
        \/ worker' = [worker EXCEPT ![p].pc = "final", ![p].err = e]
      BY DEF HandleError
  <1>3. Goes(p, "schedule") \/ Goes(p, "markunc") \/ Goes(p, "final") \/ Quits(p)
      <2> HIDE DEF e
      <2> QED BY <1>2, GotoGoes, FailGoes, ReturnQuits, Parts
  <1> QED BY <1>1, <1>3, LocalGoes, LocalQuits DEF JobPC

LEMMA WorkerMarkUncertainActs ==
    ASSUME TypeInv, Attempts, NEW p \in Workers, WorkerMarkUncertain(p) PROVE Acts(p)
  <1>1. UNCHANGED task /\ worker[p].pc = "markunc" /\ worker[p].ord \in Orders
      BY WorkerFacts DEF WorkerMarkUncertain, At
  <1>2. OrdersMove /\ Quits(p)
      BY <1>1, OrdersMarked, ReturnQuits, Parts DEF WorkerMarkUncertain
  <1> QED BY <1>1, <1>2, LocalQuits

LEMMA ReadLatestActs ==
    ASSUME TypeInv, Attempts, NEW p \in Workers, ReadLatest(p) PROVE Acts(p)
  <1>1. UNCHANGED <<task, order>> /\ worker[p].pc = "succeeded" /\ OrdersMove
      BY OrdersSame DEF ReadLatest, At
  <1>2. \/ Goto(p, "persist") \/ Goto(p, "saveres")
        \/ Goto(p, "claimres") /\ ~worker[p].rec
      BY DEF ReadLatest
  <1>3. \/ Goes(p, "persist") \/ Goes(p, "saveres")
        \/ Goes(p, "claimres") /\ ~worker[p].rec
      BY <1>2, GotoGoes, Parts
  <1> QED BY <1>1, <1>3, LocalGoes DEF JobPC

LEMMA UpdateTaskProgress90Acts ==
    ASSUME TypeInv, Attempts, NEW p \in Workers, UpdateTaskProgress90(p) PROVE Acts(p)
  <1>1. UNCHANGED <<task, order>> /\ worker[p].pc = "persist" /\ OrdersMove
      BY OrdersSame DEF UpdateTaskProgress90, At
  <1>2. Goes(p, "complete") \/ Quits(p)
      BY GotoGoes, ReturnQuits, Parts DEF UpdateTaskProgress90
  <1> QED BY <1>1, <1>2, LocalGoes, LocalQuits DEF JobPC

LEMMA SettleCompletedActs ==
    ASSUME TypeInv, Attempts, NEW p \in Workers, SettleCompleted(p) PROVE Acts(p)
  <1>1. UNCHANGED task /\ worker[p].pc = "settle" /\ worker[p].ord \in Orders
      BY WorkerFacts DEF SettleCompleted, At
  <1>2. OrdersMove /\ Quits(p)
      BY <1>1, OrdersSet, OrdersSame, ReturnQuits, Parts DEF SettleCompleted
  <1> QED BY <1>1, <1>2, LocalQuits

----------------------------------------------------------------------------
(* The worker's steps that write its row *)

LEMMA RowActs ==
    ASSUME TypeInv, Attempts, OrdersMove, NEW p \in Workers, worker[p].pc # "idle",
           NEW t \in Tasks, t = worker[p].t, NEW n \in TaskRow,
           task' = [task EXCEPT ![t] = n], n.order = task[t].order,
           Advances(task[t], n), RowFits(n),
           Ends(task[t], n) => worker[p].gen = task[t].gen,
           \A q \in Workers \ {p} : worker'[q] = worker[q], WorkerFits(p)'
    PROVE  Acts(p)
  <1>1. /\ RowsAdvance /\ RowInv' /\ task'[t] = n
        /\ \A u \in Tasks \ {t} : ~Ends(task[u], task'[u])
      BY SetsRow, WorkerFacts DEF Attempts
  <1>2. ASSUME NEW u \in Tasks, Ends(task[u], task'[u])
        PROVE  worker[p].t = u /\ worker[p].gen = task[u].gen
      BY <1>1, <1>2
  <1> QED BY <1>1, <1>2 DEF Acts

LEMMA RowQuits ==
    ASSUME TypeInv, Attempts, OrdersMove, NEW p \in Workers, worker[p].pc # "idle",
           NEW t \in Tasks, t = worker[p].t, NEW n \in TaskRow,
           task' = [task EXCEPT ![t] = n], n.order = task[t].order,
           Advances(task[t], n), RowFits(n),
           Ends(task[t], n) => worker[p].gen = task[t].gen, Quits(p)
    PROVE  Acts(p)
  BY QuitsFits, RowActs DEF Quits

\* What the holder of a lease knows of its row.
LEMMA HolderFacts ==
    ASSUME TypeInv, Attempts, NEW p \in Workers, HoldsLease(p),
           worker[p].pc # "idle"
    PROVE  /\ worker[p].t \in Tasks /\ task[worker[p].t] \in TaskRow
           /\ task[worker[p].t].gen \in Nat
           /\ task[worker[p].t].gen = worker[p].gen
           /\ task[worker[p].t].owner # None
           /\ task[worker[p].t].status \in {"running", "cancelled"}
           /\ RowFits(task[worker[p].t])
           /\ worker[p].pc # "claimed" => worker[p].ord = task[worker[p].t].order
  <1>1. /\ worker[p].t \in Tasks /\ task[worker[p].t] \in TaskRow
        /\ task[worker[p].t].owner = Proc[p] /\ Proc[p] \in Procs
        /\ task[worker[p].t].gen \in Nat
        /\ task[worker[p].t].gen = worker[p].gen
        /\ RowFits(task[worker[p].t])
      BY WorkerFacts, ActorAssumption DEF HoldsLease, Attempts, RowInv, TaskRow
  <1>2. task[worker[p].t].owner # None
      BY <1>1, NoneAssumption
  <1>3. worker[p].pc # "claimed" => worker[p].ord = task[worker[p].t].order
      BY <1>1, OwnFits DEF Fits, Holds
  <1> QED BY <1>1, <1>2, <1>3 DEF RowFits

\* A row that keeps its generation, its order and its owner, or loses the last.
LEMMA AdvancesInPlace ==
    ASSUME NEW k \in TaskRow, NEW n \in TaskRow, n.gen = k.gen, n.order = k.order,
           n.owner \in {k.owner, None},
           \/ n.status = k.status
           \/ k.status = "running" /\ n.status \in {"failed", "succeeded"},
           k.prov # None /\ n.status = "cancelled" => n.prov # None,
           Uncreated(n) => Uncreated(k)
    PROVE  Advances(k, n)
  <1>1. n.gen >= k.gen
      BY DEF TaskRow
  <1> QED BY <1>1 DEF Advances

LEMMA EndedIsCreated ==
    \A n : n.status \in {"failed", "succeeded", "cancelled"} => ~Uncreated(n)
  BY Zenon DEF Uncreated

LEMMA StagedIsCreated ==
    \A n : n.stage \in {"creating", "accepted", "cancel_reconcile", "provider_resume",
                        "cancel_reconciled"} => ~Uncreated(n)
  BY DEF Uncreated

LEMMA VerifyEnvelopeActs ==
    ASSUME TypeInv, Attempts, NEW p \in Workers, VerifyEnvelope(p) PROVE Acts(p)
  <1> DEFINE t == worker[p].t
             k == task[t]
             n == [k EXCEPT !.owner = None, !.expired = FALSE, !.status = "failed"]
  <1>1. UNCHANGED order /\ worker[p].pc = "verify" /\ OrdersMove
      BY OrdersSame DEF VerifyEnvelope, At
  <1>2. \/ UNCHANGED task /\ (Goto(p, "call") \/ Goto(p, "progress") \/ Return(p))
        \/ RunningLease(p) /\ task' = [task EXCEPT ![t] = n] /\ Return(p)
      <2>1. t \in Tasks
          BY <1>1, WorkerFacts
      <2> QED BY <2>1, Parts DEF VerifyEnvelope, Unlease, TaskOK
  <1>3. CASE UNCHANGED task /\ (Goto(p, "call") \/ Goto(p, "progress") \/ Return(p))
      <2>1. Goes(p, "call") \/ Goes(p, "progress") \/ Quits(p)
          BY <1>3, GotoGoes, ReturnQuits, Parts
      <2> QED BY <1>1, <1>3, <2>1, LocalGoes, LocalQuits DEF JobPC
  <1>4. CASE RunningLease(p) /\ task' = [task EXCEPT ![t] = n] /\ Return(p)
      <2>1. /\ t \in Tasks /\ k \in TaskRow /\ RowFits(k) /\ k.gen = worker[p].gen
            /\ k.status = "running"
          BY <1>1, <1>4, HolderFacts DEF RunningLease
      <2>2. /\ n \in TaskRow /\ n.status = "failed" /\ n.order = k.order
            /\ n.owner = None /\ n.gen = k.gen /\ n.prov = k.prov
            /\ n.result = k.result
          BY <2>1, Statuses DEF TaskRow
      <2> HIDE DEF n
      <2>3. RowFits(n)
          BY <2>1, <2>2 DEF RowFits
      <2>4. Quits(p)
          BY <1>4, ReturnQuits, Parts
      <2>5. Advances(k, n)
          <3>1. ~Uncreated(n)
              BY <2>2, EndedIsCreated
          <3> QED BY <2>1, <2>2, <3>1, AdvancesInPlace
      <2> QED BY <1>1, <1>4, <2>1, <2>2, <2>3, <2>4, <2>5, RowQuits
  <1> QED BY <1>2, <1>3, <1>4

LEMMA BeginProviderCreateActs ==
    ASSUME TypeInv, Attempts, NEW p \in Workers, BeginProviderCreate(p) PROVE Acts(p)
  <1> DEFINE t == worker[p].t
             k == task[t]
             n == [k EXCEPT !.stage = "creating"]
  <1>1. /\ UNCHANGED order /\ worker[p].pc = "call" /\ OrdersMove
        /\ worker[p].prov = None
      BY OrdersSame DEF BeginProviderCreate, At
  <1>2. \/ UNCHANGED task /\ (Goto(p, "post") \/ Fail(p, "ambiguous"))
        \/ CreateAllowed(p) /\ task' = [task EXCEPT ![t] = n] /\ Goto(p, "post")
      <2>1. t \in Tasks
          BY <1>1, WorkerFacts
      <2> QED BY <2>1, Parts DEF BeginProviderCreate, TaskOK
  <1>3. CASE UNCHANGED task /\ (Goto(p, "post") \/ Fail(p, "ambiguous"))
      <2>1. Goes(p, "post") \/ Goes(p, "error")
          BY <1>3, GotoGoes, Gives, Errs, Parts
      <2> QED BY <1>1, <1>3, <2>1, LocalGoes DEF JobPC
  <1>4. CASE CreateAllowed(p) /\ task' = [task EXCEPT ![t] = n] /\ Goto(p, "post")
      <2>1. /\ t \in Tasks /\ k \in TaskRow /\ RowFits(k) /\ k.gen = worker[p].gen
            /\ k.status = "running"
          BY <1>1, <1>4, HolderFacts DEF CreateAllowed, RunningLease
      <2>2. /\ n \in TaskRow /\ n.status = k.status /\ n.order = k.order
            /\ n.owner = k.owner /\ n.gen = k.gen /\ n.prov = k.prov
            /\ n.result = k.result /\ n.stage = "creating"
          BY <2>1, Statuses DEF TaskRow
      <2> HIDE DEF n
      <2>3. RowFits(n) /\ Advances(k, n) /\ ~Ends(k, n)
          <3>1. ~Uncreated(n)
              BY <2>2, StagedIsCreated
          <3>2. Advances(k, n)
              BY <2>1, <2>2, <3>1, AdvancesInPlace
          <3> QED BY <2>1, <2>2, <3>2 DEF RowFits, Ends
      <2>4. Goes(p, "post")
          BY <1>4, GotoGoes, Parts
      <2>5. Fits(worker[p], Proc[p], n)
          BY <1>1, <2>2, OwnFits DEF Fits, Holds
      <2>6. task'[t] = n
          BY <1>4, <2>1, Parts DEF TaskOK
      <2>7. WorkerFits(p)'
          BY <1>1, <2>4, <2>5, <2>6, GoesOn DEF JobPC
      <2> QED BY <1>1, <1>4, <2>1, <2>2, <2>3, <2>4, <2>7, RowActs DEF Goes
  <1> QED BY <1>2, <1>3, <1>4

LEMMA OrdersWritten ==
    ASSUME NEW o \in Orders, \A q \in Orders \ {o} : order'[q] = order[q],
           order'[o].task = order[o].task,
           order'[o].status = order[o].status
             \/ order'[o].status \in {"running", "uncertain", "settled", "refunded"}
    PROVE  OrdersMove
  BY DEF OrdersMove, OrderKept

LEMMA SaveProviderCallActs ==
    ASSUME TypeInv, Attempts, NEW p \in Workers, SaveProviderCall(p) PROVE Acts(p)
  <1> DEFINE w == worker[p]
             t == w.t
             k == task[t]
  <1>1. w.pc = "save" /\ w.ord \in Orders /\ w.job \in Orders /\ w.job = w.ord
        /\ w.prov = None
      BY WorkerFacts, OwnFits DEF SaveProviderCall, At, JobPC, Fits
  <1>2. /\ t \in Tasks /\ k \in TaskRow /\ k.gen \in Nat /\ RowFits(k)
        /\ k.status # "absent"
      BY <1>1, WorkerFacts DEF Attempts, RowInv, TaskRow
  <1>3. OrdersMove
      <2> DEFINE f == MarkedUncertain(w.ord)
                 q == f[w.ord].prov
      <2>1. \/ order' = [order EXCEPT ![w.ord].prov = w.job]
            \/ order' = [f EXCEPT ![w.ord].prov = w.job]
            \/ order' = [f EXCEPT ![w.ord].prov = q]
          BY DEF SaveProviderCall
      <2>2. f = order \/ f = [order EXCEPT ![w.ord].status = "uncertain"]
          BY DEF MarkedUncertain, SetBilling
      <2> HIDE DEF f, q, w
      <2> QED BY <1>1, <2>1, <2>2, OrdersWritten, Parts DEF OrderOK, OrderRow
  <1>4. Goes(p, "succeeded") \/ Goes(p, "poll") \/ Goes(p, "error")
      BY GotoGoes, Gives, Errs, Parts DEF SaveProviderCall
  <1>5. CASE UNCHANGED task
      BY <1>1, <1>3, <1>4, <1>5, LocalGoes DEF JobPC
  <1>6. ASSUME NEW s \in {"accepted", "cancel_reconcile"},
               task' = [task EXCEPT ![t].prov = w.job, ![t].stage = s],
               SavesRunning(p) \/ SavesCancelled(p)
        PROVE  Acts(p)
      <2> DEFINE n == [k EXCEPT !.prov = w.job, !.stage = s]
      <2>1. /\ n \in TaskRow /\ n.status = k.status /\ n.order = k.order
            /\ n.owner = k.owner /\ n.gen = k.gen /\ n.prov = w.job
            /\ n.result = k.result /\ n.stage = s
          BY <1>1, <1>2, <1>6, Statuses DEF TaskRow
      <2>2. task' = [task EXCEPT ![t] = n]
          BY <1>2, <1>6, Parts DEF TaskOK
      <2> HIDE DEF n
      <2>3. w.ord = k.order
          <3>1. CASE SavesRunning(p)
              BY <1>1, <3>1, HolderFacts DEF SavesRunning, RunningLease
          <3>2. CASE SavesCancelled(p)
              <4>1. ~w.rec
                  BY <1>1, OwnFits DEF Fits
              <4> QED BY <1>1, <3>2, <4>1, OwnFits DEF SavesCancelled, Fits
          <3> QED BY <1>6, <3>1, <3>2
      <2>4. RowFits(n)
          BY <1>1, <1>2, <2>1, <2>3 DEF RowFits
      <2>5. Advances(k, n) /\ ~Ends(k, n)
          <3>1. ~Uncreated(n)
              BY <2>1, StagedIsCreated
          <3>2. w.job # None
              BY <1>1, NoneAssumption
          <3> QED BY <1>2, <2>1, <3>1, <3>2, AdvancesInPlace DEF Ends
      <2>6. task'[t] = n
          BY <1>2, <2>2, Parts DEF TaskOK
      <2>7. Fits(w, Proc[p], n)
          BY <1>1, <2>1, OwnFits DEF Fits, Holds
      <2>8. WorkerFits(p)'
          BY <1>1, <1>3, <1>4, <2>6, <2>7, GoesOn DEF JobPC
      <2> QED BY <1>1, <1>2, <1>3, <1>4, <2>1, <2>2, <2>4, <2>5, <2>8, RowActs
              DEF Goes
  <1> QED BY <1>5, <1>6 DEF SaveProviderCall

LEMMA ScheduleReconciliationActs ==
    ASSUME TypeInv, Attempts, NEW p \in Workers, ScheduleReconciliation(p) PROVE Acts(p)
  <1> DEFINE t == worker[p].t
             k == task[t]
             n == [k EXCEPT !.owner = None, !.expired = FALSE,
                            !.stage = "cancel_reconcile"]
  <1>1. UNCHANGED order /\ worker[p].pc = "schedule" /\ OrdersMove /\ t \in Tasks
      BY OrdersSame, WorkerFacts DEF ScheduleReconciliation, At
  <1>2. \/ UNCHANGED task /\ Return(p)
        \/ /\ HoldsLease(p) /\ k.status = "cancelled"
           /\ task' = [task EXCEPT ![t] = n] /\ Goto(p, "markunc")
      BY <1>1, Parts DEF ScheduleReconciliation, Unlease, TaskOK
  <1>3. CASE UNCHANGED task /\ Return(p)
      BY <1>1, <1>3, ReturnQuits, LocalQuits, Parts
  <1>4. CASE /\ HoldsLease(p) /\ k.status = "cancelled"
             /\ task' = [task EXCEPT ![t] = n] /\ Goto(p, "markunc")
      <2>1. k \in TaskRow /\ RowFits(k) /\ k.gen = worker[p].gen
          BY <1>1, <1>4, HolderFacts
      <2>2. /\ n \in TaskRow /\ n.status = k.status /\ n.order = k.order
            /\ n.owner = None /\ n.gen = k.gen /\ n.prov = k.prov
            /\ n.result = k.result
          BY <2>1, Statuses DEF TaskRow
      <2> HIDE DEF n
      <2>3. RowFits(n)
          BY <1>4, <2>1, <2>2 DEF RowFits
      <2>4. Advances(k, n) /\ ~Ends(k, n)
          <3>1. ~Uncreated(n)
              BY <1>4, <2>2, EndedIsCreated
          <3> QED BY <1>4, <2>1, <2>2, <3>1, AdvancesInPlace DEF Ends
      <2>5. Goes(p, "markunc")
          BY <1>4, GotoGoes, Parts
      <2>6. task'[t] = n /\ Proc[p] # None
          BY <1>1, <1>4, Parts, ActorAssumption, NoneAssumption DEF TaskOK
      <2>7. Fits(worker[p], Proc[p], n)
          BY <1>1, <2>2, <2>6, OwnFits DEF Fits, Holds
      <2>8. WorkerFits(p)'
          BY <1>1, <2>5, <2>6, <2>7, GoesOn DEF JobPC
      <2> QED BY <1>1, <1>4, <2>2, <2>3, <2>4, <2>5, <2>8, RowActs DEF Goes
  <1> QED BY <1>2, <1>3, <1>4

LEMMA FinalizeFailedActs ==
    ASSUME TypeInv, Attempts, NEW p \in Workers, FinalizeFailed(p) PROVE Acts(p)
  <1> DEFINE w == worker[p]
             t == w.t
             k == task[t]
             n == [k EXCEPT !.owner = None, !.expired = FALSE, !.status = "failed",
                            !.prov = w.prov, !.stage = w.stage]
             j == IF w.err = "uncertain" /\ w.prov # None
                  THEN w.prov ELSE order[w.ord].prov
  <1>1. w.pc = "final" /\ w.ord \in Orders /\ t \in Tasks
      BY WorkerFacts DEF FinalizeFailed, At
  <1>2. Quits(p)
      BY ReturnQuits, Parts DEF FinalizeFailed
  <1>3. \/ UNCHANGED <<task, order>>
        \/ /\ RunningLease(p) /\ task' = [task EXCEPT ![t] = n]
           /\ order' = [order EXCEPT ![w.ord].status = FailedBilling(p),
                                     ![w.ord].prov = j]
      BY <1>1, Parts DEF FinalizeFailed, Unlease, TaskOK
  <1>4. CASE UNCHANGED <<task, order>>
      BY <1>2, <1>4, OrdersSame, LocalQuits
  <1>5. CASE /\ RunningLease(p) /\ task' = [task EXCEPT ![t] = n]
             /\ order' = [order EXCEPT ![w.ord].status = FailedBilling(p),
                                       ![w.ord].prov = j]
      <2>1. /\ k \in TaskRow /\ RowFits(k) /\ k.gen = w.gen
            /\ k.status = "running" /\ w.ord = k.order
          BY <1>1, <1>5, HolderFacts DEF RunningLease
      <2>2. /\ n \in TaskRow /\ n.status = "failed" /\ n.order = k.order
            /\ n.owner = None /\ n.gen = k.gen /\ n.prov = w.prov
            /\ n.result = k.result
          BY <2>1, Statuses, WorkerFacts DEF TaskRow
      <2>3. FailedBilling(p) \in {"refunded", "uncertain"}
          BY DEF FailedBilling
      <2>4. OrdersMove
          <3> HIDE DEF j, w
          <3> QED BY <1>1, <1>5, <2>3, OrdersWritten, Parts DEF OrderOK, OrderRow
      <2> HIDE DEF n
      <2>5. w.prov # None => w.prov = w.ord
          BY <1>1, OwnFits DEF Fits
      <2>6. RowFits(n)
          BY <2>1, <2>2, <2>5 DEF RowFits
      <2>7. Advances(k, n)
          <3>1. ~Uncreated(n)
              BY <2>2, EndedIsCreated
          <3> QED BY <2>1, <2>2, <3>1, AdvancesInPlace
      <2> QED BY <1>1, <1>2, <1>5, <2>1, <2>2, <2>4, <2>6, <2>7, RowQuits
  <1> QED BY <1>3, <1>4, <1>5

LEMMA FinalizeSucceededActs ==
    ASSUME TypeInv, Attempts, NEW p \in Workers, FinalizeSucceeded(p) PROVE Acts(p)
  <1> DEFINE w == worker[p]
             t == w.t
             k == task[t]
             n == [k EXCEPT !.owner = None, !.expired = FALSE, !.status = "succeeded",
                            !.result = w.job, !.prov = w.prov, !.stage = w.stage]
  <1>1. /\ w.pc = "complete" /\ w.ord \in Orders /\ w.job \in Orders
        /\ t \in Tasks /\ w.job = w.ord
      BY WorkerFacts, OwnFits DEF FinalizeSucceeded, At, JobPC
  <1>2. \/ /\ UNCHANGED <<task, order>>
           /\ worker' = [worker EXCEPT ![p].pc = "final", ![p].err = "uncertain"]
        \/ /\ RunningLease(p) /\ task' = [task EXCEPT ![t] = n]
           /\ order' = SetBilling(w.ord, CompletedBilling(p)) /\ Goto(p, "settle")
      BY <1>1, Parts DEF FinalizeSucceeded, Unlease, TaskOK
  <1>3. CASE /\ UNCHANGED <<task, order>>
             /\ worker' = [worker EXCEPT ![p].pc = "final", ![p].err = "uncertain"]
      <2>1. Goes(p, "final")
          BY <1>3, FailGoes, Parts
      <2> QED BY <1>1, <1>3, <2>1, OrdersSame, LocalGoes DEF JobPC
  <1>4. CASE /\ RunningLease(p) /\ task' = [task EXCEPT ![t] = n]
             /\ order' = SetBilling(w.ord, CompletedBilling(p)) /\ Goto(p, "settle")
      <2>1. /\ k \in TaskRow /\ RowFits(k) /\ k.gen = w.gen
            /\ k.status = "running" /\ w.ord = k.order
          BY <1>1, <1>4, HolderFacts DEF RunningLease
      <2>2. /\ n \in TaskRow /\ n.status = "succeeded" /\ n.order = k.order
            /\ n.owner = None /\ n.gen = k.gen /\ n.prov = w.prov
            /\ n.result = w.job
          BY <1>1, <2>1, Statuses, WorkerFacts DEF TaskRow
      <2>3. CompletedBilling(p) \in {"settled", "uncertain"}
          BY DEF CompletedBilling
      <2>4. OrdersMove
          BY <1>1, <1>4, <2>3, OrdersSet, Parts
      <2> HIDE DEF n
      <2>5. w.prov # None => w.prov = w.ord
          BY <1>1, OwnFits DEF Fits
      <2>6. RowFits(n)
          BY <1>1, <2>1, <2>2, <2>5 DEF RowFits
      <2>7. Advances(k, n)
          <3>1. ~Uncreated(n)
              BY <2>2, EndedIsCreated
          <3> QED BY <2>1, <2>2, <3>1, AdvancesInPlace
      <2>8. Goes(p, "settle")
          BY <1>4, GotoGoes, Parts
      <2>9. task'[t] = n /\ Proc[p] # None
          BY <1>1, <1>4, Parts, ActorAssumption, NoneAssumption DEF TaskOK
      <2>10. Fits(w, Proc[p], n)
          BY <1>1, <2>1, <2>2, <2>9, OwnFits DEF Fits, Holds
      <2>11. WorkerFits(p)'
          BY <1>1, <2>4, <2>8, <2>9, <2>10, GoesOn DEF JobPC
      <2> QED BY <1>1, <1>4, <2>1, <2>2, <2>4, <2>6, <2>7, <2>8, <2>11, RowActs
              DEF Goes
  <1> QED BY <1>2, <1>3, <1>4

LEMMA SaveCancelledTaskResultActs ==
    ASSUME TypeInv, Attempts, NEW p \in Workers, SaveCancelledTaskResult(p)
    PROVE  Acts(p)
  <1> DEFINE w == worker[p]
             t == w.t
             k == task[t]
             n == [k EXCEPT !.owner = None, !.expired = FALSE, !.result = w.job,
                            !.stage = "cancel_reconciled"]
  <1>1. /\ w.pc = "saveres" /\ w.ord \in Orders /\ w.job \in Orders
        /\ t \in Tasks /\ w.job = w.ord
      BY WorkerFacts, OwnFits DEF SaveCancelledTaskResult, At, JobPC
  <1>2. \/ UNCHANGED <<task, order>> /\ Goto(p, "markunc")
        \/ /\ HoldsLease(p) /\ k.status = "cancelled"
           /\ task' = [task EXCEPT ![t] = n]
           /\ order' = SetBilling(w.ord, "uncertain") /\ Return(p)
      BY <1>1, Parts DEF SaveCancelledTaskResult, Unlease, TaskOK
  <1>3. CASE UNCHANGED <<task, order>> /\ Goto(p, "markunc")
      <2>1. Goes(p, "markunc")
          BY <1>3, GotoGoes, Parts
      <2> QED BY <1>1, <1>3, <2>1, OrdersSame, LocalGoes DEF JobPC
  <1>4. CASE /\ HoldsLease(p) /\ k.status = "cancelled"
             /\ task' = [task EXCEPT ![t] = n]
             /\ order' = SetBilling(w.ord, "uncertain") /\ Return(p)
      <2>1. k \in TaskRow /\ RowFits(k) /\ k.gen = w.gen /\ w.ord = k.order
          BY <1>1, <1>4, HolderFacts
      <2>2. /\ n \in TaskRow /\ n.status = k.status /\ n.order = k.order
            /\ n.owner = None /\ n.gen = k.gen /\ n.prov = k.prov
            /\ n.result = w.job
          BY <1>1, <2>1, Statuses DEF TaskRow
      <2>3. OrdersMove /\ Quits(p)
          BY <1>1, <1>4, OrdersSet, ReturnQuits, Parts
      <2> HIDE DEF n
      <2>4. RowFits(n)
          BY <1>1, <1>4, <2>1, <2>2 DEF RowFits
      <2>5. Advances(k, n) /\ ~Ends(k, n)
          <3>1. ~Uncreated(n)
              BY <1>4, <2>2, EndedIsCreated
          <3> QED BY <1>4, <2>1, <2>2, <3>1, AdvancesInPlace DEF Ends
      <2> QED BY <1>1, <1>4, <2>2, <2>3, <2>4, <2>5, RowQuits
  <1> QED BY <1>2, <1>3, <1>4

\* A claim: a new generation and a new owner for a running or cancelled task.
LEMMA AdvancesByClaim ==
    ASSUME NEW k \in TaskRow, NEW n \in TaskRow, n.gen = k.gen + 1, n.order = k.order,
           n.prov = k.prov, n.stage = k.stage,
           \/ n.status = "running" /\ k.status \in {"queued", "running"}
           \/ n.status = "cancelled" /\ k.status = "cancelled"
    PROVE  Advances(k, n) /\ ~Ends(k, n)
  <1>1. k.gen \in Nat
      BY DEF TaskRow
  <1>2. n.gen >= k.gen /\ n.gen # k.gen
      BY <1>1
  <1>3. Uncreated(n) => Uncreated(k)
      BY Zenon DEF Uncreated
  <1> QED BY <1>2, <1>3 DEF Advances, Ends

LEMMA ClaimCancelledTaskResultActs ==
    ASSUME TypeInv, Attempts, NEW p \in Workers, ClaimCancelledTaskResult(p)
    PROVE  Acts(p)
  <1> DEFINE w == worker[p]
             t == w.t
             k == task[t]
             g == k.gen + 1
             n == [k EXCEPT !.owner = Proc[p], !.expired = FALSE, !.gen = g]
  <1>1. /\ UNCHANGED order /\ OrdersMove /\ w.pc = "claimres" /\ t \in Tasks
        /\ k \in TaskRow /\ k.gen \in Nat /\ RowFits(k) /\ w.job = w.ord
        /\ w.ord \in Orders /\ Proc[p] \in Procs /\ k.status # "absent"
        /\ w.gen \in Nat
      BY OrdersSame, WorkerFacts, OwnFits, ActorAssumption
         DEF ClaimCancelledTaskResult, At, JobPC, Attempts, RowInv, TaskRow
  <1>2. CASE ~ResultClaimable(p)
      <2>1. UNCHANGED task /\ Goes(p, "markunc")
          BY <1>2, GotoGoes, Parts DEF ClaimCancelledTaskResult
      <2> QED BY <1>1, <2>1, LocalGoes DEF JobPC
  <1>3. CASE ResultClaimable(p)
      <2>1. g \in Nat
          BY <1>1
      <2>2. /\ k.status = "cancelled" /\ k.result = None /\ k.gen = w.gen + 1
            /\ ~w.rec /\ Fits(w, Proc[p], k) /\ order[w.ord].task = t
          BY <1>1, <1>3, OwnFits DEF ResultClaimable, Fits
      <2>3. w.ord = k.order
          BY <1>1, <2>2 DEF Fits
      <2>4. task' = [task EXCEPT ![t] = n]
          BY <1>1, <1>3, Parts DEF ClaimCancelledTaskResult, TaskOK
      <2>5. /\ worker'[p].pc = "saveres" /\ worker'[p].gen = g
            /\ worker'[p].ord = w.ord /\ worker'[p].t = t
            /\ worker'[p].job = w.job /\ worker'[p].prov = w.prov
            /\ worker'[p].rec = w.rec
            /\ \A q \in Workers \ {p} : worker'[q] = worker[q]
          <3>1. worker' = [worker EXCEPT ![p].pc = "saveres", ![p].gen = g,
                                         ![p].ord = w.ord]
              BY <1>3, <2>3 DEF ClaimCancelledTaskResult
          <3> HIDE DEF g
          <3> QED BY <3>1, Parts DEF WorkerOK, WorkerState
      <2>6. /\ n \in TaskRow /\ n.status = k.status /\ n.order = k.order
            /\ n.owner = Proc[p] /\ n.gen = g /\ n.prov = k.prov
            /\ n.result = k.result /\ n.stage = k.stage
          <3> HIDE DEF g
          <3> QED BY <1>1, <2>1 DEF TaskRow
      <2> HIDE DEF n
      <2>7. RowFits(n)
          BY <1>1, <2>2, <2>6 DEF RowFits
      <2>8. Advances(k, n) /\ ~Ends(k, n)
          BY <1>1, <2>2, <2>6, AdvancesByClaim
      <2>9. task'[t] = n
          BY <1>1, <2>4, Parts DEF TaskOK
      <2>10. WorkerFits(p)'
          <3>1. Fits(worker'[p], Proc[p], n)
              BY <1>1, <2>2, <2>3, <2>5, <2>6 DEF Fits, Holds, JobPC
          <3> QED BY <1>1, <2>2, <2>5, <2>9, <3>1 DEF WorkerFits
      <2> QED BY <1>1, <2>4, <2>5, <2>6, <2>7, <2>8, <2>10, RowActs
  <1> QED BY <1>2, <1>3

LEMMA ClaimTaskActs ==
    ASSUME TypeInv, Attempts, NEW p \in Workers, NEW t \in Tasks, ClaimTask(p, t)
    PROVE  Acts(p)
  <1> DEFINE k == task[t]
             g == k.gen + 1
             s == IF k.status = "cancelled" THEN "cancelled" ELSE "running"
             n == [k EXCEPT !.status = s, !.owner = Proc[p], !.expired = FALSE,
                            !.gen = g]
  <1>1. /\ UNCHANGED order /\ OrdersMove /\ worker[p].pc = "idle"
        /\ k \in TaskRow /\ k.gen \in Nat /\ RowFits(k) /\ Proc[p] \in Procs
        /\ k.status \in {"queued", "running", "cancelled"}
        /\ k.status = "cancelled" => k.prov # None
      BY OrdersSame, Parts, ActorAssumption
         DEF ClaimTask, At, Attempts, RowInv, TaskRow, TaskOK, Claimable
  <1>2. g \in Nat /\ s \in TaskStatus
      <2>1. g \in Nat
          BY <1>1
      <2>2. s \in TaskStatus
          BY DEF TaskStatus
      <2> QED BY <2>1, <2>2
  <1>3. task' = [task EXCEPT ![t] = n]
      <2>1. task' = [task EXCEPT ![t].status = s, ![t].owner = Proc[p],
                                 ![t].expired = FALSE, ![t].gen = g]
          BY Parts DEF ClaimTask, TaskOK
      <2> HIDE DEF s, g
      <2> QED BY <2>1, Parts DEF TaskOK
  <1>4. /\ worker'[p].pc = "claimed" /\ worker'[p].t = t /\ worker'[p].gen = g
        /\ \A q \in Workers \ {p} : worker'[q] = worker[q]
      <2>1. worker' = [worker EXCEPT ![p].pc = "claimed", ![p].t = t, ![p].gen = g]
          BY DEF ClaimTask
      <2> HIDE DEF g
      <2> QED BY <2>1, Parts DEF WorkerOK, WorkerState
  <1>5. /\ n \in TaskRow /\ n.status = s /\ n.order = k.order
        /\ n.owner = Proc[p] /\ n.gen = g /\ n.prov = k.prov
        /\ n.result = k.result /\ n.stage = k.stage
      <2> HIDE DEF g, s
      <2> QED BY <1>1, <1>2 DEF TaskRow
  <1>6. /\ s = "cancelled" => k.status = "cancelled"
        /\ s = "running" => k.status \in {"queued", "running"}
        /\ s \in {"cancelled", "running"}
      BY <1>1
  <1> HIDE DEF n, s
  <1>7. RowFits(n)
      BY <1>1, <1>5, <1>6 DEF RowFits
  <1>8. Advances(k, n) /\ ~Ends(k, n)
      BY <1>1, <1>5, <1>6, AdvancesByClaim
  <1>9. task'[t] = n /\ RowsAdvance /\ RowInv'
        /\ \A u \in Tasks \ {t} : ~Ends(task[u], task'[u])
      BY <1>1, <1>3, <1>5, <1>7, <1>8, SetsRow DEF Attempts
  <1>10. WorkerFits(p)'
      <2>1. Fits(worker'[p], Proc[p], n)
          <3> HIDE DEF g, k
          <3> QED BY <1>1, <1>4, <1>5, <1>6 DEF Fits, JobPC
      <2> QED BY <1>4, <1>9, <2>1 DEF WorkerFits
  <1>11. \A u \in Tasks : ~Ends(task[u], task'[u])
      BY <1>8, <1>9
  <1> QED BY <1>1, <1>4, <1>9, <1>10, <1>11 DEF Acts

LEMMA WorkerStepActs ==
    ASSUME TypeInv, Attempts, NEW p \in Workers, WorkerStep(p) PROVE Acts(p)
  BY RereadActs, VerifyEnvelopeActs, UpdateTaskProgressActs, ReadBillingActs,
     StartBillingActs, CallFailsActs, ResumeJobActs, BeginProviderCreateActs,
     PostActs, SaveProviderCallActs, PollActs, HandleErrorActs,
     ScheduleReconciliationActs, WorkerMarkUncertainActs, FinalizeFailedActs,
     ReadLatestActs, ClaimCancelledTaskResultActs, SaveCancelledTaskResultActs,
     UpdateTaskProgress90Acts, FinalizeSucceededActs, SettleCompletedActs
     DEF WorkerStep

----------------------------------------------------------------------------
(* The steps of everybody else *)

Passes == RowsAdvance /\ NoneEnds /\ OrdersMove /\ RowInv' /\ Idles

LEMMA LocalPasses ==
    ASSUME TypeInv, Attempts, UNCHANGED task, OrdersMove, Idles PROVE Passes
  BY RowsSame, RowsKept DEF Passes, Attempts

LEMMA RowPasses ==
    ASSUME TypeInv, Attempts, OrdersMove, Idles, NEW t \in Tasks, NEW n \in TaskRow,
           task[t].status # "absent", n.order = task[t].order,
           task' = [task EXCEPT ![t] = n], Advances(task[t], n), RowFits(n),
           ~Ends(task[t], n)
    PROVE  Passes
  <1>1. /\ RowsAdvance /\ RowInv' /\ task'[t] = n
        /\ \A u \in Tasks \ {t} : ~Ends(task[u], task'[u])
      BY SetsRow DEF Attempts
  <1> QED BY <1>1 DEF Passes, NoneEnds

\* A row gets a new order.
LEMMA OrderPasses ==
    ASSUME TypeInv, Attempts, Idles, NEW t \in Tasks, NEW n \in TaskRow,
           NEW o \in Orders, order[o].status = "unused", n.order = o,
           order' = [order EXCEPT ![o] = [status |-> "reserved", prov |-> None,
                                          task |-> t]],
           task' = [task EXCEPT ![t] = n], Advances(task[t], n), RowFits(n),
           ~Ends(task[t], n)
    PROVE  Passes
  <1>1. /\ order'[o].status = "reserved" /\ order'[o].task = t
        /\ \A q \in Orders \ {o} : order'[q] = order[q]
      BY Parts DEF OrderOK
  <1>2. OrdersMove
      BY <1>1 DEF OrdersMove, OrderKept
  <1>3. task'[t] = n /\ \A u \in Tasks \ {t} : task'[u] = task[u]
      BY Parts DEF TaskOK
  <1>4. ASSUME NEW u \in Tasks \ {t}
        PROVE  Advances(task[u], task'[u]) /\ ~Ends(task[u], task'[u])
      BY <1>3, AdvancesSelf, Parts DEF TaskOK
  <1>5. RowsAdvance /\ NoneEnds
      BY <1>3, <1>4 DEF RowsAdvance, NoneEnds
  <1>6. ASSUME NEW u \in Tasks \ {t}, task[u].status # "absent"
        PROVE  order'[task[u].order].task = u
      BY <1>2, <1>6, TaskOfOrder, NoneAssumption, Parts DEF Attempts, RowInv, TaskOK
  <1>7. RowInv'
      <2> SUFFICES ASSUME NEW u \in Tasks
                   PROVE  /\ RowFits(task'[u])
                          /\ task'[u].status # "absent" =>
                                order'[task'[u].order].task = u
          BY DEF RowInv
      <2>1. CASE u = t
          BY <1>1, <1>3, <2>1
      <2>2. CASE u # t
          BY <1>3, <1>6, <2>2 DEF Attempts, RowInv
      <2> QED BY <2>1, <2>2
  <1> QED BY <1>2, <1>5, <1>7 DEF Passes

LEMMA FlagIdles ==
    ASSUME WorkerOK, NEW p \in Workers, NEW lost,
           \/ worker' = [worker EXCEPT ![p].ctx = TRUE]
           \/ worker' = [worker EXCEPT ![p].lost = lost, ![p].ctx = TRUE]
    PROVE  Idles
  BY DEF WorkerOK, WorkerState, Idles, Stays, Copy

LEMMA CancelActiveTaskIdles ==
    ASSUME WorkerOK, NEW c, NEW t, CancelActiveTask(c, t) PROVE Idles
  BY FlagIdles, IdlesSame DEF CancelActiveTask

LEMMA RenewTaskLeasePasses ==
    ASSUME TypeInv, Attempts, NEW p \in Workers, RenewTaskLease(p) PROVE Passes
  <1> DEFINE t == worker[p].t
             k == task[t]
             n == [k EXCEPT !.expired = FALSE]
  <1>1. /\ t \in Tasks /\ k \in TaskRow /\ k.status # "absent" /\ RowFits(k)
        /\ UNCHANGED order /\ OrdersMove
      BY WorkerFacts, OrdersSame DEF RenewTaskLease, Registered, Attempts, RowInv
  <1>2. Idles
      BY FlagIdles, IdlesSame, Parts DEF RenewTaskLease
  <1>3. UNCHANGED task \/ task' = [task EXCEPT ![t] = n]
      BY <1>1, Parts DEF RenewTaskLease, TaskOK
  <1>4. /\ n \in TaskRow /\ n.status = k.status /\ n.order = k.order
        /\ n.owner = k.owner /\ n.gen = k.gen /\ n.prov = k.prov
        /\ n.result = k.result /\ n.stage = k.stage
      BY <1>1 DEF TaskRow
  <1> HIDE DEF n
  <1>5. Uncreated(n) => Uncreated(k)
      BY <1>4, Zenon DEF Uncreated
  <1>6. RowFits(n) /\ Advances(k, n) /\ ~Ends(k, n)
      BY <1>1, <1>4, <1>5, AdvancesInPlace DEF RowFits, Ends
  <1> QED BY <1>1, <1>2, <1>3, <1>4, <1>6, LocalPasses, RowPasses

\* A task that is not running gets a new order, and forgets the old attempt.
LEMMA AdvancesToOrder ==
    ASSUME NEW k \in TaskRow, NEW n \in TaskRow, n.gen = k.gen, n.order # k.order,
           n.owner = None, n.status = "queued", n.prov = None, n.result = None,
           k.status \in {"absent", "failed", "cancelled"}
    PROVE  Advances(k, n) /\ ~Ends(k, n) /\ RowFits(n)
  <1>1. n.gen >= k.gen
      BY DEF TaskRow
  <1> QED BY <1>1 DEF Advances, Ends, RowFits

LEMMA CreateTaskPasses ==
    ASSUME TypeInv, Attempts, NEW t \in Tasks, CreateTask(t) PROVE Passes
  <1> DEFINE k == task[t]
  <1>1. Idles /\ k.status = "absent" /\ k \in TaskRow /\ k = AbsentTask
      BY IdlesSame, Parts DEF CreateTask, TaskOK, Attempts, RowInv, RowFits
  <1>2. PICK o \in Orders :
            /\ order[o].status = "unused"
            /\ order' = [order EXCEPT ![o] = [status |-> "reserved",
                                              prov |-> None, task |-> t]]
            /\ task' = [task EXCEPT ![t].status = "queued", ![t].order = o]
      BY DEF CreateTask
  <1> DEFINE n == [k EXCEPT !.status = "queued", !.order = o]
  <1>3. task' = [task EXCEPT ![t] = n]
      BY <1>2, Parts DEF TaskOK
  <1>4. k.order = None /\ k.owner = None /\ k.prov = None /\ k.result = None
      <2>1. /\ AbsentTask.order = None /\ AbsentTask.owner = None
            /\ AbsentTask.prov = None /\ AbsentTask.result = None
          BY DEF AbsentTask
      <2> QED BY <1>1, <2>1
  <1>5. /\ n \in TaskRow /\ n.status = "queued" /\ n.order = o /\ n.gen = k.gen
        /\ n.owner = k.owner /\ n.prov = k.prov /\ n.result = k.result
      BY <1>1, Statuses DEF TaskRow
  <1> HIDE DEF n
  <1>6. Advances(k, n) /\ ~Ends(k, n) /\ RowFits(n)
      BY <1>1, <1>4, <1>5, NoneAssumption, AdvancesToOrder
  <1> QED BY <1>1, <1>2, <1>3, <1>5, <1>6, OrderPasses

LEMMA RetryTaskWithBillingPasses ==
    ASSUME TypeInv, Attempts, NEW c \in Clients, RetryTaskWithBilling(c) PROVE Passes
  <1> DEFINE t == client[c].t
             k == task[t]
  <1>1. Idles /\ t \in Tasks /\ k \in TaskRow
      BY IdlesSame, ClientFacts DEF RetryTaskWithBilling
  <1>2. CASE UNCHANGED <<task, order>>
      BY <1>1, <1>2, LocalPasses, OrdersSame
  <1>3. ASSUME k.status \in {"failed", "cancelled"},
               NEW o \in Orders, order[o].status = "unused",
               order' = [order EXCEPT ![o] = [status |-> "reserved",
                                              prov |-> None, task |-> t]],
               task' = [task EXCEPT ![t] =
                      [AbsentTask EXCEPT !.status = "queued", !.order = o,
                                         !.gen = k.gen]]
        PROVE  Passes
      <2> DEFINE n == [AbsentTask EXCEPT !.status = "queued", !.order = o, !.gen = k.gen]
      <2>1. /\ n \in TaskRow /\ n.status = "queued" /\ n.order = o /\ n.gen = k.gen
            /\ n.owner = None /\ n.prov = None /\ n.result = None
          BY <1>1, Statuses DEF TaskRow, AbsentTask
      <2>2. task' = [task EXCEPT ![t] = n]
          BY <1>3
      <2> HIDE DEF n
      <2>3. k.order # o
          BY <1>1, <1>3, NoneAssumption DEF Attempts, RowInv, OrderInv
      <2>4. Advances(k, n) /\ ~Ends(k, n) /\ RowFits(n)
          BY <1>1, <1>3, <2>1, <2>3, AdvancesToOrder
      <2> QED BY <1>1, <1>3, <2>1, <2>2, <2>4, OrderPasses
  <1> QED BY <1>2, <1>3 DEF RetryTaskWithBilling

LEMMA ResumePasses ==
    ASSUME TypeInv, Attempts, NEW c \in Clients, ResumeTaskWithUncertainBilling(c)
    PROVE  Passes
  <1> DEFINE t == client[c].t
             k == task[t]
             n == [k EXCEPT !.owner = None, !.expired = FALSE, !.status = "queued",
                            !.result = None, !.stage = "provider_resume"]
  <1>1. Idles /\ t \in Tasks /\ k \in TaskRow /\ OrdersMove /\ RowFits(k)
      BY IdlesSame, OrdersSame, ClientFacts
         DEF ResumeTaskWithUncertainBilling, Attempts, RowInv
  <1>2. \/ UNCHANGED task
        \/ /\ k.status \in {"failed", "cancelled"}
           /\ task' = [task EXCEPT ![t] = n]
      BY <1>1, Parts DEF ResumeTaskWithUncertainBilling, Resumable, Unlease, TaskOK
  <1>3. CASE /\ k.status \in {"failed", "cancelled"}
             /\ task' = [task EXCEPT ![t] = n]
      <2>1. /\ n \in TaskRow /\ n.status = "queued" /\ n.order = k.order
            /\ n.gen = k.gen /\ n.owner = None /\ n.prov = k.prov
            /\ n.result = None /\ n.stage = "provider_resume"
          BY <1>1, Statuses DEF TaskRow
      <2> HIDE DEF n
      <2>2. RowFits(n)
          BY <1>1, <2>1 DEF RowFits
      <2>3. n.gen >= k.gen /\ ~Uncreated(n)
          BY <1>1, <2>1, StagedIsCreated DEF TaskRow
      <2>4. Advances(k, n) /\ ~Ends(k, n)
          BY <1>3, <2>1, <2>3 DEF Advances, Ends
      <2> QED BY <1>1, <1>3, <2>1, <2>2, <2>4, RowPasses
  <1> QED BY <1>1, <1>2, <1>3, LocalPasses

LEMMA CancelledPasses ==
    ASSUME TypeInv, Attempts, NEW t \in Tasks, task[t].status \in {"queued", "running"},
           task' = [task EXCEPT ![t] = Cancelled(@)], UNCHANGED <<order, worker>>
    PROVE  Passes
  <1> DEFINE k == task[t]
             n == Cancelled(k)
             g == k.gen + 1
  <1>1. Idles /\ k \in TaskRow /\ OrdersMove /\ RowFits(k) /\ k.gen \in Nat
      BY IdlesSame, OrdersSame, Parts DEF TaskOK, TaskRow, Attempts, RowInv
  <1>2. TaskOK' /\ task'[t] = n
      BY CancelledType, Parts DEF TaskOK
  <1>3. n \in TaskRow
      BY <1>2 DEF TaskOK
  <1>4. /\ n.status = "cancelled" /\ n.order = k.order /\ n.owner = None
        /\ n.gen = g /\ n.prov = k.prov /\ n.result = k.result
      BY <1>1 DEF TaskRow, Cancelled, Unlease
  <1>5. task' = [task EXCEPT ![t] = n]
      OBVIOUS
  <1> HIDE DEF n
  <1>6. RowFits(n)
      BY <1>1, <1>4 DEF RowFits
  <1>7. n.gen >= k.gen /\ n.gen # k.gen /\ n.gen = k.gen + 1
      BY <1>1, <1>4
  <1>8. Advances(k, n) /\ ~Ends(k, n)
      BY <1>4, <1>7, EndedIsCreated DEF Advances, Ends
  <1> QED BY <1>1, <1>3, <1>4, <1>5, <1>6, <1>8, RowPasses

LEMMA LeaseExpiresPasses ==
    ASSUME TypeInv, Attempts, NEW t \in Tasks, LeaseExpires(t) PROVE Passes
  <1> DEFINE k == task[t]
             n == [k EXCEPT !.expired = TRUE]
  <1>1. /\ Idles /\ k \in TaskRow /\ OrdersMove /\ RowFits(k)
        /\ k.owner # None
      BY IdlesSame, OrdersSame, Parts DEF LeaseExpires, TaskOK, Attempts, RowInv
  <1>2. /\ n \in TaskRow /\ n.status = k.status /\ n.order = k.order
        /\ n.owner = k.owner /\ n.gen = k.gen /\ n.prov = k.prov
        /\ n.result = k.result /\ n.stage = k.stage
      BY <1>1 DEF TaskRow
  <1>3. task' = [task EXCEPT ![t] = n]
      BY Parts DEF LeaseExpires, TaskOK
  <1> HIDE DEF n
  <1>4. k.status \in {"running", "cancelled"}
      BY <1>1 DEF RowFits
  <1>5. Uncreated(n) => Uncreated(k)
      BY <1>2, Zenon DEF Uncreated
  <1>6. RowFits(n) /\ Advances(k, n) /\ ~Ends(k, n)
      BY <1>1, <1>2, <1>4, <1>5, AdvancesInPlace DEF RowFits, Ends
  <1> QED BY <1>1, <1>2, <1>3, <1>4, <1>6, RowPasses

LEMMA ClientStepPasses ==
    ASSUME TypeInv, Attempts, NEW c \in Clients, ClientStep(c) PROVE Passes
  <1>1. CASE CancelTaskIfQueued(c)
      <2>1. client[c].t \in Tasks /\ UNCHANGED <<order, worker>>
          BY <1>1, ClientFacts DEF CancelTaskIfQueued
      <2>2. \/ UNCHANGED task
            \/ /\ task[client[c].t].status = "queued"
               /\ task' = [task EXCEPT ![client[c].t] = Cancelled(@)]
          BY <1>1 DEF CancelTaskIfQueued
      <2> QED BY <2>1, <2>2, CancelledPasses, LocalPasses, IdlesSame, OrdersSame
  <1>2. CASE CancelTaskIfRunning(c)
      <2>1. client[c].t \in Tasks /\ UNCHANGED <<order, worker>>
          BY <1>2, ClientFacts DEF CancelTaskIfRunning
      <2>2. \/ UNCHANGED task
            \/ /\ task[client[c].t].status = "running"
               /\ task' = [task EXCEPT ![client[c].t] = Cancelled(@)]
          BY <1>2 DEF CancelTaskIfRunning
      <2> QED BY <2>1, <2>2, CancelledPasses, LocalPasses, IdlesSame, OrdersSame
  <1>3. CASE CancelRefund(c)
      <2>1. client[c].ord \in Orders
          BY <1>3, ClientFacts DEF CancelRefund
      <2>2. OrdersMove
          BY <1>3, <2>1, OrdersSet, OrdersSame, Parts DEF CancelRefund
      <2> QED BY <1>3, <2>2, LocalPasses, IdlesSame DEF CancelRefund
  <1>4. CASE CancelMarkUncertain(c)
      <2>1. client[c].ord \in Orders
          BY <1>4, ClientFacts DEF CancelMarkUncertain
      <2>2. OrdersMove
          BY <1>4, <2>1, OrdersMarked, Parts DEF CancelMarkUncertain
      <2> QED BY <1>4, <2>2, LocalPasses, IdlesSame DEF CancelMarkUncertain
  <1>5. CASE CancelReread(c)
      <2>1. Idles
          BY <1>5, CancelActiveTaskIdles, IdlesSame, Parts DEF CancelReread
      <2> QED BY <1>5, <2>1, LocalPasses, OrdersSame DEF CancelReread
  <1> QED BY <1>1, <1>2, <1>3, <1>4, <1>5, RetryTaskWithBillingPasses, ResumePasses
          DEF ClientStep

LEMMA CancelTaskPasses ==
    ASSUME TypeInv, Attempts, NEW c \in Clients, NEW t \in Tasks,
           CancelTask(c, t) \/ RetryTask(c, t)
    PROVE  Passes
  <1>1. Idles
      BY CancelActiveTaskIdles, IdlesSame, Parts DEF CancelTask, RetryTask
  <1> QED BY <1>1, LocalPasses, OrdersSame DEF CancelTask, RetryTask

LEMMA OrderStepPasses ==
    ASSUME TypeInv, Attempts, NEW o \in Orders,
           \/ ResolveBillingOrder(o) \/ ReconcileBillingOrder(o)
           \/ ProviderFinishes(o)
    PROVE  Passes
  <1>1. UNCHANGED <<task, worker>>
      BY DEF ResolveBillingOrder, ReconcileBillingOrder, ProviderFinishes
  <1>2. \/ UNCHANGED order \/ order' = SetBilling(o, "settled")
        \/ order' = SetBilling(o, "refunded")
      BY ShapeAssumption DEF ResolveBillingOrder, ReconcileBillingOrder, ProviderFinishes
  <1>3. OrdersMove
      BY <1>2, OrdersSet, OrdersSame, Parts
  <1> QED BY <1>1, <1>3, LocalPasses, IdlesSame

LEMMA CrashPasses == ASSUME TypeInv, Attempts, NEW x, Crash(x) PROVE Passes
  <1>1. ASSUME NEW q \in Workers PROVE worker'[q].pc = "idle" \/ Stays(q)
      <2>1. worker'[q] = IdleWorker \/ worker'[q] = worker[q]
          BY DEF Crash
      <2>2. IdleWorker.pc = "idle"
          BY DEF IdleWorker
      <2> QED BY <2>1, <2>2, StaysSelf
  <1>2. Idles
      BY <1>1 DEF Idles
  <1> QED BY <1>2, LocalPasses, OrdersSame DEF Crash

\* Every step is a step of one worker or passes by all of them, sending nothing.
LEMMA StepMoves ==
    ASSUME TypeInv, Attempts, [Next]_vars
    PROVE  \/ Passes /\ UNCHANGED posts
           \/ \E p \in Workers : Acts(p) /\ (WorkerStep(p) \/ ClaimNextTask(p))
  <1>1. CASE UNCHANGED vars
      BY <1>1, LocalPasses, IdlesSame, OrdersSame DEF vars
  <1>2. ASSUME NEW t \in Tasks, CreateTask(t) \/ LeaseExpires(t)
        PROVE  Passes /\ UNCHANGED posts
      BY <1>2, CreateTaskPasses, LeaseExpiresPasses DEF CreateTask, LeaseExpires
  <1>3. ASSUME NEW p \in Workers, ClaimNextTask(p) PROVE Acts(p)
      BY <1>3, ClaimTaskActs DEF ClaimNextTask
  <1>4. ASSUME NEW p \in Workers, RenewTaskLease(p) PROVE Passes /\ UNCHANGED posts
      BY <1>4, RenewTaskLeasePasses DEF RenewTaskLease
  <1>5. ASSUME NEW c \in Clients, ClientStep(c) PROVE Passes /\ UNCHANGED posts
      <2>1. UNCHANGED posts
          BY <1>5 DEF ClientStep, CancelTaskIfQueued, CancelTaskIfRunning,
             CancelRefund, CancelMarkUncertain, CancelReread, RetryTaskWithBilling,
             ResumeTaskWithUncertainBilling
      <2> QED BY <1>5, <2>1, ClientStepPasses
  <1>6. ASSUME NEW c \in Clients, NEW t \in Tasks, CancelTask(c, t) \/ RetryTask(c, t)
        PROVE  Passes /\ UNCHANGED posts
      BY <1>6, CancelTaskPasses DEF CancelTask, RetryTask
  <1>7. ASSUME NEW o \in Orders,
               \/ ResolveBillingOrder(o) \/ ReconcileBillingOrder(o)
               \/ ProviderFinishes(o)
        PROVE  Passes /\ UNCHANGED posts
      BY <1>7, OrderStepPasses
         DEF ResolveBillingOrder, ReconcileBillingOrder, ProviderFinishes
  <1>8. ASSUME NEW x \in Crashable, Crash(x) PROVE Passes /\ UNCHANGED posts
      BY <1>8, CrashPasses DEF Crash
  <1> QED BY <1>1, <1>2, <1>3, <1>4, <1>5, <1>6, <1>7, <1>8, WorkerStepActs DEF Next

\* Only a worker past its claim sends, for an order that has its task.
LEMMA PostsUnused ==
    ASSUME TypeInv, Attempts, NEW p \in Workers, Post(p), NEW o \in Orders,
           order[o].status = "unused"
    PROVE  posts'[o] = posts[o]
  <1>1. worker[p].pc = "post" /\ worker[p].ord \in Orders /\ worker[p].t # None
      BY WorkerFacts, NoneAssumption DEF Post, At
  <1>2. worker[p].ord # o
      BY <1>1, OwnFits DEF Attempts, OrderInv
  <1> QED BY <1>1, <1>2, Parts DEF Post, RestOK

LEMMA OthersSendNothing ==
    ASSUME NEW p \in Workers, WorkerStep(p) \/ ClaimNextTask(p), ~Post(p)
    PROVE  UNCHANGED posts
  BY DEF WorkerStep, Reread, VerifyEnvelope, UpdateTaskProgress,
         ReadBilling, StartBilling, CallFails, ResumeJob, BeginProviderCreate,
         SaveProviderCall, Poll, HandleError, ScheduleReconciliation,
         WorkerMarkUncertain, FinalizeFailed, ReadLatest,
         ClaimCancelledTaskResult, SaveCancelledTaskResult,
         UpdateTaskProgress90, FinalizeSucceeded, SettleCompleted,
         ClaimNextTask, ClaimTask

LEMMA AttemptsStep ==
    TypeInv /\ LeaseInv /\ Attempts /\ [Next]_vars => Attempts'
  <1> SUFFICES ASSUME TypeInv, LeaseInv, Attempts, [Next]_vars
               PROVE  Attempts'
      OBVIOUS
  <1>1. TypeInv'
      BY TypeStep
  <1>2. RowInv' /\ OrdersMove /\ WorkerInv'
      <2>1. CASE Passes
          BY <1>1, <2>1, WorkersIdle DEF Passes
      <2>2. ASSUME NEW p \in Workers, Acts(p)
            PROVE  RowInv' /\ OrdersMove /\ WorkerInv'
          BY <1>1, <2>2, WorkersAct DEF Acts
      <2> QED BY <2>1, <2>2, StepMoves
  <1>3. OrderInv'
      BY <1>2, StepMoves, PostsUnused, OthersSendNothing, OrdersUnused DEF Attempts
  <1> QED BY <1>2, <1>3 DEF Attempts

LEMMA AttemptsInit == Init => Attempts
  <1> SUFFICES ASSUME Init PROVE Attempts
      OBVIOUS
  <1>1. /\ AbsentTask.status = "absent" /\ AbsentTask.prov = None
        /\ AbsentTask.result = None /\ AbsentTask.owner = None
      BY DEF AbsentTask
  <1>2. RowInv
      BY <1>1 DEF Init, RowInv, RowFits
  <1>3. OrderInv
      BY DEF Init, OrderInv, UnusedOrder
  <1>4. IdleWorker.pc = "idle"
      BY DEF IdleWorker
  <1>5. WorkerInv
      BY <1>4 DEF Init, WorkerInv, WorkerFits
  <1> QED BY <1>2, <1>3, <1>5 DEF Attempts

\* Whatever workers of earlier attempts still do, the output a task shows is
\* the one of its current order: saveTaskCompletion and
\* SaveCancelledTaskResult store nothing else, and a retry forgets it.
THEOREM ResultIsOwn == Spec => []ResultFromOwnOrder
  <1>1. Attempts => ResultFromOwnOrder
      BY DEF Attempts, RowInv, RowFits, ResultFromOwnOrder
  <1> QED BY <1>1, TypeInit, TypeStep, LeaseInit, LeaseStep, AttemptsInit,
             AttemptsStep, PTL DEF Spec

----------------------------------------------------------------------------
(* One create request *)

\* A worker that will send the create request of its order, or fail: past
\* BeginProviderCreate, or past BeginTokenBillingRequest without a job.
Pending(w) == \/ w.pc = "post"
              \/ w.pc = "call" /\ w.prov = None /\ Kind[w.t] = "token"

\* An order whose creation boundary is still to be passed.
Creatable(o) ==
    LET t == order[o].task IN
    \/ Kind[t] = "token" /\ order[o].status = "reserved"
    \/ Kind[t] = "fenced" /\ task[t].order = o /\ Uncreated(task[t])

Sends(p, o) == Pending(worker[p]) /\ worker[p].ord = o

\* The request is ahead of the boundary, with one worker, or behind.
OneSender(o) ==
    order[o].task # None /\ Kind[order[o].task] # "plain" =>
        /\ posts[o] <= 1
        /\ Creatable(o) => posts[o] = 0
        /\ \A p \in Workers : Sends(p, o) =>
               /\ posts[o] = 0 /\ ~Creatable(o)
               /\ \A q \in Workers : Sends(q, o) => q = p

SendInv == \A o \in Orders : OneSender(o)

LEMMA SenderFacts ==
    ASSUME TypeInv, Attempts, NEW p \in Workers, NEW o, Sends(p, o)
    PROVE  /\ o \in Orders /\ worker[p].t \in Tasks
           /\ order[o].task = worker[p].t /\ order[o].task # None
  <1>1. worker[p].pc \notin {"idle", "claimed"} /\ worker[p].ord = o
      BY DEF Sends, Pending
  <1> QED BY <1>1, WorkerFacts, OwnFits, NoneAssumption

\* A boundary once passed stays so: a step makes an order creatable only by
\* taking it.
LEMMA CreatableBefore ==
    ASSUME TypeInv, Attempts, RowsAdvance, OrdersMove, NEW o \in Orders,
           order[o].task \in Tasks, Creatable(o)'
    PROVE  Creatable(o)
  <1> DEFINE t == order[o].task
  <1>1. order[o].status # "unused" /\ order'[o].task = t
      BY TaskOfOrder, NoneAssumption DEF Attempts, OrderInv
  <1>2. order'[o].status = "reserved" => order[o].status = "reserved"
      BY <1>1 DEF OrdersMove, OrderKept
  <1>3. task'[t].order = o => task[t].order = o
      BY <1>1 DEF RowsAdvance
  <1>4. task'[t].order = o /\ Uncreated(task'[t]) => Uncreated(task[t])
      BY <1>3 DEF RowsAdvance, Advances
  <1> QED BY <1>1, <1>2, <1>3, <1>4 DEF Creatable

\* An order nobody starts to send for.
LEMMA NoNewSender ==
    ASSUME TypeInv, Attempts, TypeInv', Attempts', RowsAdvance, OrdersMove,
           NEW o \in Orders, OneSender(o), posts'[o] = posts[o],
           \A q \in Workers : Sends(q, o)' /\ Kind[worker'[q].t] # "plain" => Sends(q, o)
    PROVE  OneSender(o)'
  <1> SUFFICES ASSUME order'[o].task # None, Kind[order'[o].task] # "plain"
               PROVE  /\ posts'[o] <= 1
                      /\ Creatable(o)' => posts'[o] = 0
                      /\ \A p \in Workers : Sends(p, o)' =>
                             /\ posts'[o] = 0 /\ ~Creatable(o)'
                             /\ \A q \in Workers : Sends(q, o)' => q = p
      BY DEF OneSender
  <1>1. ASSUME NEW q \in Workers, Sends(q, o)' PROVE Sends(q, o)
      <2>1. order'[o].task = worker'[q].t
          <3>1. worker'[q].pc \notin {"idle", "claimed"} /\ worker'[q].ord = o
              BY <1>1 DEF Sends, Pending
          <3> QED BY <3>1 DEF Attempts, WorkerInv, WorkerFits
      <2> QED BY <1>1, <2>1
  <1>2. CASE order[o].task = None
      <2>1. order[o].status = "unused"
          BY <1>2 DEF OrdersMove, OrderKept
      <2>2. posts'[o] = 0
          BY <2>1 DEF Attempts, OrderInv
      <2>3. \A q \in Workers : ~Sends(q, o)'
          BY <1>1, <1>2, SenderFacts
      <2> QED BY <2>2, <2>3
  <1>3. CASE order[o].task # None
      <2>1. order'[o].task = order[o].task /\ order[o].task \in Tasks
          BY <1>3, TaskOfOrder, Parts DEF Attempts, OrderOK, OrderRow
      <2>2. Creatable(o)' => Creatable(o)
          BY <2>1, CreatableBefore
      <2> QED BY <1>1, <1>3, <2>1, <2>2 DEF OneSender
  <1> QED BY <1>2, <1>3

\* A step of worker p in which p does not start to send.
LEMMA CalmStep ==
    ASSUME TypeInv, Attempts, TypeInv', Attempts', SendInv, NEW p \in Workers,
           Acts(p), UNCHANGED posts, worker[p].pc # "idle",
           \/ ~Pending(worker'[p]) \/ Kind[worker'[p].t] = "plain"
           \/ Pending(worker[p]) /\ worker'[p].ord = worker[p].ord
    PROVE  SendInv'
  <1>1. ASSUME NEW q \in Workers, NEW o \in Orders, Sends(q, o)',
               Kind[worker'[q].t] # "plain"
        PROVE  Sends(q, o)
      BY <1>1 DEF Acts, Sends
  <1> QED BY <1>1, NoNewSender DEF SendInv, Acts

LEMMA PassesSend ==
    ASSUME TypeInv, Attempts, TypeInv', Attempts', SendInv, Passes, UNCHANGED posts
    PROVE  SendInv'
  <1>1. ASSUME NEW q \in Workers, NEW o \in Orders, Sends(q, o)'
        PROVE  Sends(q, o)
      BY <1>1 DEF Passes, Idles, Stays, Copy, Sends, Pending
  <1> QED BY <1>1, NoNewSender DEF SendInv, Passes

LEMMA NotPending ==
    ASSUME NEW p, NEW pc, pc \notin {"post", "call"}, Goes(p, pc)
    PROVE  ~Pending(worker'[p])
  BY DEF Goes, Pending

LEMMA QuitsNotPending == ASSUME NEW p, Quits(p) PROVE ~Pending(worker'[p])
  BY DEF Quits, Pending

\* Most steps leave the worker elsewhere than before a create request.
LEMMA SilentStep ==
    ASSUME TypeInv, NEW p \in Workers, WorkerStep(p), ~Post(p),
           ~VerifyEnvelope(p), ~ReadBilling(p), ~StartBilling(p), ~BeginProviderCreate(p)
    PROVE  ~Pending(worker'[p])
  <1>0. WorkerOK
      BY Parts
  <1>1. CASE Reread(p)
      <2>1. worker'[p].pc = "verify" \/ Quits(p)
          BY <1>0, <1>1, ReturnQuits DEF Reread, WorkerOK, WorkerState
      <2> QED BY <2>1, QuitsNotPending DEF Pending
  <1>2. CASE UpdateTaskProgress(p)
      <2>1. Goes(p, "startbill") \/ Goes(p, "readbill") \/ Quits(p)
          BY <1>0, <1>2, GotoGoes, ReturnQuits DEF UpdateTaskProgress
      <2> QED BY <2>1, NotPending, QuitsNotPending
  <1>3. CASE CallFails(p)
      BY <1>0, <1>3, Gives, Errs, NotPending DEF CallFails
  <1>4. CASE ResumeJob(p)
      <2>1. worker'[p].pc = "poll"
          BY <1>0, <1>4 DEF ResumeJob, WorkerOK, WorkerState
      <2> QED BY <2>1 DEF Pending
  <1>5. CASE SaveProviderCall(p)
      <2>1. Goes(p, "succeeded") \/ Goes(p, "poll") \/ Goes(p, "error")
          BY <1>0, <1>5, GotoGoes, Gives, Errs DEF SaveProviderCall
      <2> QED BY <2>1, NotPending
  <1>6. CASE Poll(p)
      <2>1. Goes(p, "succeeded") \/ Goes(p, "error")
          BY <1>0, <1>6, GotoGoes, Gives, Errs DEF Poll
      <2> QED BY <2>1, NotPending
  <1>7. CASE HandleError(p)
      <2> DEFINE e == IF RequiresReview(p) THEN "uncertain" ELSE "refund"
      <2>1. \/ Return(p) \/ Goto(p, "schedule") \/ Goto(p, "markunc")
            \/ worker' = [worker EXCEPT ![p].pc = "final", ![p].err = e]
          BY <1>7 DEF HandleError
      <2> HIDE DEF e
      <2>2. Goes(p, "schedule") \/ Goes(p, "markunc") \/ Goes(p, "final") \/ Quits(p)
          BY <1>0, <2>1, GotoGoes, FailGoes, ReturnQuits
      <2> QED BY <2>2, NotPending, QuitsNotPending
  <1>8. CASE ScheduleReconciliation(p)
      <2>1. Goes(p, "markunc") \/ Quits(p)
          BY <1>0, <1>8, GotoGoes, ReturnQuits DEF ScheduleReconciliation
      <2> QED BY <2>1, NotPending, QuitsNotPending
  <1>9. CASE WorkerMarkUncertain(p) \/ FinalizeFailed(p) \/ SettleCompleted(p)
      BY <1>0, <1>9, ReturnQuits, QuitsNotPending
         DEF WorkerMarkUncertain, FinalizeFailed, SettleCompleted
  <1>10. CASE ReadLatest(p)
      <2>1. Goes(p, "persist") \/ Goes(p, "saveres") \/ Goes(p, "claimres")
          BY <1>0, <1>10, GotoGoes DEF ReadLatest
      <2> QED BY <2>1, NotPending
  <1>11. CASE ClaimCancelledTaskResult(p)
      <2>1. worker'[p].pc = "saveres" \/ Goes(p, "markunc")
          BY <1>0, <1>11, GotoGoes DEF ClaimCancelledTaskResult, WorkerOK, WorkerState
      <2> QED BY <2>1, NotPending DEF Pending
  <1>12. CASE SaveCancelledTaskResult(p)
      <2>1. Goes(p, "markunc") \/ Quits(p)
          BY <1>0, <1>12, GotoGoes, ReturnQuits DEF SaveCancelledTaskResult
      <2> QED BY <2>1, NotPending, QuitsNotPending
  <1>13. CASE UpdateTaskProgress90(p)
      <2>1. Goes(p, "complete") \/ Quits(p)
          BY <1>0, <1>13, GotoGoes, ReturnQuits DEF UpdateTaskProgress90
      <2> QED BY <2>1, NotPending, QuitsNotPending
  <1>14. CASE FinalizeSucceeded(p)
      <2>1. Goes(p, "settle") \/ Goes(p, "final")
          BY <1>0, <1>14, GotoGoes, FailGoes DEF FinalizeSucceeded
      <2> QED BY <2>1, NotPending
  <1> QED BY <1>1, <1>2, <1>3, <1>4, <1>5, <1>6, <1>7, <1>8, <1>9, <1>10, <1>11,
             <1>12, <1>13, <1>14 DEF WorkerStep

LEMMA ClaimSilent ==
    ASSUME TypeInv, NEW p \in Workers, ClaimNextTask(p) PROVE ~Pending(worker'[p])
  <1>1. worker'[p].pc = "claimed"
      BY Parts DEF ClaimNextTask, ClaimTask, WorkerOK, WorkerState
  <1> QED BY <1>1 DEF Pending

\* Worker p passes the creation boundary of its order.
LEMMA StartToSend ==
    ASSUME TypeInv, Attempts, TypeInv', Attempts', SendInv, NEW p \in Workers,
           Acts(p), UNCHANGED posts, worker[p].pc \notin {"idle", "claimed"},
           NEW o \in Orders, worker[p].ord = o, worker'[p].ord = o,
           Kind[worker[p].t] # "plain", Creatable(o), ~Creatable(o)'
    PROVE  SendInv'
  <1>1. /\ order[o].task = worker[p].t /\ order[o].task # None
      BY WorkerFacts, OwnFits, NoneAssumption
  <1>2. posts[o] = 0 /\ \A q \in Workers : ~Sends(q, o)
      BY <1>1 DEF SendInv, OneSender
  <1>3. \A q \in Workers : Sends(q, o)' => q = p
      BY <1>2 DEF Acts, Sends
  <1>4. OneSender(o)'
      BY <1>2, <1>3 DEF OneSender
  <1>5. ASSUME NEW u \in Orders, u # o PROVE OneSender(u)'
      <2>1. \A q \in Workers : Sends(q, u)' => Sends(q, u)
          BY <1>5 DEF Acts, Sends
      <2> QED BY <2>1, NoNewSender DEF SendInv, Acts
  <1> QED BY <1>4, <1>5 DEF SendInv

LEMMA VerifyEnvelopeSend ==
    ASSUME TypeInv, Attempts, TypeInv', Attempts', SendInv, NEW p \in Workers,
           Acts(p), UNCHANGED posts, VerifyEnvelope(p) \/ ReadBilling(p)
    PROVE  SendInv'
  <1>1. worker[p].pc # "idle"
      BY DEF VerifyEnvelope, ReadBilling, At
  <1>2. ~Pending(worker'[p])
      <2>1. CASE VerifyEnvelope(p)
          <3>1. \/ Goes(p, "progress") \/ Quits(p)
                \/ Goes(p, "call") /\ worker[p].rec
              BY <2>1, GotoGoes, ReturnQuits, Parts DEF VerifyEnvelope
          <3>2. worker[p].pc = "verify"
              BY <2>1 DEF VerifyEnvelope, At
          <3>3. worker[p].rec => worker[p].prov # None
              BY <3>2, OwnFits DEF Fits
          <3> QED BY <3>1, <3>3, NotPending, QuitsNotPending DEF Goes, Copy, Pending
      <2>2. CASE ReadBilling(p)
          <3>1. Goes(p, "call") \/ Goes(p, "startbill")
              BY <2>2, GotoGoes, Parts DEF ReadBilling
          <3>2. worker[p].pc = "readbill"
              BY <2>2 DEF ReadBilling, At
          <3>3. worker[p].prov # None
              BY <3>2, OwnFits DEF Fits
          <3> QED BY <3>1, <3>3 DEF Goes, Copy, Pending
      <2> QED BY <2>1, <2>2
  <1> QED BY <1>1, <1>2, CalmStep

LEMMA StartBillingSend ==
    ASSUME TypeInv, Attempts, TypeInv', Attempts', SendInv, NEW p \in Workers,
           Acts(p), UNCHANGED posts, StartBilling(p)
    PROVE  SendInv'
  <1>0. worker[p].pc = "startbill" /\ worker[p].ord \in Orders
      BY WorkerFacts DEF StartBilling, At
  <1> PICK o \in Orders : worker[p].ord = o
      BY <1>0
  <1> DEFINE e == IF Kind[worker[p].t] = "token" THEN "uncertain" ELSE "refund"
  <1>1. worker[p].pc = "startbill" /\ order[o].task = worker[p].t
      BY <1>0, OwnFits
  <1>2. CASE ~Startable(p)
      <2>1. worker' = [worker EXCEPT ![p].pc = "final", ![p].err = e]
          BY <1>2 DEF StartBilling
      <2>2. Goes(p, "final")
          <3> HIDE DEF e
          <3> QED BY <2>1, FailGoes, Parts
      <2> QED BY <1>1, <2>2, NotPending, CalmStep
  <1>3. CASE Startable(p)
      <2>1. Goes(p, "call") /\ order' = SetBilling(o, "running")
          BY <1>3, GotoGoes, Parts DEF StartBilling
      <2>2. CASE Kind[worker[p].t] # "token"
          BY <1>1, <2>1, <2>2, CalmStep DEF Goes, Copy, Pending
      <2>3. CASE Kind[worker[p].t] = "token"
          <3>1. Creatable(o)
              BY <1>1, <1>3, <2>3 DEF Startable, Creatable
          <3>2. order'[o].status = "running" /\ order'[o].task = worker[p].t
              BY <1>1, <2>1, Parts DEF SetBilling, OrderOK, OrderRow
          <3>3. ~Creatable(o)'
              BY <2>3, <3>2 DEF Creatable
          <3>4. worker'[p].ord = o
              BY <2>1 DEF Goes, Copy
          <3> QED BY <1>1, <2>3, <3>1, <3>3, <3>4, StartToSend
      <2> QED BY <2>2, <2>3
  <1> QED BY <1>2, <1>3

LEMMA BeginProviderCreateSend ==
    ASSUME TypeInv, Attempts, TypeInv', Attempts', SendInv, NEW p \in Workers,
           Acts(p), UNCHANGED posts, BeginProviderCreate(p)
    PROVE  SendInv'
  <1>0. /\ worker[p].pc = "call" /\ worker[p].ord \in Orders
        /\ worker[p].t \in Tasks
      BY WorkerFacts DEF BeginProviderCreate, At
  <1> PICK o \in Orders, t \in Tasks : worker[p].ord = o /\ worker[p].t = t
      BY <1>0
  <1>1. /\ worker[p].pc = "call" /\ worker[p].prov = None /\ UNCHANGED order
        /\ order[o].task = t /\ task[t] \in TaskRow
      BY <1>0, WorkerFacts, OwnFits DEF BeginProviderCreate
  <1>2. CASE Kind[t] # "fenced"
      <2>1. Goes(p, "post")
          BY <1>2, GotoGoes, Parts DEF BeginProviderCreate
      <2>2. worker'[p].t = t /\ worker'[p].ord = o
          BY <2>1 DEF Goes, Copy
      <2>3. Kind[t] = "token" \/ Kind[t] = "plain"
          BY <1>1, <1>2, ShapeAssumption DEF Kinds
      <2> QED BY <1>1, <2>2, <2>3, CalmStep DEF Pending
  <1>3. CASE Kind[t] = "fenced" /\ ~CreateAllowed(p)
      <2>1. Goes(p, "error")
          BY <1>3, Gives, Errs, Parts DEF BeginProviderCreate
      <2> QED BY <1>1, <2>1, NotPending, CalmStep
  <1>4. CASE Kind[t] = "fenced" /\ CreateAllowed(p)
      <2>1. /\ Goes(p, "post") /\ task' = [task EXCEPT ![t].stage = "creating"]
          BY <1>4, GotoGoes, Parts DEF BeginProviderCreate
      <2>2. task'[t].stage = "creating"
          BY <1>1, <2>1, Parts DEF TaskOK, TaskRow
      <2>3. ~Creatable(o)'
          <3>1. ~Uncreated(task'[t])
              BY <2>2, StagedIsCreated
          <3> QED BY <1>1, <1>4, <3>1 DEF Creatable
      <2>4. Creatable(o)
          <3>1. HoldsLease(p) /\ task[t].status = "running"
              BY <1>4, Zenon DEF CreateAllowed, RunningLease
          <3>2. task[t].stage = ""
              BY <1>4, Zenon DEF CreateAllowed
          <3>3. Uncreated(task[t])
              BY <3>1, <3>2, Zenon DEF Uncreated
          <3>4. task[t].order = o
              BY <1>1, <3>1, HolderFacts
          <3>5. order[o].task = t /\ Kind[t] = "fenced"
              BY <1>1, <1>4
          <3> QED BY <3>3, <3>4, <3>5, Zenon DEF Creatable
      <2>5. worker'[p].ord = o
          BY <2>1 DEF Goes, Copy
      <2> QED BY <1>1, <1>4, <2>3, <2>4, <2>5, StartToSend
  <1> QED BY <1>2, <1>3, <1>4

LEMMA PostSend ==
    ASSUME TypeInv, Attempts, TypeInv', Attempts', SendInv, NEW p \in Workers,
           Acts(p), Post(p)
    PROVE  SendInv'
  <1>0. worker[p].pc = "post" /\ worker[p].ord \in Orders
      BY WorkerFacts DEF Post, At
  <1> PICK o \in Orders : worker[p].ord = o
      BY <1>0
  <1>1. Sends(p, o) /\ order[o].task # None /\ order[o].task \in Tasks
      <2>1. Sends(p, o)
          BY <1>0 DEF Sends, Pending
      <2> QED BY <2>1, SenderFacts
  <1>2. /\ posts'[o] = posts[o] + 1
        /\ \A u \in Orders \ {o} : posts'[u] = posts[u]
      BY Parts DEF Post, RestOK
  <1>3. ~Pending(worker'[p])
      <2>1. Goes(p, "error") \/ worker'[p].pc = "save"
          BY Gives, Errs, Parts DEF Post, WorkerOK, WorkerState
      <2> QED BY <2>1, NotPending DEF Pending
  <1>4. OneSender(o)'
      <2>1. order'[o].task = order[o].task
          BY <1>1, TaskOfOrder DEF Attempts, Acts
      <2> SUFFICES ASSUME Kind[order[o].task] # "plain"
                   PROVE  /\ posts'[o] <= 1 /\ ~Creatable(o)'
                          /\ \A q \in Workers : ~Sends(q, o)'
          BY <2>1 DEF OneSender
      <2>2. /\ posts[o] = 0 /\ ~Creatable(o)
            /\ \A q \in Workers : Sends(q, o) => q = p
          BY <1>1 DEF SendInv, OneSender
      <2>3. posts'[o] <= 1
          BY <1>2, <2>2
      <2>4. ~Creatable(o)'
          BY <1>1, <2>2, CreatableBefore DEF Acts
      <2>5. ASSUME NEW q \in Workers PROVE ~Sends(q, o)'
          BY <1>3, <2>2 DEF Acts, Sends
      <2> QED BY <2>3, <2>4, <2>5
  <1>5. ASSUME NEW u \in Orders, u # o PROVE OneSender(u)'
      <2>1. \A q \in Workers : Sends(q, u)' => Sends(q, u)
          BY <1>3 DEF Acts, Sends
      <2> QED BY <1>2, <1>5, <2>1, NoNewSender DEF SendInv, Acts
  <1> QED BY <1>4, <1>5 DEF SendInv

LEMMA SendStep ==
    TypeInv /\ LeaseInv /\ Attempts /\ SendInv /\ [Next]_vars => SendInv'
  <1> SUFFICES ASSUME TypeInv, LeaseInv, Attempts, SendInv, [Next]_vars
               PROVE  SendInv'
      OBVIOUS
  <1>1. TypeInv' /\ Attempts'
      BY TypeStep, AttemptsStep
  <1>2. CASE Passes /\ UNCHANGED posts
      BY <1>1, <1>2, PassesSend
  <1>3. ASSUME NEW p \in Workers, Acts(p), WorkerStep(p) \/ ClaimNextTask(p)
        PROVE  SendInv'
      <2>1. CASE Post(p)
          BY <1>1, <1>3, <2>1, PostSend
      <2>2. CASE ~Post(p)
          <3>1. UNCHANGED posts
              BY <1>3, <2>2, OthersSendNothing
          <3>2. CASE VerifyEnvelope(p) \/ ReadBilling(p)
              BY <1>1, <1>3, <3>1, <3>2, VerifyEnvelopeSend
          <3>3. CASE StartBilling(p)
              BY <1>1, <1>3, <3>1, <3>3, StartBillingSend
          <3>4. CASE BeginProviderCreate(p)
              BY <1>1, <1>3, <3>1, <3>4, BeginProviderCreateSend
          <3>5. CASE /\ ~VerifyEnvelope(p) /\ ~ReadBilling(p)
                     /\ ~StartBilling(p) /\ ~BeginProviderCreate(p)
              <4>1. ~Pending(worker'[p])
                  BY <1>3, <2>2, <3>5, SilentStep, ClaimSilent
              <4>2. ASSUME NEW q \in Workers, NEW o \in Orders, Sends(q, o)'
                    PROVE  Sends(q, o)
                  BY <1>3, <4>1, <4>2 DEF Acts, Sends
              <4> QED BY <1>1, <1>3, <3>1, <4>2, NoNewSender DEF SendInv, Acts
          <3> QED BY <3>2, <3>3, <3>4, <3>5
      <2> QED BY <2>1, <2>2
  <1> QED BY <1>2, <1>3, StepMoves

LEMMA SendInit == Init => SendInv
  BY DEF Init, SendInv, OneSender, UnusedOrder

\* Of all the workers that ever run an attempt behind a creation boundary, one
\* at most sends its create request, and it sends it once.
THEOREM OneCreate == Spec => []OnePostPerOrder
  <1>1. SendInv => OnePostPerOrder
      BY DEF SendInv, OneSender, OnePostPerOrder
  <1> QED BY <1>1, TypeInit, TypeStep, LeaseInit, LeaseStep, AttemptsInit,
             AttemptsStep, SendInit, SendStep, PTL DEF Spec
=============================================================================
