----------------------------- MODULE LocalBridge -----------------------------
(***************************************************************************)
(* One run of the browser's LocalAgentBridge: a Codex turn of the loopback *)
(* service on one side, an audit run of the backend on the other, and the  *)
(* hook useLocalAgentRuntime that stops, disposes and refreshes it.        *)
(*                                                                         *)
(* Turns are numbered: 1 is the user's, a later one continues it to repair *)
(* a rejected delivery.  A tool is called once, under its requestId.  The  *)
(* service is LocalThreads seen from the browser: which turn runs, which   *)
(* events are on the wire, which tool calls wait for a result.             *)
(***************************************************************************)
EXTENDS Naturals, Sequences, FiniteSets

CONSTANTS
    Tools,     \* tool calls Codex may make, from 1
    Approval,  \* those a person has to approve
    Closers,   \* what ends the run from outside
    Plans,     \* what a run may meet: tool calls, ways of closing, faults
    MaxTurns   \* bound: turns of the run, repairs included

Kinds == {"disconnect", "interrupt", "dispose"}
FaultKinds == {"local", "backend", "lost", "codex", "stream", "sync", "budget", "timeout"}
Plan == [tools : SUBSET Tools, how : [Closers -> Kinds], faults : SUBSET FaultKinds]

VARIABLES
    plan,       \* what this run meets
    start,      \* where start() is
    b,          \* the ActiveBridgeRun; on is whether #active holds it
    state,      \* #state
    activation, \* #activation
    closed,     \* #closedTurn
    disposed,   \* #disposedReason is set
    queue,      \* #eventQueue
    head,       \* where the operation at the head of the queue is
    closer,     \* where each closer is
    refresh,    \* the hook's refreshQueue
    cursor,     \* the hook's event cursor, as a state version
    seen,       \* the version of the hook's view
    turns,      \* service: the turns
    wire,       \* service: events written and not yet read by the browser
    live,       \* service: the event stream is open
    tool,       \* service: what Codex knows of each tool call
    run,        \* backend: the audit run
    outcome     \* backend: what became of each tool call

bridge == <<start, b, state, activation, closed, disposed>>
hook == <<plan, closer, refresh, cursor, seen>>
service == <<turns, wire, live, tool>>
backend == <<run, outcome>>
vars == <<bridge, queue, head, hook, service, backend>>
how == plan.how

----------------------------------------------------------------------------
(* State *)

Turns == 1..MaxTurns
NoTool == 0

ASSUME BridgeAssumption ==
    /\ NoTool \notin Tools
    /\ MaxTurns \in Nat \ {0}
    /\ Closers \cap {"hook", "stream"} = {}
    /\ Plans \subseteq Plan

Terminal == {"succeeded", "failed", "cancelled"}
RunStatus == {"none", "running", "waiting_approval", "waiting_tool"} \cup Terminal

\* A runtime view: status, version, pending tool, last tool result and the
\* feedback of a rejected decision or of a failed verification.
View == [st : RunStatus, ver : Nat, tool : Tools \cup {NoTool},
         res : Tools \cup {NoTool}, ok : BOOLEAN, fb : {"none", "decision", "delivery"}]
NoView == [st |-> "none", ver |-> 0, tool |-> NoTool, res |-> NoTool, ok |-> FALSE, fb |-> "none"]

Item == [k : {"tool", "final", "failed", "cancelled", "completed", "view"},
         turn : Turns, tool : Tools \cup {NoTool}, view : View, by : Closers \cup {"hook", "stream"}]
Event(k, n, t) == [k |-> k, turn |-> n, tool |-> t, view |-> NoView, by |-> "stream"]
ViewItem(v, who) == [k |-> "view", turn |-> 1, tool |-> NoTool, view |-> v, by |-> who]

HeadPC == {"ready", "submit", "answer", "deliver", "interrupt", "repair", "repaired"}
NoHead == [pc |-> "ready", view |-> NoView, send |-> "failed", tool |-> NoTool, fails |-> FALSE]

TypeOK ==
    /\ start \in {"idle", "local", "undo", "audit", "done", "failed"}
    /\ b \in [on : BOOLEAN, turn : {0} \cup Turns, view : View, pending : Tools \cup {NoTool},
              final : BOOLEAN, term : BOOLEAN, repair : BOOLEAN]
    /\ state \in {"idle", "reasoning", "waiting_approval", "delivering_result", "failed"}
    /\ activation \in {"open", "ok", "rejected"}
    /\ closed \in {0} \cup Turns
    /\ disposed \in BOOLEAN
    /\ queue \in Seq(Item)
    /\ head \in [pc : HeadPC, view : View, send : {"ok", "failed"}, tool : Tools \cup {NoTool}, fails : BOOLEAN]
    /\ plan \in Plan
    /\ closer \in [Closers -> {"idle", "accept", "cancel", "audit", "auditlate", "done", "error"}]
    /\ refresh \in [pc : {"idle", "got", "queued"}, due : BOOLEAN, view : View]
    /\ cursor \in Nat /\ seen \in Nat
    /\ turns \in [Turns -> {"none", "run", "abort", "end"}]
    /\ wire \in Seq(Item)
    /\ live \in BOOLEAN
    /\ tool \in [Tools -> {"none", "open", "ok", "failed", "gone"}]
    /\ run \in View
    /\ outcome \in [Tools -> {"none", "asked", "ok", "bad"}]

Init ==
    /\ start = "idle"
    /\ b = [on |-> FALSE, turn |-> 0, view |-> NoView, pending |-> NoTool,
            final |-> FALSE, term |-> FALSE, repair |-> FALSE]
    /\ state = "idle"
    /\ activation = "open"
    /\ closed = 0
    /\ disposed = FALSE
    /\ queue = <<>>
    /\ head = NoHead
    /\ plan \in Plans
    /\ closer = [c \in Closers |-> "idle"]
    /\ refresh = [pc |-> "idle", due |-> FALSE, view |-> NoView]
    /\ cursor = 0 /\ seen = 0
    /\ turns = [n \in Turns |-> "none"]
    /\ wire = <<>>
    /\ live = TRUE
    /\ tool = [t \in Tools |-> "none"]
    /\ run = NoView
    /\ outcome = [t \in Tools |-> "none"]

Fails(f) == f \in plan.faults
Over(v) == v.st \in Terminal

----------------------------------------------------------------------------
(* Requests *)

\* The service's cancel route: a turn that is over is not found.
CancelTurn(n) == turns[n] = "run" /\ turns' = [turns EXCEPT ![n] = "abort"]
NoCancel(n) == (turns[n] # "run" \/ Fails("local")) /\ UNCHANGED turns

\* SubmitScopedAgentInterrupt, for the version of the view at hand.
InterruptRun(ver) ==
    /\ ver = run.ver /\ ~Over(run)
    /\ run' = [run EXCEPT !.st = "cancelled", !.ver = @ + 1, !.fb = "none"]
NoInterrupt(ver) == (ver # run.ver \/ Over(run) \/ Fails("backend")) /\ UNCHANGED run

\* The decision that sets every step's progress aside.
Decided(st) == [run EXCEPT !.st = st, !.ver = @ + 1, !.tool = NoTool, !.res = NoTool, !.ok = FALSE, !.fb = "none"]
Rejected(fb) == [run EXCEPT !.st = "running", !.ver = @ + 1, !.tool = NoTool, !.fb = fb]

\* SubmitExternalAgentDecision with a tool call: run at once, left for
\* approval, rejected, or one too many.
DecideTool(t) ==
    \/ /\ t \notin Approval
       /\ \E good \in BOOLEAN :
            /\ run' = [Decided("running") EXCEPT !.ver = @ + 1, !.res = t, !.ok = good]
            /\ outcome' = [outcome EXCEPT ![t] = IF good THEN "ok" ELSE "bad"]
    \/ /\ t \in Approval
       /\ run' = [Decided("waiting_approval") EXCEPT !.tool = t]
       /\ outcome' = [outcome EXCEPT ![t] = "asked"]
    \/ run' = Rejected("decision") /\ UNCHANGED outcome
    \/ Fails("budget") /\ run' = Decided("failed") /\ UNCHANGED outcome

\* SubmitExternalAgentDecision with a final answer; the last turn's is not
\* sent back (bound).
DecideFinal ==
    /\ \/ run' = Decided("succeeded")
       \/ b.turn < MaxTurns /\ run' = Rejected("decision")
       \/ b.turn < MaxTurns /\ run' = [Decided("running") EXCEPT !.fb = "delivery"]
       \/ Fails("budget") /\ run' = Decided("failed")
    /\ UNCHANGED outcome

Acceptable(ver) == run.st = "running" /\ ver = run.ver

----------------------------------------------------------------------------
(* start() *)

Settle(answer) == activation' = IF activation = "open" THEN answer ELSE activation

StartLocal ==
    /\ start = "idle" /\ ~disposed
    /\ \/ /\ turns' = [turns EXCEPT ![1] = "run"]
          /\ start' = "local" /\ UNCHANGED <<activation, state>>
       \/ /\ Fails("local") /\ UNCHANGED turns
          /\ start' = "failed" /\ Settle("rejected") /\ state' = "failed"
    /\ UNCHANGED <<b, closed, disposed, queue, head, hook, wire, live, tool, backend>>

\* The answer of startTurn: a bridge disposed meanwhile takes the turn back.
StartAudit ==
    /\ start = "local"
    /\ \/ disposed /\ start' = "undo" /\ UNCHANGED run
       \/ /\ ~disposed
          /\ start' = "audit"
          /\ run' = [NoView EXCEPT !.st = "running", !.ver = 1]
       \/ ~disposed /\ Fails("backend") /\ start' = "undo" /\ UNCHANGED run
    /\ UNCHANGED <<b, state, activation, closed, disposed, queue, head, hook, service, outcome>>

\* #cancelAfterActivationFailure.
StartUndo ==
    /\ start = "undo"
    /\ CancelTurn(1) \/ NoCancel(1)
    /\ start' = "failed" /\ Settle("rejected") /\ state' = "failed"
    /\ UNCHANGED <<b, closed, disposed, queue, head, hook, wire, live, tool, backend>>

\* adoptView of the hook: the view is shown even if it is older than the
\* events already seen.
Adopt(v) == seen' = v.ver /\ cursor' = IF v.ver > cursor THEN v.ver ELSE cursor

\* A bridge disposed meanwhile is given up again, by the steps its dispose()
\* would have taken.
StartDone ==
    LET first == [NoView EXCEPT !.st = "running", !.ver = 1]
    IN  /\ start = "audit"
        /\ b' = [b EXCEPT !.on = TRUE, !.turn = 1, !.view = first]
        /\ IF disposed
           THEN /\ start' = "failed"
                /\ closer' = [c \in Closers |-> IF how[c] = "dispose" /\ closer[c] = "done" THEN "cancel" ELSE closer[c]]
                /\ UNCHANGED <<activation, state, cursor, seen>>
           ELSE start' = "done" /\ Settle("ok") /\ state' = "reasoning" /\ Adopt(first) /\ UNCHANGED closer
        /\ UNCHANGED <<closed, disposed, queue, head, plan, refresh, service, backend>>

----------------------------------------------------------------------------
(* The event queue *)

\* The browser reads the stream and queues what it read.
Read ==
    /\ wire # <<>>
    /\ queue' = Append(queue, Head(wire))
    /\ wire' = Tail(wire)
    /\ UNCHANGED <<bridge, head, hook, turns, live, tool, backend>>

Op == Head(queue)
Busy(pc) == queue # <<>> /\ head.pc = pc

\* The operation at the head ends; who waits for it learns how.
Ends(good) ==
    /\ queue' = Tail(queue)
    /\ head' = NoHead
    /\ closer' = IF Op.by \in Closers
                 THEN [closer EXCEPT ![Op.by] = IF good THEN "cancel" ELSE "error"] ELSE closer
    /\ refresh' = IF Op.by = "hook" THEN [refresh EXCEPT !.pc = "idle", !.view = NoView] ELSE refresh
    /\ UNCHANGED plan
Stays == UNCHANGED <<queue, plan, closer, refresh>>
Goes(pc) == head' = [head EXCEPT !.pc = pc] /\ Stays

\* #active is given up in favour of #closedTurn.
Close(s, r) == b' = [r EXCEPT !.on = FALSE] /\ closed' = r.turn /\ state' = s

Late == closed = Op.turn /\ Op.k \in {"completed", "failed", "cancelled"} /\ ~(b.on /\ b.turn = Op.turn)
Mine == b.on /\ b.turn = Op.turn

\* An event that comes late, or that no active run owns, changes nothing.
Drop ==
    /\ Busy("ready") /\ Op.k # "view"
    /\ activation = "rejected" \/ (activation = "ok" /\ (Late \/ ~Mine))
    /\ Ends(TRUE)
    /\ UNCHANGED <<bridge, cursor, seen, service, backend>>

Handling(k) == Busy("ready") /\ activation = "ok" /\ Mine /\ Op.k = k

\* #deliverFailure and #deliverResult: the result that goes to Codex.
Sends(told, t, fails) ==
    /\ head' = [head EXCEPT !.pc = "deliver", !.send = told, !.tool = t, !.fails = fails]
    /\ Stays

\* #handleToolCall up to the request: a canvas that cannot be synchronised
\* is the tool's failure.
ToolCall ==
    /\ Handling("tool")
    /\ \/ b.pending # NoTool /\ Ends(FALSE) /\ UNCHANGED b
       \/ b.pending = NoTool /\ Fails("sync") /\ Sends("failed", Op.tool, FALSE) /\ UNCHANGED b
       \/ b.pending = NoTool /\ Goes("submit") /\ b' = [b EXCEPT !.pending = Op.tool]
    /\ UNCHANGED <<start, state, activation, closed, disposed, cursor, seen, service, backend>>

\* submitDecision: it is committed, refused, or its answer is lost.
Submit ==
    /\ Busy("submit")
    /\ \/ /\ Acceptable(b.view.ver)
          /\ IF Op.k = "tool" THEN DecideTool(Op.tool) ELSE DecideFinal
          /\ head' = [head EXCEPT !.pc = "answer", !.view = run']
       \/ /\ Acceptable(b.view.ver) /\ Fails("lost")
          /\ IF Op.k = "tool" THEN DecideTool(Op.tool) ELSE DecideFinal
          /\ head' = [head EXCEPT !.pc = "answer", !.view = NoView]
       \/ /\ ~Acceptable(b.view.ver) \/ Fails("backend")
          /\ head' = [head EXCEPT !.pc = "answer", !.view = NoView]
          /\ UNCHANGED backend
    /\ UNCHANGED <<bridge, queue, hook, service>>

\* Mutant: the result of any tool is taken for the pending one.
AcceptAny(v) ==
    LET t == b.pending
    IN  \/ t = NoTool /\ Ends(TRUE) /\ UNCHANGED state
        \/ /\ t # NoTool /\ v.res # NoTool
           /\ Sends(IF v.ok THEN "ok" ELSE "failed", t, FALSE) /\ UNCHANGED state
        \/ /\ t # NoTool /\ v.res = NoTool /\ v.st \in {"waiting_approval", "waiting_tool"}
           /\ state' = "waiting_approval" /\ Ends(TRUE)
        \/ /\ t # NoTool /\ v.res = NoTool /\ v.st \notin {"waiting_approval", "waiting_tool"}
           /\ Sends("failed", t, FALSE) /\ UNCHANGED state

\* #acceptRuntimeView once the view is adopted.
Accept(v) ==
    LET t == b.pending
    IN  \/ t = NoTool /\ Ends(TRUE) /\ UNCHANGED state
        \/ /\ t # NoTool /\ v.res = t
           /\ Sends(IF v.ok THEN "ok" ELSE "failed", t, FALSE) /\ UNCHANGED state
        \/ /\ t # NoTool /\ v.res # t /\ v.tool = t /\ v.st \in {"waiting_approval", "waiting_tool"}
           /\ state' = IF v.st = "waiting_tool" THEN "delivering_result" ELSE "waiting_approval"
           /\ Ends(TRUE)
        \/ /\ t # NoTool /\ v.res # t /\ ~(v.tool = t /\ v.st \in {"waiting_approval", "waiting_tool"})
           /\ \/ v.fb = "decision" /\ Sends("failed", t, FALSE)
              \/ v.fb # "decision" /\ v.st \in {"failed", "cancelled"} /\ Sends("failed", t, TRUE)
              \/ v.fb # "decision" /\ v.st \notin {"failed", "cancelled"} /\ Ends(FALSE)
           /\ UNCHANGED state

\* The answer to a tool decision; a refusal is delivered as the failure of
\* the tool.
ToolAnswer ==
    /\ Busy("answer") /\ Op.k = "tool"
    /\ IF head.view.st = "none"
       THEN Sends("failed", Op.tool, TRUE) /\ UNCHANGED <<b, state, cursor, seen>>
       ELSE IF ~b.on
       THEN Ends(FALSE) /\ UNCHANGED <<b, state, cursor, seen>>
       ELSE /\ b' = [b EXCEPT !.view = head.view]
            /\ Adopt(head.view)
            /\ Accept(head.view)
    /\ UNCHANGED <<start, activation, closed, disposed, service, backend>>

AcceptView ==
    /\ Busy("ready") /\ Op.k = "view"
    /\ IF ~b.on
       THEN Ends(FALSE) /\ UNCHANGED <<b, state, cursor, seen>>
       ELSE /\ b' = [b EXCEPT !.view = Op.view]
            /\ Adopt(Op.view)
            /\ Accept(Op.view)
    /\ UNCHANGED <<start, activation, closed, disposed, service, backend>>

\* #deliverOnce: the service takes the result of a tool call that still waits
\* for one, or the same result again; the answer may be lost.  Two failures
\* may differ in their code.
Deliver ==
    LET t == head.tool
        Told == tool[t] = "open" /\ tool' = [tool EXCEPT ![t] = head.send]
        Again == tool[t] = head.send /\ UNCHANGED tool
        Refused == tool[t] # "open" /\ ~(tool[t] = "ok" /\ head.send = "ok")
    IN  /\ Busy("deliver")
        /\ \/ /\ Told \/ Again
              /\ b' = [b EXCEPT !.pending = NoTool]
              /\ state' = IF head.fails THEN "failed" ELSE "reasoning"
              /\ Ends(TRUE)
           \/ /\ \/ (Refused \/ Fails("local")) /\ UNCHANGED tool
                 \/ Fails("lost") /\ Told
              /\ state' = "failed"
              /\ Ends(FALSE)
              /\ UNCHANGED b
        /\ UNCHANGED <<start, activation, closed, disposed, cursor, seen, turns, wire, live, backend>>

\* #handleFinalDecision.
Final ==
    /\ Handling("final")
    /\ IF b.pending # NoTool THEN Ends(FALSE) ELSE Goes("submit")
    /\ UNCHANGED <<bridge, cursor, seen, service, backend>>

FinalAnswer ==
    LET v == head.view
        repairs == ~Over(v) /\ v.fb # "none"
    IN  /\ Busy("answer") /\ Op.k = "final"
        /\ IF v.st = "none"
           THEN UNCHANGED <<b, state, cursor, seen>> /\ Ends(FALSE)
           ELSE /\ b' = [b EXCEPT !.final = TRUE, !.view = v, !.repair = @ \/ repairs]
                /\ state' = IF v.st = "succeeded" \/ repairs THEN "reasoning" ELSE "failed"
                /\ Adopt(v)
                /\ Ends(TRUE)
        /\ UNCHANGED <<start, activation, closed, disposed, service, backend>>

\* Mutant: a completed turn is taken for a delivered run.
TurnOverTrusting ==
    /\ Handling("completed")
    /\ Close("idle", [b EXCEPT !.term = TRUE]) /\ Ends(TRUE)
    /\ UNCHANGED <<start, activation, disposed, cursor, seen, service, backend>>

\* Mutant: a turn without a decision is only noted.
TurnOverIdle ==
    /\ \E k \in {"failed", "cancelled", "completed"} : Handling(k)
    /\ b' = [b EXCEPT !.term = TRUE] /\ Ends(TRUE)
    /\ UNCHANGED <<start, state, activation, closed, disposed, cursor, seen, service, backend>>

\* turn_failed, turn_cancelled and turn_completed: what the turn leaves to do.
TurnOver ==
    \E k \in {"failed", "cancelled", "completed"} :
        LET r == [b EXCEPT !.term = TRUE]
            delivers == k = "completed" /\ b.final
        IN  /\ Handling(k)
            /\ \/ delivers /\ b.repair /\ Goes("repair") /\ b' = r /\ UNCHANGED <<closed, state>>
               \/ /\ delivers /\ ~b.repair /\ Over(b.view)
                  /\ Close(IF state = "failed" THEN "failed" ELSE "idle", r)
                  /\ Ends(TRUE)
               \/ /\ ~delivers \/ (~b.repair /\ ~Over(b.view))
                  /\ Goes("interrupt") /\ b' = r /\ UNCHANGED <<closed, state>>
            /\ UNCHANGED <<start, activation, disposed, cursor, seen, service, backend>>

\* Mutant: the audit run is not interrupted.
AuditForgotten(v) == UNCHANGED <<run, cursor, seen>>

\* #interruptAuditRun: a run known to be over needs no request.
AuditEnds(v) ==
    \/ Over(v) /\ UNCHANGED <<run, cursor, seen>>
    \/ ~Over(v) /\ InterruptRun(v.ver) /\ Adopt(run')
AuditFails(v) == ~Over(v) /\ NoInterrupt(v.ver) /\ UNCHANGED <<cursor, seen>>
Settled(v) == IF Over(v) THEN v ELSE run'

Interrupt ==
    /\ Busy("interrupt")
    /\ \/ AuditEnds(b.view) /\ Close("failed", [b EXCEPT !.view = Settled(b.view)]) /\ Ends(TRUE)
       \/ AuditFails(b.view) /\ state' = "failed" /\ UNCHANGED <<b, closed>> /\ Ends(FALSE)
    /\ UNCHANGED <<start, activation, disposed, service, outcome>>

\* Mutant: repairs go on for ever.
RepairedForgetful ==
    /\ Busy("repaired")
    /\ closed' = b.turn
    /\ b' = [b EXCEPT !.turn = @ + 1, !.term = FALSE]
    /\ state' = "reasoning"
    /\ Ends(TRUE)
    /\ UNCHANGED <<start, activation, disposed, cursor, seen, service, backend>>

\* #continueRepair: a further turn of the same thread, ended by the service
\* at once when nobody reads its events.
Repair ==
    /\ Busy("repair")
    /\ \/ turns' = [turns EXCEPT ![b.turn + 1] = IF live THEN "run" ELSE "abort"] /\ Goes("repaired")
       \/ Fails("local") /\ UNCHANGED turns /\ Goes("interrupt")
    /\ UNCHANGED <<bridge, cursor, seen, wire, live, tool, backend>>

Repaired ==
    /\ Busy("repaired")
    /\ closed' = b.turn
    /\ b' = [b EXCEPT !.turn = @ + 1, !.final = FALSE, !.term = FALSE, !.repair = FALSE]
    /\ state' = "reasoning"
    /\ Ends(TRUE)
    /\ UNCHANGED <<start, activation, disposed, cursor, seen, service, backend>>

----------------------------------------------------------------------------
(* Closing from outside *)

StopTurn == IF b.term THEN UNCHANGED turns ELSE CancelTurn(b.turn)
CloserAt(c, pc) == closer' = [closer EXCEPT ![c] = pc]

\* interrupt of the hook: the run first, for the version it shows, then the
\* view is queued and disconnect() called.
InterruptHook(c) ==
    /\ how[c] = "interrupt" /\ closer[c] = "idle" /\ seen > 0
    /\ \/ /\ InterruptRun(seen)
          /\ Adopt(run')
          /\ queue' = Append(queue, ViewItem(run', c))
          /\ CloserAt(c, "accept")
       \/ NoInterrupt(seen) /\ UNCHANGED <<cursor, seen, queue>> /\ CloserAt(c, "error")
    /\ UNCHANGED <<bridge, head, plan, refresh, service, outcome>>

\* disconnect() up to its second request; the hook offers it once start() is
\* over, and whoever disconnects for a broken stream asks hasActiveTurn first.
Disconnect(c) ==
    /\ how[c] # "dispose" /\ start \in {"done", "failed"}
    /\ closer[c] = IF how[c] = "disconnect" THEN "idle" ELSE "cancel"
    /\ \/ /\ ~b.on /\ Settle("rejected") /\ state' = "failed" /\ CloserAt(c, "done")
          /\ UNCHANGED <<b, turns>>
       \/ /\ b.on /\ StopTurn
          /\ b' = [b EXCEPT !.term = TRUE] /\ CloserAt(c, "audit")
          /\ UNCHANGED <<activation, state>>
       \/ /\ b.on /\ ~b.term /\ NoCancel(b.turn)
          /\ state' = "failed" /\ CloserAt(c, "error")
          /\ UNCHANGED <<b, activation>>
    /\ UNCHANGED <<start, closed, disposed, queue, head, plan, refresh, cursor, seen, wire, live, tool, backend>>

\* dispose() goes on whatever fails.
Dispose(c) ==
    /\ how[c] = "dispose" /\ closer[c] \in {"idle", "cancel"}
    /\ disposed' = TRUE
    /\ Settle("rejected")
    /\ \/ ~b.on /\ state' = "failed" /\ CloserAt(c, "done") /\ UNCHANGED <<b, turns>>
       \/ /\ b.on /\ StopTurn
          /\ b' = [b EXCEPT !.term = TRUE] /\ CloserAt(c, "audit") /\ UNCHANGED state
       \/ b.on /\ ~b.term /\ NoCancel(b.turn) /\ CloserAt(c, "auditlate") /\ UNCHANGED <<b, state>>
    /\ UNCHANGED <<start, closed, queue, head, plan, refresh, cursor, seen, wire, live, tool, backend>>

\* The second request of either, and what follows.
EndAudit(c) ==
    /\ closer[c] \in {"audit", "auditlate"}
    /\ \/ /\ AuditEnds(b.view)
          /\ Close("failed", [b EXCEPT !.view = Settled(b.view)])
          /\ CloserAt(c, IF closer[c] = "audit" THEN "done" ELSE "error")
          /\ Settle("rejected")
       \/ /\ AuditFails(b.view)
          /\ state' = "failed" /\ CloserAt(c, "error")
          /\ IF how[c] = "dispose" THEN b' = [b EXCEPT !.on = FALSE] /\ closed' = b.turn ELSE UNCHANGED <<b, closed>>
          /\ UNCHANGED activation
    /\ UNCHANGED <<start, disposed, queue, head, plan, refresh, service, outcome>>

----------------------------------------------------------------------------
(* The hook's refresh and approvals *)

\* An event of the audit run asks for a refresh, which reads the run and,
\* when the answer is there, hands it to the bridge.
RunEvent ==
    /\ seen > 0 /\ run.ver > cursor
    /\ cursor' = run.ver
    /\ refresh' = [refresh EXCEPT !.due = TRUE]
    /\ UNCHANGED <<bridge, queue, head, plan, closer, seen, service, backend>>

RefreshGet ==
    /\ refresh.pc = "idle" /\ refresh.due
    /\ refresh' = [pc |-> "got", due |-> FALSE, view |-> run]
    /\ UNCHANGED <<bridge, queue, head, plan, closer, cursor, seen, service, backend>>

RefreshGot ==
    /\ refresh.pc = "got"
    /\ Adopt(refresh.view)
    /\ IF b.on
       THEN /\ queue' = Append(queue, ViewItem(refresh.view, "hook"))
            /\ refresh' = [refresh EXCEPT !.pc = "queued", !.view = NoView]
       ELSE refresh' = [refresh EXCEPT !.pc = "idle", !.view = NoView] /\ UNCHANGED queue
    /\ UNCHANGED <<bridge, head, plan, closer, service, backend>>

\* decideApproval: the person's answer, and the view it returns to the bridge.
DecideApproval ==
    /\ run.st = "waiting_approval" /\ seen = run.ver
    /\ \/ /\ run' = [run EXCEPT !.st = "waiting_tool", !.ver = @ + 1]
          /\ UNCHANGED outcome
       \/ /\ run' = [Decided("running") EXCEPT !.res = run.tool]
          /\ outcome' = [outcome EXCEPT ![run.tool] = "bad"]
    /\ Adopt(run')
    /\ queue' = Append(queue, ViewItem(run', "stream"))
    /\ UNCHANGED <<bridge, head, plan, closer, refresh, service>>

----------------------------------------------------------------------------
(* The backend and the service on their own *)

\* An approved tool's worker ends.
ToolEnds ==
    /\ run.st = "waiting_tool"
    /\ \E good \in BOOLEAN :
         /\ run' = [Decided("running") EXCEPT !.res = run.tool, !.ok = good]
         /\ outcome' = [outcome EXCEPT ![run.tool] = IF good THEN "ok" ELSE "bad"]
    /\ UNCHANGED <<bridge, queue, head, hook, service>>

Tell(events) == wire' = IF live THEN wire \o events ELSE wire
Gone == [t \in Tools |-> IF tool[t] = "open" THEN "gone" ELSE tool[t]]

CallTool ==
    \E t \in plan.tools, n \in Turns :
        /\ turns[n] = "run" /\ tool[t] = "none" /\ live
        /\ tool' = [tool EXCEPT ![t] = "open"]
        /\ Tell(<<Event("tool", n, t)>>)
        /\ UNCHANGED <<bridge, queue, head, hook, turns, live, backend>>

\* A tool call nobody answers.
ToolTimeout ==
    \E t \in Tools :
        /\ Fails("timeout") /\ tool[t] = "open"
        /\ tool' = [tool EXCEPT ![t] = "gone"]
        /\ UNCHANGED <<bridge, queue, head, hook, turns, wire, live, backend>>

\* A turn ends with its decision, fails, or is aborted.
EndTurn ==
    \E n \in Turns :
        /\ \/ turns[n] = "run" /\ Gone = tool /\ Tell(<<Event("final", n, NoTool), Event("completed", n, NoTool)>>)
           \/ turns[n] = "run" /\ Fails("codex") /\ Tell(<<Event("failed", n, NoTool)>>)
           \/ turns[n] = "abort" /\ Tell(<<Event("cancelled", n, NoTool)>>)
        /\ turns' = [turns EXCEPT ![n] = "end"]
        /\ tool' = Gone
        /\ UNCHANGED <<bridge, queue, head, hook, live, backend>>

\* The event stream breaks; the service aborts what runs unseen.
LoseStream ==
    /\ Fails("stream") /\ live
    /\ live' = FALSE
    /\ wire' = <<>>
    /\ turns' = [n \in Turns |-> IF turns[n] = "run" THEN "abort" ELSE turns[n]]
    /\ tool' = Gone
    /\ UNCHANGED <<bridge, queue, head, hook, backend>>

----------------------------------------------------------------------------
Start == StartLocal \/ StartAudit \/ StartUndo \/ StartDone
Operation ==
    \/ Drop \/ ToolCall \/ Submit \/ ToolAnswer \/ AcceptView \/ Deliver \/ Final \/ FinalAnswer
    \/ TurnOver \/ Interrupt \/ Repair \/ Repaired
Hook == RunEvent \/ RefreshGet \/ RefreshGot
Service == CallTool \/ ToolTimeout \/ LoseStream

Next ==
    \/ Start \/ Read \/ Operation
    \/ \E c \in Closers : InterruptHook(c) \/ Disconnect(c) \/ Dispose(c) \/ EndAudit(c)
    \/ Hook \/ DecideApproval \/ ToolEnds \/ Service \/ EndTurn

Spec == Init /\ [][Next]_vars

----------------------------------------------------------------------------
(* Properties *)

\* What Codex is told succeeded, the backend carried out: deliverResult is
\* reached only with the result of the tool that is pending, whatever other
\* views arrive in between (acceptRuntimeView, lastToolResult.toolCallId).
ToldIsBackends == \A t \in Tools : tool[t] = "ok" => outcome[t] = "ok"

\* A bridge that went idle after its run left nothing behind: the audit run is
\* over and no Codex turn works on (turn_completed with a terminal view).
QuietEnd == start = "done" /\ state = "idle" => Over(run) /\ \A n \in Turns : turns[n] # "run"

\* A bridge that gave up its run, and reported no failure in doing so, ended
\* the audit run and the turn it was started with (disconnect, dispose and
\* the terminal events, with #interruptAuditRun before #active is cleared).
ClosedEndsRun ==
    start = "done" /\ ~b.on /\ (\A c \in Closers : closer[c] # "error") => Over(run) /\ turns[1] # "run"

\* Nobody having stopped the run, the bridge does not go on waiting for a turn
\* that is over: each of its ends was taken up (turn_completed, handleToolCall).
\* With faults a failure shown to the user may leave the run for a later stop.
NotLeftWaiting ==
    /\ start = "done" /\ plan.faults = {} /\ \A c \in Closers : closer[c] = "idle"
    /\ queue = <<>> /\ wire = <<>> /\ \A n \in Turns : turns[n] \in {"none", "end"}
    => ~b.on \/ state = "failed"

\* A tool that waits for approval is not reported to Codex as failed
\* (acceptRuntimeView and the refreshes of the hook), no request having failed.
PendingUntilResolved ==
    plan.faults = {} /\ run.st = "waiting_approval" => tool[run.tool] # "failed"
=============================================================================
