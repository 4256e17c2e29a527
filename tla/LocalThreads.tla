---------------------------- MODULE LocalThreads ----------------------------
(***************************************************************************)
(* The loopback service canvas-agent: HTTP calls that start, resume and    *)
(* archive Codex threads, the turns they begin, the thread file, the       *)
(* attachment directories and the one browser event stream.                *)
(*                                                                         *)
(* Node runs one callback at a time, so a step is what happens between two *)
(* awaits.  A call begins at most one turn and a start creates one thread; *)
(* turn and thread carry the name of that call.  Operations on the thread  *)
(* file run one after the other in the order they were issued.             *)
(***************************************************************************)
EXTENDS Naturals, Sequences, FiniteSets

CONSTANTS
    Calls,      \* HTTP calls of the browser
    Plans,      \* what the calls of a behaviour ask for, under which requestId,
                \* what may fail, and whether they come one at a time
    Tools,      \* MCP tool calls of Codex
    MaxConn,    \* bound: event streams opened
    MaxEvents,  \* bound: progress events of a turn
    MaxCrash    \* bound: restarts of the service

Ops == {"start", "resume", "repair", "archive"}
FaultKinds == {"ingest", "workspace", "store", "client", "run", "cleanup", "codex", "stream", "crash"}
ASSUME LocalAssumption ==
    /\ Plans \subseteq [asks : [Calls -> [op : Ops, id : Calls]],
                        faults : SUBSET FaultKinds, serial : BOOLEAN]
    /\ MaxConn \in Nat /\ MaxEvents \in Nat /\ MaxCrash \in Nat

VARIABLES
    plan,     \* the calls of this behaviour and what may go wrong in it
    call,     \* the handler of each HTTP call; met: the turns of its thread that
              \* were active when it came (a history the properties read)
    turn,     \* the generator and consumer of each turn
    disk,     \* threads.json
    queue,    \* operations issued to the thread file, by call or turn
    active,   \* #activeTurns
    ledger,   \* calls whose answer is kept under their requestId
    dirs,     \* attachment directories, by the call that made them
    conn,     \* the open event stream, 0 when there is none
    opened,   \* event streams opened so far
    told,     \* the terminal event the browser was sent for each turn
    stuck,    \* threads a failed write or client left behind
    lost,     \* directories whose removal failed or was never reached
    crashes   \* restarts so far

vars == <<plan, call, turn, disk, queue, active, ledger, dirs, conn, opened, told,
          stuck, lost, crashes>>
files == <<dirs, lost>>
stream == <<conn, opened>>

----------------------------------------------------------------------------
(* State *)

Op == [c \in Calls |-> plan.asks[c].op]
RequestId == [c \in Calls |-> plan.asks[c].id]
\* Requests come one at a time; nothing in the service sees to it.
Serial == plan.serial
Threads == {c \in Calls : Op[c] = "start"}

TurnStatus == {"none", "running", "completed", "failed", "cancelled"}
Record == [exists : BOOLEAN, sdk : BOOLEAN, archived : BOOLEAN,
           turns : [Calls -> TurnStatus]]
NoRecord == [exists |-> FALSE, sdk |-> FALSE, archived |-> FALSE,
             turns |-> [c \in Calls |-> "none"]]

CallPC == {"idle", "replay", "ingest", "get", "validate", "create", "save",
           "stream", "failget", "failsave", "archget", "archsave", "ok", "error"}
CallState == [pc : CallPC, th : Calls, rec : Record, met : SUBSET Calls]

Events == {"progress", "decision", "completed", "failed", "cancelled"}
TurnPC == {"none", "read", "sdkget", "sdksave", "emit", "finget", "finsave",
           "close", "done"}
TurnState == [pc : TurnPC, last : Events, conn : 0..MaxConn, tools : SUBSET Tools,
              decided : BOOLEAN, aborted : BOOLEAN, returning : BOOLEAN,
              finalized : BOOLEAN, fresh : BOOLEAN, n : 0..MaxEvents, rec : Record]
NoTurn == [pc |-> "none", last |-> "progress", conn |-> 0, tools |-> {},
           decided |-> FALSE, aborted |-> FALSE, returning |-> FALSE,
           finalized |-> FALSE, fresh |-> TRUE, n |-> 0, rec |-> NoRecord]

TypeOK ==
    /\ plan \in Plans
    /\ call \in [Calls -> CallState]
    /\ turn \in [Calls -> TurnState]
    /\ disk \in [Threads -> Record]
    /\ queue \in Seq(Calls)
    /\ active \subseteq Calls
    /\ ledger \subseteq Calls
    /\ dirs \subseteq Calls
    /\ conn \in 0..MaxConn
    /\ opened \in 0..MaxConn
    /\ told \in [Calls -> TurnStatus]
    /\ stuck \subseteq Threads
    /\ lost \subseteq Calls
    /\ crashes \in 0..MaxCrash

Init ==
    /\ plan \in Plans
    /\ call = [c \in Calls |-> [pc |-> "idle", th |-> c, rec |-> NoRecord, met |-> {}]]
    /\ turn = [c \in Calls |-> NoTurn]
    /\ disk = [th \in Threads |-> NoRecord]
    /\ queue = <<>>
    /\ active = {}
    /\ ledger = {}
    /\ dirs = {}
    /\ conn = 0
    /\ opened = 0
    /\ told = [c \in Calls |-> "none"]
    /\ stuck = {}
    /\ lost = {}
    /\ crashes = 0

----------------------------------------------------------------------------
(* Helpers *)

\* A call that asks for an ephemeral continuation of a thread.
Ephemeral(c) == Op[c] = "repair"

\* The call has its answer.
Settled(c) == call[c].pc \in {"idle", "ok", "error"}

\* #serialize: an operation runs when those issued before it are done.
Issued(c) == Append(queue, c)
AtStore(c) == queue # <<>> /\ Head(queue) = c
Fails(f) == f \in plan.faults

\* Mutation of Cleanup: a rejected call forgets its directory.
CleanupForgotten(c) == IF turn[c].pc = "none" THEN UNCHANGED files ELSE dirs' = dirs \ {c} /\ UNCHANGED lost

\* AttachmentManager.cleanup.
Cleanup(c) == \/ dirs' = dirs \ {c} /\ UNCHANGED lost
              \/ Fails("cleanup") /\ c \in dirs /\ lost' = lost \cup {c} /\ UNCHANGED dirs

\* The handler goes on at pc, or answers with an error and removes the
\* attachments it had downloaded.
Goto(c, pc) ==
    call' = [call EXCEPT ![c].pc = pc,
                         ![c].rec = IF pc \in {"stream", "ok", "error"} THEN NoRecord ELSE @]
Reject(c) == Goto(c, "error") /\ Cleanup(c)

\* Mutation of Busy: only the record is looked at.
BusyOnDisk(rec, th) == \E t \in Calls : rec.turns[t] = "running"

\* A thread that is already busy, judged by the record that was read.
Busy(rec, th) == \/ \E t \in Calls : rec.turns[t] = "running"
                 \/ \E t \in active : call[t].th = th

----------------------------------------------------------------------------
(* HTTP calls *)

\* The browser knows the threads that listThreads shows it.
Known(th) == disk[th].exists

\* startIdempotent and the first synchronous part of startExecution.
Request(c, th) ==
    /\ call[c].pc = "idle" /\ Op[c] # "archive"
    /\ Op[c] = "start" => th = c
    /\ Op[c] # "start" => th \in Threads /\ Known(th)
    /\ ~ \E d \in ledger : RequestId[d] = RequestId[c]
    /\ Serial => \A d \in Calls : Settled(d)
    /\ ledger' = ledger \cup {c}
    /\ call' = [call EXCEPT ![c].th = th,
                            ![c].pc = IF conn = 0 THEN "error" ELSE "ingest",
                            ![c].met = {t \in active : call[t].th = th}]
    /\ UNCHANGED <<turn, disk, queue, active, files, stream, told, stuck, plan, crashes>>

\* A repeated requestId joins the first call, or conflicts with it.
Replay(c) ==
    /\ call[c].pc = "idle" /\ Op[c] # "archive"
    /\ \E d \in ledger :
          /\ RequestId[d] = RequestId[c]
          /\ call' = [call EXCEPT ![c].th = call[d].th,
                                  ![c].pc = IF Op[d] = Op[c] THEN "replay" ELSE "error"]
    /\ UNCHANGED <<turn, disk, queue, active, ledger, files, stream, told, stuck, plan, crashes>>

Replayed(c) ==
    /\ call[c].pc = "replay"
    /\ \E d \in ledger : /\ RequestId[d] = RequestId[c]
                         /\ call[d].pc \in {"ok", "error"}
                         /\ Goto(c, call[d].pc)
    /\ UNCHANGED <<turn, disk, queue, active, ledger, files, stream, told, stuck, plan, crashes>>

\* AttachmentManager.ingest: a directory with every attachment, or none.
Ingest(c) ==
    /\ call[c].pc = "ingest"
    /\ \/ /\ dirs' = dirs \cup {c} /\ UNCHANGED lost
          /\ IF Op[c] = "start"
             THEN Goto(c, "validate") /\ UNCHANGED queue
             ELSE Goto(c, "get") /\ queue' = Issued(c)
       \/ /\ Fails("ingest")
          /\ Goto(c, "error")
          /\ UNCHANGED <<files, queue>>
    /\ UNCHANGED <<turn, disk, active, ledger, stream, told, stuck, plan, crashes>>

\* #requireOwnedThread and the checks of resumeTurn.
GetThread(c) ==
    /\ call[c].pc = "get" /\ AtStore(c)
    /\ queue' = Tail(queue)
    /\ LET rec == disk[call[c].th]
       IN  \/ /\ rec.exists /\ ~rec.archived /\ rec.sdk
              /\ call' = [call EXCEPT ![c].pc = "validate", ![c].rec = rec]
              /\ UNCHANGED files
           \/ /\ ~rec.exists \/ rec.archived \/ ~rec.sdk \/ Fails("store")
              /\ Reject(c)
    /\ UNCHANGED <<turn, disk, active, ledger, stream, told, stuck, plan, crashes>>

\* The record of a turn that begins.
Started(rec, c) == [rec EXCEPT !.turns[c] = "running"]

\* #beginTurn once the record is written: the turn is active, then its
\* client is made; nothing takes the turn back when that throws.
Launch(c) ==
    /\ active' = active \cup {c}
    /\ \/ Goto(c, "stream") /\ UNCHANGED <<files, stuck>>
       \/ /\ Fails("client")
          /\ Reject(c)
          /\ stuck' = stuck \cup {call[c].th}

\* Workspace and attachments are checked on the file system: a start then
\* creates its thread, a resume or repair begins its turn.
Validate(c) ==
    /\ call[c].pc = "validate"
    /\ LET rec == call[c].rec
           busy == Busy(rec, call[c].th)
       IN  \/ Fails("workspace") /\ Reject(c) /\ UNCHANGED <<queue, active, stuck>>
           \/ /\ Op[c] = "start"
              /\ Goto(c, "create") /\ queue' = Issued(c)
              /\ UNCHANGED <<files, active, stuck>>
           \/ Op[c] # "start" /\ busy /\ Reject(c) /\ UNCHANGED <<queue, active, stuck>>
           \/ /\ Op[c] = "resume" /\ ~busy
              /\ Goto(c, "save") /\ queue' = Issued(c)
              /\ UNCHANGED <<files, active, stuck>>
           \/ Ephemeral(c) /\ ~busy /\ Launch(c) /\ UNCHANGED queue
    /\ UNCHANGED <<turn, disk, ledger, stream, told, plan, crashes>>

CreateThread(c) ==
    /\ call[c].pc = "create" /\ AtStore(c)
    /\ LET rec == [NoRecord EXCEPT !.exists = TRUE]
       IN  \/ /\ disk' = [disk EXCEPT ![c] = rec]
              /\ call' = [call EXCEPT ![c].pc = "save", ![c].rec = rec]
              /\ queue' = Append(Tail(queue), c)
              /\ UNCHANGED files
           \/ /\ Fails("store") /\ Reject(c)
              /\ queue' = Tail(queue) /\ UNCHANGED disk
    /\ UNCHANGED <<turn, active, ledger, stream, told, stuck, plan, crashes>>

SaveTurn(c) ==
    /\ call[c].pc = "save" /\ AtStore(c)
    /\ queue' = Tail(queue)
    /\ \/ /\ disk' = [disk EXCEPT ![call[c].th] = Started(call[c].rec, c)]
          /\ Launch(c)
       \/ /\ Fails("store") /\ Reject(c)
          /\ UNCHANGED <<disk, active, stuck>>
    /\ UNCHANGED <<turn, ledger, stream, told, plan, crashes>>

\* runStreamed answers: the consumer takes over, or the turn is taken back.
Streamed(c) ==
    /\ call[c].pc = "stream"
    /\ \/ /\ Goto(c, "ok")
          /\ turn' = [turn EXCEPT ![c].pc = "read"]
          /\ UNCHANGED <<active, queue, files>>
       \/ /\ Fails("run")
          /\ active' = active \ {c}
          /\ IF Ephemeral(c)
             THEN Reject(c) /\ UNCHANGED queue
             ELSE Goto(c, "failget") /\ queue' = Issued(c) /\ UNCHANGED files
          /\ UNCHANGED turn
    /\ UNCHANGED <<disk, ledger, stream, told, stuck, plan, crashes>>

\* #finishTurn changes the status of the turn if the record it read has it.
Finished(rec, t, status) ==
    IF rec.turns[t] = "none" THEN rec ELSE [rec EXCEPT !.turns[t] = status]

FailedGet(c) ==
    /\ call[c].pc = "failget" /\ AtStore(c)
    /\ call' = [call EXCEPT ![c].pc = "failsave", ![c].rec = disk[call[c].th]]
    /\ queue' = Append(Tail(queue), c)
    /\ UNCHANGED <<turn, disk, active, ledger, files, stream, told, stuck, plan, crashes>>

FailedSave(c) ==
    /\ call[c].pc = "failsave" /\ AtStore(c)
    /\ queue' = Tail(queue)
    /\ Reject(c)
    /\ \/ /\ disk' = [disk EXCEPT ![call[c].th] = Finished(call[c].rec, c, "failed")]
          /\ UNCHANGED stuck
       \/ Fails("store") /\ stuck' = stuck \cup {call[c].th} /\ UNCHANGED disk
    /\ UNCHANGED <<turn, active, ledger, stream, told, plan, crashes>>

\* archiveThread: read, refuse while a turn is active, write what was read.
Archive(c, th) ==
    /\ call[c].pc = "idle" /\ Op[c] = "archive" /\ th \in Threads /\ Known(th)
    /\ Serial => \A d \in Calls : Settled(d)
    /\ call' = [call EXCEPT ![c].pc = "archget", ![c].th = th]
    /\ queue' = Issued(c)
    /\ UNCHANGED <<turn, disk, active, ledger, files, stream, told, stuck, plan, crashes>>

ArchiveGet(c) ==
    /\ call[c].pc = "archget" /\ AtStore(c)
    /\ LET rec == disk[call[c].th]
       IN  \/ /\ \E t \in active : call[t].th = call[c].th
              /\ Goto(c, "error") /\ queue' = Tail(queue)
           \/ /\ \A t \in active : call[t].th # call[c].th
              /\ rec.archived
              /\ Goto(c, "ok") /\ queue' = Tail(queue)
           \/ /\ \A t \in active : call[t].th # call[c].th
              /\ ~rec.archived
              /\ call' = [call EXCEPT ![c].pc = "archsave", ![c].rec = rec]
              /\ queue' = Append(Tail(queue), c)
    /\ UNCHANGED <<turn, disk, active, ledger, files, stream, told, stuck, plan, crashes>>

ArchiveSave(c) ==
    /\ call[c].pc = "archsave" /\ AtStore(c)
    /\ queue' = Tail(queue)
    /\ \/ /\ disk' = [disk EXCEPT ![call[c].th] = [call[c].rec EXCEPT !.archived = TRUE]]
          /\ Goto(c, "ok")
       \/ Fails("store") /\ Goto(c, "error") /\ UNCHANGED disk
    /\ UNCHANGED <<turn, active, ledger, files, stream, told, stuck, plan, crashes>>

----------------------------------------------------------------------------
(* Turns: the generator of #consumeEvents and its consumer *)

At(t, pc) == turn[t].pc = pc
Become(t, s) == turn' = [turn EXCEPT ![t] = s]

\* #finalizeConsumedTurn up to its first await, and the end of a turn that
\* needs none.  q is the queue of the thread file as this step leaves it.
Finalize(t, s, q) ==
    /\ active' = active \ {t}
    /\ IF Ephemeral(t)
       THEN Become(t, [NoTurn EXCEPT !.pc = "close"]) /\ queue' = q
       ELSE /\ Become(t, [s EXCEPT !.pc = "finget", !.tools = {}, !.decided = FALSE, !.n = 0,
                                 !.conn = 0, !.rec = NoRecord])
            /\ queue' = Append(q, t)

\* The generator runs its finally block and ends.
Return(t, s, q) ==
    IF s.finalized
    THEN Become(t, [NoTurn EXCEPT !.pc = "close"]) /\ queue' = q /\ UNCHANGED active
    ELSE Finalize(t, [s EXCEPT !.returning = TRUE], q)

\* The consumer emits what the generator yields.  Without a stream emit
\* throws, and for-await makes the generator return.
Yield(t, s, e, q) ==
    LET y == [s EXCEPT !.last = e]
    IN  IF conn = 0
        THEN Return(t, y, q) /\ UNCHANGED told
        ELSE /\ Become(t, [y EXCEPT !.pc = "emit", !.conn = conn, !.rec = NoRecord])
             /\ told' = [told EXCEPT ![t] = IF e \in TurnStatus THEN e ELSE @]
             /\ queue' = q /\ UNCHANGED active

\* The catch block.
Throw(t, s, q) == Yield(t, s, IF s.aborted THEN "cancelled" ELSE "failed", q)

\* An event of Codex that tells progress: a tool call begins, ends, or a
\* message is complete, which holds the decision unless a tool is at work.
Progress(t) ==
    /\ At(t, "read") /\ turn[t].n < MaxEvents
    /\ LET s == [turn[t] EXCEPT !.n = @ + 1]
       IN  \/ \E m \in Tools \ s.tools :
                Yield(t, [s EXCEPT !.tools = @ \cup {m}, !.decided = FALSE], "progress", queue)
           \/ \E m \in s.tools : Yield(t, [s EXCEPT !.tools = @ \ {m}], "progress", queue)
           \/ Yield(t, [s EXCEPT !.decided = @ \/ s.tools = {}], "progress", queue)
    /\ UNCHANGED <<call, disk, ledger, files, stream, stuck, plan, crashes>>

\* thread.started: the SDK's thread id is written to the record once.
ThreadStarted(t) ==
    /\ At(t, "read") /\ turn[t].fresh
    /\ Become(t, [turn[t] EXCEPT !.pc = "sdkget", !.fresh = FALSE])
    /\ queue' = Issued(t)
    /\ UNCHANGED <<call, disk, active, ledger, files, stream, told, stuck, plan, crashes>>

SdkGet(t) ==
    /\ At(t, "sdkget") /\ AtStore(t)
    /\ LET rec == disk[call[t].th]
       IN  IF rec.sdk
           THEN Yield(t, turn[t], "progress", Tail(queue))
           ELSE /\ Become(t, [turn[t] EXCEPT !.pc = "sdksave", !.rec = rec])
                /\ queue' = Append(Tail(queue), t) /\ UNCHANGED <<active, told>>
    /\ UNCHANGED <<call, disk, ledger, files, stream, stuck, plan, crashes>>

SdkSave(t) ==
    /\ At(t, "sdksave") /\ AtStore(t)
    /\ \/ /\ disk' = [disk EXCEPT ![call[t].th] = [turn[t].rec EXCEPT !.sdk = TRUE]]
          /\ Yield(t, turn[t], "progress", Tail(queue))
       \/ Fails("store") /\ Throw(t, turn[t], Tail(queue)) /\ UNCHANGED disk
    /\ UNCHANGED <<call, ledger, files, stream, stuck, plan, crashes>>

\* turn.completed: the decision is yielded, unless a tool is at work or
\* there is none.
Completed(t) ==
    /\ At(t, "read")
    /\ IF turn[t].tools = {} /\ turn[t].decided
       THEN Yield(t, turn[t], "decision", queue)
       ELSE Throw(t, turn[t], queue)
    /\ UNCHANGED <<call, disk, ledger, files, stream, stuck, plan, crashes>>

\* turn.failed, the end of the event stream, or an exception from it; an
\* aborted turn gets the exception.
Broken(t) ==
    /\ At(t, "read")
    /\ \/ turn[t].aborted /\ Throw(t, turn[t], queue)
       \/ Fails("codex") /\ Yield(t, turn[t], "failed", queue)
       \/ Fails("codex") /\ Throw(t, turn[t], queue)
    /\ UNCHANGED <<call, disk, ledger, files, stream, stuck, plan, crashes>>

\* The event has been written.  A closed stream makes emit throw; else the
\* generator goes on.
Emitted(t) ==
    /\ At(t, "emit")
    /\ LET s == turn[t]
       IN  \/ /\ conn # s.conn \/ s.last \in {"completed", "failed", "cancelled"}
              /\ Return(t, s, queue) /\ UNCHANGED told
           \/ /\ conn = s.conn /\ s.last = "progress"
              /\ Become(t, [s EXCEPT !.pc = "read"]) /\ UNCHANGED <<active, queue, told>>
           \/ /\ conn = s.conn /\ s.last = "decision" /\ Ephemeral(t)
              /\ active' = active \ {t}
              /\ told' = [told EXCEPT ![t] = "completed"]
              /\ Become(t, [s EXCEPT !.last = "completed", !.finalized = TRUE]) /\ UNCHANGED queue
           \/ /\ conn = s.conn /\ s.last = "decision" /\ ~Ephemeral(t)
              /\ Finalize(t, [s EXCEPT !.last = "completed"], queue) /\ UNCHANGED told
    /\ UNCHANGED <<call, disk, ledger, files, stream, stuck, plan, crashes>>

\* #finishTurn reads the record, then writes what it read back.
FinishGet(t) ==
    /\ At(t, "finget") /\ AtStore(t)
    /\ Become(t, [turn[t] EXCEPT !.pc = "finsave", !.rec = disk[call[t].th]])
    /\ queue' = Append(Tail(queue), t)
    /\ UNCHANGED <<call, disk, active, ledger, files, stream, told, stuck, plan, crashes>>

\* Mutations of Status: an abort outweighs the last event; the event itself
\* is taken for a status.
StatusOfAbort(t) == IF turn[t].aborted THEN "cancelled" ELSE turn[t].last
StatusRaw(t) == turn[t].last

\* The status #finalizeConsumedTurn derives from the last event.
Status(t) == IF turn[t].last \in {"completed", "cancelled"} THEN turn[t].last ELSE "failed"

FinishSave(t) ==
    /\ At(t, "finsave") /\ AtStore(t)
    /\ LET s == turn[t]
           q == Tail(queue)
       IN  \/ /\ disk' = [disk EXCEPT ![call[t].th] = Finished(s.rec, t, Status(t))]
              /\ UNCHANGED stuck
              /\ IF s.returning
                 THEN Return(t, [s EXCEPT !.finalized = TRUE], q) /\ UNCHANGED told
                 ELSE Yield(t, [s EXCEPT !.finalized = TRUE], "completed", q)
           \/ /\ Fails("store") /\ UNCHANGED disk
              /\ IF s.returning
                 THEN /\ Return(t, [s EXCEPT !.finalized = TRUE], q)
                      /\ stuck' = stuck \cup {call[t].th} /\ UNCHANGED told
                 ELSE Throw(t, s, q) /\ UNCHANGED stuck
    /\ UNCHANGED <<call, ledger, files, stream, plan, crashes>>

\* consumeExecution's finally block.
Close(t) ==
    /\ At(t, "close")
    /\ Become(t, [NoTurn EXCEPT !.pc = "done"])
    /\ Cleanup(t)
    /\ UNCHANGED <<call, disk, queue, active, ledger, stream, told, stuck, plan, crashes>>

----------------------------------------------------------------------------
(* Streams, cancellation and restart *)

Connect ==
    /\ conn = 0 /\ opened < MaxConn
    /\ opened' = opened + 1
    /\ conn' = opened'
    /\ UNCHANGED <<call, turn, disk, queue, active, ledger, files, told, stuck, plan, crashes>>

\* cancelTurn aborts an active turn.
Aborting(S) == turn' = [t \in Calls |-> [turn[t] EXCEPT !.aborted = @ \/ t \in S \cap active]]

\* Mutation of Consumed: only turns whose event is being written.
ConsumedEmitting == {t \in Calls : At(t, "emit")}

\* Turns the consumer has and has not let go of: activeTurnIds.
Consumed == {t \in Calls : turn[t].pc \notin {"none", "close", "done"}}

Disconnect ==
    /\ Fails("stream") /\ conn # 0
    /\ conn' = 0
    /\ Aborting(Consumed)
    /\ UNCHANGED <<call, disk, queue, active, ledger, files, opened, told, stuck, plan, crashes>>

\* The browser names a turn it was told of.
Cancel(t) ==
    /\ call[t].pc = "ok" /\ t \in active /\ ~turn[t].aborted
    /\ Aborting({t})
    /\ UNCHANGED <<call, disk, queue, active, ledger, files, stream, told, stuck, plan, crashes>>

\* Mutation of Recovered: the file is left as it was found.
RecoveredNot(rec) == rec

\* recoverRecord.
Recovered(rec) ==
    [rec EXCEPT !.turns = [t \in Calls |-> IF @[t] = "running" THEN "failed" ELSE @[t]]]

\* The process dies and starts again: memory is gone, the file is recovered
\* before the first request, directories stay behind.
Restart ==
    /\ Fails("crash") /\ crashes < MaxCrash
    /\ crashes' = crashes + 1
    /\ call' = [c \in Calls |-> IF Settled(c) THEN call[c]
                                ELSE [call[c] EXCEPT !.pc = "error", !.rec = NoRecord]]
    /\ turn' = [t \in Calls |-> [NoTurn EXCEPT !.pc = IF turn[t].pc = "none" THEN "none" ELSE "done"]]
    /\ disk' = [th \in Threads |-> Recovered(disk[th])]
    /\ queue' = <<>>
    /\ active' = {} /\ ledger' = {} /\ stuck' = {}
    /\ lost' = dirs
    /\ conn' = 0
    /\ UNCHANGED <<plan, dirs, opened, told>>

----------------------------------------------------------------------------
(* Specification *)

CallStep(c) ==
    \/ Ingest(c) \/ GetThread(c) \/ Validate(c) \/ CreateThread(c) \/ SaveTurn(c)
    \/ Streamed(c) \/ FailedGet(c) \/ FailedSave(c) \/ Replayed(c)
    \/ ArchiveGet(c) \/ ArchiveSave(c)

\* What the service and its disk do of themselves; Codex need not speak.
TurnStep(t) ==
    \/ SdkGet(t) \/ SdkSave(t) \/ Broken(t) \/ Emitted(t)
    \/ FinishGet(t) \/ FinishSave(t) \/ Close(t)

Next ==
    \/ \E c \in Calls : CallStep(c) \/ TurnStep(c)
    \/ \E c \in Calls, th \in Threads : Request(c, th) \/ Archive(c, th)
    \/ \E c \in Calls : Replay(c)
    \/ \E t \in Calls : ThreadStarted(t) \/ Progress(t) \/ Completed(t) \/ Cancel(t)
    \/ Connect \/ Disconnect \/ Restart

Spec == Init /\ [][Next]_vars

----------------------------------------------------------------------------
(* Properties *)

\* A thread has one turn at a time, which is what beginTurn's refusal says.
\* The check and the entry in #activeTurns have an awaited save between them,
\* so two requests that overlap may both pass it.
OneActiveTurn ==
    \A t, u \in active : call[t].th = call[u].th => t = u

\* A request that came while a turn of its thread was active gets no turn
\* beside that one: over the awaits from the request to the check, and from
\* the check to #activeTurns, the turn it met either ends or has it refused.
NoTurnBeside ==
    \A t, u \in active : (t # u /\ call[t].th = call[u].th) => u \notin call[t].met

\* The browser hears turn_completed only once the thread file says so, and
\* nothing takes it back; archiving may write an older record over it, and
\* so may a request that overlaps another.
RecordedUnlessArchived ==
    Serial => \A t \in Calls :
        (told[t] = "completed" /\ ~Ephemeral(t) /\ ~disk[call[t].th].archived)
            => disk[call[t].th].turns[t] = "completed"

\* A downloaded directory belongs to a call or a turn that will remove it,
\* whatever failed on the way, unless the removal failed or never came.
AttachmentsReleased ==
    \A c \in dirs \ lost : ~Settled(c) \/ turn[c].pc \notin {"none", "done"}

\* A turn that the file calls running is being run, so a thread is never
\* refused for a turn that is over; failed writes, archiving and requests
\* that overlap aside.
NoRunningOrphan ==
    Serial => \A th \in Threads, t \in Calls :
        (disk[th].turns[t] = "running" /\ th \notin stuck /\ ~disk[th].archived)
            => ~Settled(t) \/ turn[t].pc \notin {"none", "close", "done"}

\* A turn nobody listens to is aborted, or stops at the first thing Codex
\* says: a stream that closes, reopens or closes while runStreamed is
\* awaited leaves no turn running unseen.
NoUnseenTurn ==
    conn = 0 => \A t \in Calls :
        At(t, "read") => turn[t].aborted \/ (turn[t].fresh /\ turn[t].n = 0)
=============================================================================
