------------------------- MODULE LocalThreadsProofs -------------------------
(***************************************************************************)
(* What the service keeps of its threads, turns and attachments, for every *)
(* set of calls, every plan and every choice of what may fail.             *)
(*                                                                         *)
(* The first lemmas say how a step moves a call (CallMove), a turn         *)
(* (TurnMove) and the set of active turns (ActiveMove).  The invariants    *)
(* built on them: TypeInv and OpsInv, the types and which handler fits     *)
(* which call; BornInv, UseInv and OneCaller, who may name a thread and    *)
(* write its record; MetInv and PassedInv, whom a request met before its   *)
(* turn; HeardInv, that a turn which listens is active; FilesInv, whose    *)
(* directory it is; FileInv, that every record of a thread, in the file or *)
(* in the hands of one who will write it back, has the ends that were told *)
(* and calls running only who runs.                                        *)
(***************************************************************************)
EXTENDS LocalThreads, TLAPS

----------------------------------------------------------------------------
(* Types *)

Holding == {"ingest", "get", "validate", "create", "save", "stream", "failget", "failsave", "archget", "archsave"}
OverPC == {"none", "close", "done"}

\* The calls and turns that will write a record have a thread, a turn begins
\* when its call is answered.
CallsMeant == \A c \in Calls : call[c].pc \in Holding => call[c].th \in Threads
TurnsMeant ==
    \A t \in Calls : /\ turn[t].pc # "none" => call[t].pc = "ok"
                     /\ turn[t].pc \notin OverPC => call[t].th \in Threads
                     /\ turn[t].pc = "none" => turn[t] = NoTurn
ActiveMeant == \A t \in active : call[t].pc \in {"stream", "error"} \/ (call[t].pc = "ok" /\ turn[t].pc # "none")
TypeInv == TypeOK /\ CallsMeant /\ TurnsMeant /\ ActiveMeant

LEMMA RecordsTyped ==
    /\ NoRecord \in Record
    /\ NoTurn \in TurnState
    /\ \A rec \in Record : /\ [rec EXCEPT !.exists = TRUE] \in Record
                           /\ [rec EXCEPT !.sdk = TRUE] \in Record
                           /\ [rec EXCEPT !.archived = TRUE] \in Record
                           /\ Recovered(rec) \in Record
    /\ \A rec \in Record, c \in Calls : \A status \in TurnStatus : [rec EXCEPT !.turns[c] = status] \in Record
<1>1. NoRecord \in Record
    BY DEF NoRecord, Record, TurnStatus
<1>2. NoTurn \in TurnState
    BY <1>1, LocalAssumption DEF NoTurn, TurnState, TurnPC, Events
<1>3. ASSUME NEW rec \in Record
      PROVE  /\ [rec EXCEPT !.exists = TRUE] \in Record
             /\ [rec EXCEPT !.sdk = TRUE] \in Record
             /\ [rec EXCEPT !.archived = TRUE] \in Record
             /\ Recovered(rec) \in Record
    BY DEF Record, Recovered, TurnStatus
<1>4. ASSUME NEW rec \in Record, NEW c \in Calls, NEW status \in TurnStatus
      PROVE  [rec EXCEPT !.turns[c] = status] \in Record
    BY DEF Record
<1> QED BY <1>1, <1>2, <1>3, <1>4

LEMMA CallTyped ==
    ASSUME TypeInv, NEW c \in Calls
    PROVE  /\ call \in [Calls -> CallState] /\ call[c] \in CallState /\ call[c].th \in Calls /\ call[c].rec \in Record
           /\ call[c].pc \in CallPC
           /\ turn \in [Calls -> TurnState] /\ turn[c] \in TurnState /\ turn[c].rec \in Record
BY DEF TypeInv, TypeOK, CallState, TurnState

LEMMA ThreadTyped ==
    ASSUME TypeInv, NEW c \in Calls, call[c].pc \in Holding \/ turn[c].pc \notin OverPC
    PROVE  call[c].th \in Threads /\ disk[call[c].th] \in Record
BY DEF TypeInv, TypeOK, CallsMeant, TurnsMeant

\* What a handler that goes on changes of the calls.
Moves(c, pc) ==
    /\ call' \in [Calls -> CallState]
    /\ \A d \in Calls \ {c} : call'[d] = call[d]
    /\ call'[c].pc = pc /\ call'[c].th = call[c].th /\ call'[c].met = call[c].met

LEMMA GotoMoves ==
    ASSUME TypeInv, NEW c \in Calls, NEW pc \in CallPC, Goto(c, pc)
    PROVE  Moves(c, pc)
<1> DEFINE s == [[call[c] EXCEPT !.pc = pc] EXCEPT !.rec = IF pc \in {"stream", "ok", "error"} THEN NoRecord ELSE @]
<1>1. call \in [Calls -> CallState] /\ call[c] \in CallState
    BY CallTyped
<1>2. call' = [call EXCEPT ![c] = s]
    BY <1>1 DEF Goto
<1>3. s \in CallState /\ s.pc = pc /\ s.th = call[c].th /\ s.met = call[c].met
    BY <1>1, RecordsTyped DEF CallState
<1> HIDE DEF s
<1> QED BY <1>1, <1>2, <1>3 DEF Moves

LEMMA TakesMoves ==
    ASSUME TypeInv, NEW c \in Calls, NEW pc \in CallPC, NEW rec \in Record,
           call' = [call EXCEPT ![c].pc = pc, ![c].rec = rec]
    PROVE  Moves(c, pc) /\ call'[c].rec = rec
<1> DEFINE s == [[call[c] EXCEPT !.pc = pc] EXCEPT !.rec = rec]
<1>1. call \in [Calls -> CallState] /\ call[c] \in CallState
    BY CallTyped
<1>2. call' = [call EXCEPT ![c] = s]
    BY <1>1
<1>3. s \in CallState /\ s.pc = pc /\ s.th = call[c].th /\ s.rec = rec /\ s.met = call[c].met
    BY <1>1 DEF CallState
<1> HIDE DEF s
<1> QED BY <1>1, <1>2, <1>3 DEF Moves

LEMMA ComesMoves ==
    ASSUME TypeInv, NEW c \in Calls, NEW pc \in CallPC, NEW th \in Calls,
           call' = [call EXCEPT ![c].th = th, ![c].pc = pc] \/ call' = [call EXCEPT ![c].pc = pc, ![c].th = th]
    PROVE  /\ call' \in [Calls -> CallState]
           /\ \A d \in Calls \ {c} : call'[d] = call[d]
           /\ call'[c].pc = pc /\ call'[c].th = th /\ call'[c].met = call[c].met
<1> DEFINE s == [[call[c] EXCEPT !.pc = pc] EXCEPT !.th = th]
<1>1. call \in [Calls -> CallState] /\ call[c] \in CallState
    BY CallTyped
<1>2. call' = [call EXCEPT ![c] = s]
    BY <1>1 DEF CallState
<1>3. s \in CallState /\ s.pc = pc /\ s.th = th /\ s.met = call[c].met
    BY <1>1 DEF CallState
<1> HIDE DEF s
<1> QED BY <1>1, <1>2, <1>3

\* A request finds the turns of its thread that are active.
LEMMA RequestMoves ==
    ASSUME TypeInv, NEW c \in Calls, NEW th \in Threads, Request(c, th)
    PROVE  /\ call' \in [Calls -> CallState]
           /\ \A d \in Calls \ {c} : call'[d] = call[d]
           /\ call'[c].pc \in {"error", "ingest"} /\ call'[c].th = th /\ call'[c].met \subseteq active
<1> DEFINE pc == IF conn = 0 THEN "error" ELSE "ingest"
           M == {t \in active : call[t].th = th}
           s == [[[call[c] EXCEPT !.th = th] EXCEPT !.pc = pc] EXCEPT !.met = M]
<1>1. call \in [Calls -> CallState] /\ call[c] \in CallState /\ M \subseteq active /\ M \in SUBSET Calls /\ th \in Calls
    BY CallTyped DEF TypeInv, TypeOK, Threads
<1>2. call' = [call EXCEPT ![c] = s]
    BY <1>1 DEF Request, CallState
<1>3. pc \in CallPC /\ pc \in {"error", "ingest"}
    BY DEF CallPC
<1>4. s \in CallState /\ s.pc = pc /\ s.th = th /\ s.met = M
    <2> HIDE DEF pc, M
    <2> QED BY <1>1, <1>3 DEF CallState
<1>5. PICK t \in CallState : call' = [call EXCEPT ![c] = t] /\ t.pc = pc /\ t.th = th /\ t.met = M
    BY <1>2, <1>4, Zenon
<1> HIDE DEF pc, M, s
<1> QED BY <1>1, <1>3, <1>5

----------------------------------------------------------------------------
(* How a call moves *)

Follows(a, b) ==
    \/ a = "replay" /\ b \in {"ok", "error"}
    \/ a = "ingest" /\ b \in {"validate", "get", "error"}
    \/ a = "get" /\ b \in {"validate", "error"}
    \/ a = "validate" /\ b \in {"create", "save", "stream", "error"}
    \/ a = "create" /\ b \in {"save", "error"}
    \/ a = "save" /\ b \in {"stream", "error"}
    \/ a = "stream" /\ b \in {"ok", "failget", "error"}
    \/ a = "failget" /\ b = "failsave"
    \/ a = "failsave" /\ b = "error"
    \/ a = "archget" /\ b \in {"archsave", "ok", "error"}
    \/ a = "archsave" /\ b \in {"ok", "error"}
\* A call that comes: it begins, joins an earlier one or is refused.
Enters(c) ==
    /\ call[c].pc = "idle" /\ \A d \in Calls \ {c} : call'[d] = call[d]
    /\ \/ call'[c].pc \in {"replay", "error"}
       \/ /\ disk[call'[c].th].exists \/ (Op[c] = "start" /\ call'[c].th = c)
          /\ call'[c].th \in Threads
          /\ Serial => \A d \in Calls : Settled(d)
          /\ \/ call'[c].pc = "ingest" /\ Op[c] # "archive" /\ (Op[c] = "start" => call'[c].th = c)
             \/ call'[c].pc = "archget" /\ Op[c] = "archive"
\* What a call met it keeps; a request meets turns that are active.
MetMove(c) == call'[c].met = call[c].met \/ (call[c].pc = "idle" /\ call'[c].met \subseteq active)
CallMove(c) ==
    /\ MetMove(c)
    /\ \/ call'[c] = call[c]
       \/ Enters(c)
       \/ Follows(call[c].pc, call'[c].pc) /\ call'[c].th = call[c].th
       \/ ~Settled(c) /\ call'[c].pc = "error" /\ call'[c].th = call[c].th
CallMoves == call' \in [Calls -> CallState] /\ \A c \in Calls : CallMove(c)

LEMMA MovesFollow ==
    ASSUME TypeInv, NEW c \in Calls, NEW pc \in CallPC, Moves(c, pc), Follows(call[c].pc, pc)
    PROVE  CallMoves
BY DEF Moves, CallMoves, CallMove, MetMove

LEMMA GotoFollows ==
    ASSUME TypeInv, NEW c \in Calls, NEW pc \in CallPC, Goto(c, pc), Follows(call[c].pc, pc)
    PROVE  CallMoves
BY GotoMoves, MovesFollow

LEMMA TakesFollows ==
    ASSUME TypeInv, NEW c \in Calls, NEW pc \in CallPC, NEW rec \in Record, Follows(call[c].pc, pc),
           call' = [call EXCEPT ![c].pc = pc, ![c].rec = rec]
    PROVE  CallMoves
BY TakesMoves, MovesFollow

LEMMA ThreadsAreCalls == Threads \subseteq Calls
BY DEF Threads

LEMMA HandlerMoves ==
    ASSUME TypeInv, NEW c \in Calls, CallStep(c)
    PROVE  CallMoves
<1>1. call[c].pc \in Holding \/ turn[c].pc \notin OverPC => disk[call[c].th] \in Record
    BY ThreadTyped
<1>2. call[c].pc = "replay" \/ call[c].pc \in Holding
    BY DEF CallStep, Ingest, GetThread, Validate, CreateThread, SaveTurn, Streamed, FailedGet, FailedSave, Replayed,
           ArchiveGet, ArchiveSave, Holding
<1>3. CASE Ingest(c)
    <2>1. call[c].pc = "ingest" /\ \E pc \in {"validate", "get", "error"} : Goto(c, pc)
        BY <1>3 DEF Ingest
    <2> QED BY <2>1, GotoFollows DEF CallPC, Follows
<1>4. CASE GetThread(c)
    <2>1. call[c].pc = "get" /\ (Goto(c, "error") \/ call' = [call EXCEPT ![c].pc = "validate", ![c].rec = disk[call[c].th]])
        BY <1>4 DEF GetThread, Reject
    <2>2. disk[call[c].th] \in Record
        BY <1>1, <2>1 DEF Holding
    <2> QED BY <2>1, <2>2, GotoFollows, TakesFollows DEF CallPC, Follows
<1>5. CASE Validate(c)
    <2>1. call[c].pc = "validate" /\ \E pc \in {"create", "save", "stream", "error"} : Goto(c, pc)
        BY <1>5 DEF Validate, Reject, Launch
    <2> QED BY <2>1, GotoFollows DEF CallPC, Follows
<1>6. CASE CreateThread(c)
    <2>1. call[c].pc = "create" /\ (Goto(c, "error") \/ call' = [call EXCEPT ![c].pc = "save", ![c].rec = [NoRecord EXCEPT !.exists = TRUE]])
        BY <1>6 DEF CreateThread, Reject
    <2>2. PICK rec \in Record : rec = [NoRecord EXCEPT !.exists = TRUE]
        BY RecordsTyped
    <2> QED BY <2>1, <2>2, GotoFollows, TakesFollows DEF CallPC, Follows
<1>7. CASE SaveTurn(c)
    <2>1. call[c].pc = "save" /\ \E pc \in {"stream", "error"} : Goto(c, pc)
        BY <1>7 DEF SaveTurn, Reject, Launch
    <2> QED BY <2>1, GotoFollows DEF CallPC, Follows
<1>8. CASE Streamed(c)
    <2>1. call[c].pc = "stream" /\ \E pc \in {"ok", "failget", "error"} : Goto(c, pc)
        BY <1>8 DEF Streamed, Reject
    <2> QED BY <2>1, GotoFollows DEF CallPC, Follows
<1>9. CASE FailedGet(c)
    <2>1. call[c].pc = "failget" /\ call' = [call EXCEPT ![c].pc = "failsave", ![c].rec = disk[call[c].th]]
        BY <1>9 DEF FailedGet
    <2>2. disk[call[c].th] \in Record
        BY <1>1, <2>1 DEF Holding
    <2> QED BY <2>1, <2>2, TakesFollows DEF CallPC, Follows
<1>10. CASE FailedSave(c)
    <2>1. call[c].pc = "failsave" /\ Goto(c, "error")
        BY <1>10 DEF FailedSave, Reject
    <2> QED BY <2>1, GotoFollows DEF CallPC, Follows
<1>11. CASE Replayed(c)
    <2>1. call[c].pc = "replay" /\ \E pc \in {"ok", "error"} : Goto(c, pc)
        BY <1>11 DEF Replayed
    <2> QED BY <2>1, GotoFollows DEF CallPC, Follows
<1>12. CASE ArchiveGet(c)
    <2>1. call[c].pc = "archget" /\ (Goto(c, "error") \/ Goto(c, "ok") \/ call' = [call EXCEPT ![c].pc = "archsave", ![c].rec = disk[call[c].th]])
        BY <1>12 DEF ArchiveGet
    <2>2. disk[call[c].th] \in Record
        BY <1>1, <2>1 DEF Holding
    <2> QED BY <2>1, <2>2, GotoFollows, TakesFollows DEF CallPC, Follows
<1>13. CASE ArchiveSave(c)
    <2>1. call[c].pc = "archsave" /\ \E pc \in {"ok", "error"} : Goto(c, pc)
        BY <1>13 DEF ArchiveSave
    <2> QED BY <2>1, GotoFollows DEF CallPC, Follows
<1> QED BY <1>3, <1>4, <1>5, <1>6, <1>7, <1>8, <1>9, <1>10, <1>11, <1>12, <1>13 DEF CallStep

LEMMA CallsStep ==
    ASSUME TypeInv, [Next]_vars
    PROVE  CallMoves
<1>1. UNCHANGED call => CallMoves
    BY CallTyped DEF CallMoves, CallMove, MetMove, TypeInv, TypeOK
<1>2. ASSUME NEW t \in Calls, TurnStep(t) \/ ThreadStarted(t) \/ Progress(t) \/ Completed(t) \/ Cancel(t)
      PROVE  UNCHANGED call
    BY <1>2 DEF TurnStep, SdkGet, SdkSave, Broken, Emitted, FinishGet, FinishSave, Close, ThreadStarted, Progress, Completed, Cancel
<1>3. Connect \/ Disconnect \/ UNCHANGED vars => UNCHANGED call
    BY DEF Connect, Disconnect, vars
<1>4. ASSUME NEW c \in Calls, NEW th \in Threads, Request(c, th)
      PROVE  CallMoves
    <2>3. /\ call' \in [Calls -> CallState] /\ \A d \in Calls \ {c} : call'[d] = call[d]
          /\ call'[c].pc \in {"error", "ingest"} /\ call'[c].th = th /\ call'[c].met \subseteq active
        BY <1>4, RequestMoves
    <2>4. Enters(c)
        BY <1>4, <2>3 DEF Enters, Request, Known
    <2> QED BY <2>3, <2>4 DEF CallMoves, CallMove, MetMove, Enters
<1>5. ASSUME NEW c \in Calls, NEW th \in Threads, Archive(c, th)
      PROVE  CallMoves
    <2>1. call' = [call EXCEPT ![c].pc = "archget", ![c].th = th]
        BY <1>5 DEF Archive
    <2>2. th \in Calls
        BY ThreadsAreCalls
    <2>3. /\ call' \in [Calls -> CallState] /\ \A d \in Calls \ {c} : call'[d] = call[d]
          /\ call'[c].pc = "archget" /\ call'[c].th = th /\ call'[c].met = call[c].met
        BY <2>1, <2>2, ComesMoves DEF CallPC
    <2>4. Enters(c)
        BY <1>5, <2>3 DEF Enters, Archive, Known
    <2> QED BY <2>3, <2>4 DEF CallMoves, CallMove, MetMove
<1>6. ASSUME NEW c \in Calls, Replay(c)
      PROVE  CallMoves
    <2>1. PICK d \in ledger : call' = [call EXCEPT ![c].th = call[d].th, ![c].pc = IF Op[d] = Op[c] THEN "replay" ELSE "error"]
        BY <1>6 DEF Replay
    <2>2. PICK pc \in {"replay", "error"}, th \in Calls : call' = [call EXCEPT ![c].th = th, ![c].pc = pc]
        <3>1. d \in Calls
            BY DEF TypeInv, TypeOK
        <3> QED BY <2>1, <3>1, CallTyped
    <2>3. /\ call' \in [Calls -> CallState] /\ \A e \in Calls \ {c} : call'[e] = call[e]
          /\ call'[c].pc = pc /\ call'[c].th = th /\ call'[c].met = call[c].met
        BY <2>2, ComesMoves DEF CallPC
    <2>4. Enters(c)
        BY <1>6, <2>3 DEF Enters, Replay
    <2> QED BY <2>3, <2>4 DEF CallMoves, CallMove, MetMove
<1>7. CASE Restart
    <2>1. call' = [c \in Calls |-> IF Settled(c) THEN call[c] ELSE [call[c] EXCEPT !.pc = "error", !.rec = NoRecord]]
        BY <1>7 DEF Restart
    <2>2. ASSUME NEW c \in Calls
          PROVE  call'[c] \in CallState /\ CallMove(c)
        <3> DEFINE s == [[call[c] EXCEPT !.pc = "error"] EXCEPT !.rec = NoRecord]
        <3>1. call[c] \in CallState
            BY CallTyped
        <3>2. s \in CallState /\ s.pc = "error" /\ s.th = call[c].th /\ s.met = call[c].met
            BY <3>1, RecordsTyped DEF CallState, CallPC
        <3>3. call'[c] = IF Settled(c) THEN call[c] ELSE s
            BY <2>1
        <3> HIDE DEF s
        <3> QED BY <3>1, <3>2, <3>3 DEF CallMove, MetMove
    <2> QED BY <2>1, <2>2 DEF CallMoves
<1> QED BY <1>1, <1>2, <1>3, <1>4, <1>5, <1>6, <1>7, HandlerMoves DEF Next

----------------------------------------------------------------------------
(* How a turn moves *)

Speaking == {"progress", "decision"}
\* Nothing happens to the turn, except that it may be aborted.
Keeps(t) ==
    /\ turn'[t].pc = turn[t].pc /\ turn'[t].last = turn[t].last /\ turn'[t].conn = turn[t].conn
    /\ turn'[t].fresh = turn[t].fresh /\ turn'[t].n = turn[t].n
    /\ turn[t].aborted => turn'[t].aborted
    /\ turn[t].pc = "none" => turn'[t] = turn[t]
\* The consumer takes the turn over.
Begins(t) == call[t].pc = "stream" /\ call'[t].pc = "ok" /\ turn[t].pc = "none" /\ turn'[t] = [NoTurn EXCEPT !.pc = "read"]
\* Something is written to the open stream.
Speaks(t) ==
    /\ conn # 0 /\ turn'[t].pc = "emit" /\ turn'[t].conn = conn
    /\ \/ turn[t].pc \in {"read", "sdkget", "sdksave"}
       \/ turn[t].pc = "finsave" /\ turn'[t].last \notin Speaking
\* The generator goes on; it reads again while the stream it wrote to is open.
Continues(t) ==
    \/ turn[t].pc = "read" /\ turn'[t].pc = "sdkget"
    \/ turn[t].pc = "sdkget" /\ turn'[t].pc = "sdksave"
    \/ turn[t].pc = "emit" /\ turn[t].last = "progress" /\ conn = turn[t].conn /\ turn'[t].pc = "read"
    \/ turn[t].pc = "emit" /\ turn'[t].pc = "emit" /\ turn'[t].last = "completed" /\ turn'[t].conn = turn[t].conn
\* The turn is let go of.
Leaves(t) ==
    \/ turn[t].pc \notin OverPC /\ turn'[t].pc \in {"close", "finget", "finsave"}
    \/ turn[t].pc = "close" /\ turn'[t].pc = "done"
\* The service dies.
Dies(t) == Restart /\ conn' = 0 /\ active' = {} /\ turn'[t] \in {NoTurn, [NoTurn EXCEPT !.pc = "done"]} /\ (turn'[t].pc = "none" <=> turn[t].pc = "none")
TurnMove(t) == Keeps(t) \/ Begins(t) \/ Speaks(t) \/ Continues(t) \/ Leaves(t) \/ Dies(t)

\* What a step of a turn may change: the turn, the thread file's queue,
\* what the browser was told and whether the turn is active.
Changed(t) ==
    /\ turn' \in [Calls -> TurnState] /\ \A u \in Calls \ {t} : turn'[u] = turn[u]
    /\ queue' \in Seq(Calls) /\ told' \in [Calls -> TurnStatus]
    /\ \/ active' = active
       \/ active' = active \ {t} /\ (turn'[t].pc \in {"close", "finget"} \/ (turn[t].pc = "emit" /\ turn'[t].pc = "emit"))
    /\ turn'[t].pc # "none"
\* The turn has spoken, or nobody listens and it is let go of.
Spoken(t, e) ==
    /\ Changed(t)
    /\ \/ conn # 0 /\ turn'[t].pc = "emit" /\ turn'[t].conn = conn /\ turn'[t].last = e /\ active' = active
       \/ turn'[t].pc \in {"close", "finget"}

LEMMA BecomeMoves ==
    ASSUME TypeInv, NEW t \in Calls, NEW s \in TurnState, Become(t, s)
    PROVE  turn' \in [Calls -> TurnState] /\ turn'[t] = s /\ \A u \in Calls \ {t} : turn'[u] = turn[u]
BY CallTyped DEF Become

LEMMA FinalizeMoves ==
    ASSUME TypeInv, NEW t \in Calls, NEW s \in TurnState, NEW q \in Seq(Calls), Finalize(t, s, q), told' \in [Calls -> TurnStatus]
    PROVE  Changed(t) /\ turn'[t].pc \in {"close", "finget"}
<1> DEFINE a == [NoTurn EXCEPT !.pc = "close"]
           b == [s EXCEPT !.pc = "finget", !.tools = {}, !.decided = FALSE, !.n = 0, !.conn = 0, !.rec = NoRecord]
<1>1. a \in TurnState /\ a.pc = "close"
    BY RecordsTyped DEF TurnState, TurnPC
<1>2. b \in TurnState /\ b.pc = "finget"
    <2>1. NoRecord \in Record /\ 0 \in 0..MaxConn /\ 0 \in 0..MaxEvents
        BY RecordsTyped, LocalAssumption
    <2>2. "finget" \in TurnPC
        BY DEF TurnPC
    <2> QED BY <2>1, <2>2 DEF TurnState
<1>3. active' = active \ {t} /\ ((Become(t, a) /\ queue' = q) \/ (Become(t, b) /\ queue' = Append(q, t)))
    BY DEF Finalize
<1> HIDE DEF a, b
<1>4. queue' \in Seq(Calls)
    BY <1>3
<1> QED BY <1>1, <1>2, <1>3, <1>4, BecomeMoves DEF Changed

LEMMA ReturnMoves ==
    ASSUME TypeInv, NEW t \in Calls, NEW s \in TurnState, NEW q \in Seq(Calls), Return(t, s, q), told' \in [Calls -> TurnStatus]
    PROVE  Changed(t) /\ turn'[t].pc \in {"close", "finget"}
<1> DEFINE a == [NoTurn EXCEPT !.pc = "close"]
           b == [s EXCEPT !.returning = TRUE]
<1>1. a \in TurnState /\ a.pc = "close"
    BY RecordsTyped DEF TurnState, TurnPC
<1>2. b \in TurnState
    BY DEF TurnState
<1>3. (Become(t, a) /\ queue' = q /\ UNCHANGED active) \/ Finalize(t, b, q)
    BY DEF Return
<1> HIDE DEF a, b
<1> QED BY <1>1, <1>2, <1>3, BecomeMoves, FinalizeMoves DEF Changed

LEMMA YieldMoves ==
    ASSUME TypeInv, NEW t \in Calls, NEW s \in TurnState, NEW e \in Events, NEW q \in Seq(Calls), Yield(t, s, e, q)
    PROVE  Spoken(t, e)
<1> DEFINE y == [s EXCEPT !.last = e]
           z == [y EXCEPT !.pc = "emit", !.conn = conn, !.rec = NoRecord]
<1>1. told \in [Calls -> TurnStatus] /\ conn \in 0..MaxConn
    BY DEF TypeInv, TypeOK
<1>2. y \in TurnState /\ y.last = e
    BY DEF TurnState
<1>3. z \in TurnState /\ z.pc = "emit" /\ z.conn = conn /\ z.last = e
    BY <1>1, <1>2, RecordsTyped DEF TurnState, TurnPC
<1>4. \/ Return(t, y, q) /\ UNCHANGED told
      \/ /\ conn # 0 /\ Become(t, z) /\ queue' = q /\ UNCHANGED active
         /\ told' = [told EXCEPT ![t] = IF e \in TurnStatus THEN e ELSE @]
    BY DEF Yield
<1> HIDE DEF y, z
<1>5. told' \in [Calls -> TurnStatus]
    BY <1>1, <1>4, CallTyped DEF Return
<1> QED BY <1>1, <1>2, <1>3, <1>4, <1>5, BecomeMoves, ReturnMoves DEF Spoken, Changed

LEMMA ThrowMoves ==
    ASSUME TypeInv, NEW t \in Calls, NEW s \in TurnState, NEW q \in Seq(Calls), Throw(t, s, q)
    PROVE  \E e \in {"cancelled", "failed"} : Spoken(t, e)
<1>1. PICK e \in {"cancelled", "failed"} : Yield(t, s, e, q)
    BY DEF Throw
<1> QED BY <1>1, YieldMoves DEF Events

LEMMA SpokenMove ==
    ASSUME TypeInv, NEW t \in Calls, NEW e \in Events, Spoken(t, e),
           \/ turn[t].pc \in {"read", "sdkget", "sdksave"}
           \/ turn[t].pc = "finsave" /\ e \notin Speaking
    PROVE  TurnMove(t) /\ Changed(t)
BY DEF Spoken, TurnMove, Speaks, Leaves, OverPC

TurnMoves == turn' \in [Calls -> TurnState] /\ \A t \in Calls : TurnMove(t)

LEMMA TurnSame ==
    ASSUME TypeInv, UNCHANGED turn
    PROVE  TurnMoves
BY CallTyped DEF TurnMoves, TurnMove, Keeps, TypeInv, TypeOK

LEMMA TurnOne ==
    ASSUME TypeInv, NEW t \in Calls, turn' \in [Calls -> TurnState], \A u \in Calls \ {t} : turn'[u] = turn[u], TurnMove(t)
    PROVE  TurnMoves
BY DEF TurnMoves, TurnMove, Keeps

LEMMA TurnAborts ==
    ASSUME TypeInv, NEW S, Aborting(S), \A t \in S \cap active \cap Calls : turn[t].pc # "none"
    PROVE  TurnMoves
<1> SUFFICES ASSUME NEW t \in Calls
             PROVE  turn'[t] \in TurnState /\ Keeps(t)
    BY DEF TurnMoves, TurnMove, Aborting
<1>1. PICK new \in BOOLEAN : new = (turn[t].aborted \/ t \in S \cap active)
    OBVIOUS
<1>2. turn'[t] = [turn[t] EXCEPT !.aborted = new]
    BY <1>1 DEF Aborting
<1>3. turn[t] \in TurnState
    BY CallTyped
<1>4. turn'[t] \in TurnState /\ Keeps(t)
    <2>1. turn'[t] \in TurnState /\ turn'[t].pc = turn[t].pc /\ turn'[t].last = turn[t].last /\ turn'[t].conn = turn[t].conn
          /\ turn'[t].fresh = turn[t].fresh /\ turn'[t].n = turn[t].n /\ turn'[t].aborted = new
        BY <1>2, <1>3 DEF TurnState
    <2>2. turn[t].pc = "none" => turn'[t] = turn[t]
        <3>1. turn[t].pc = "none" => new = turn[t].aborted
            BY <1>1, <1>3 DEF TurnState
        <3> QED BY <1>2, <1>3, <3>1 DEF TurnState
    <2> QED BY <1>1, <2>1, <2>2 DEF Keeps
<1> QED BY <1>4

LEMMA ProgressMoves ==
    ASSUME TypeInv, NEW t \in Calls, Progress(t)
    PROVE  TurnMove(t) /\ Changed(t)
<1> DEFINE s == [turn[t] EXCEPT !.n = @ + 1]
<1>1. At(t, "read") /\ turn[t].n < MaxEvents /\ queue \in Seq(Calls)
    BY DEF Progress, TypeInv, TypeOK
<1>2. turn[t] \in TurnState
    BY CallTyped
<1>3. s \in TurnState
    BY <1>1, <1>2, LocalAssumption DEF TurnState
<1>4. \/ \E m \in Tools \ s.tools : Yield(t, [s EXCEPT !.tools = @ \cup {m}, !.decided = FALSE], "progress", queue)
      \/ \E m \in s.tools : Yield(t, [s EXCEPT !.tools = @ \ {m}], "progress", queue)
      \/ Yield(t, [s EXCEPT !.decided = @ \/ s.tools = {}], "progress", queue)
    BY DEF Progress
<1> HIDE DEF s
<1>5. ASSUME NEW m \in Tools \ s.tools PROVE [s EXCEPT !.tools = @ \cup {m}, !.decided = FALSE] \in TurnState
    BY <1>3 DEF TurnState
<1>6. ASSUME NEW m \in s.tools PROVE [s EXCEPT !.tools = @ \ {m}] \in TurnState
    BY <1>3 DEF TurnState
<1>7. [s EXCEPT !.decided = @ \/ s.tools = {}] \in TurnState
    <2>1. PICK new \in BOOLEAN : new = (s.decided \/ s.tools = {})
        OBVIOUS
    <2>2. [s EXCEPT !.decided = new] \in TurnState
        BY <1>3 DEF TurnState
    <2> QED BY <2>1, <2>2
<1>8. \E y \in TurnState : Yield(t, y, "progress", queue)
    BY <1>4, <1>5, <1>6, <1>7
<1>9. PICK e \in Events : e = "progress"
    BY DEF Events
<1>10. Spoken(t, e)
    BY <1>1, <1>8, <1>9, YieldMoves
<1> QED BY <1>1, <1>10, SpokenMove DEF At

LEMMA ThrowsMove ==
    ASSUME TypeInv, NEW t \in Calls, NEW s \in TurnState, NEW q \in Seq(Calls), Throw(t, s, q),
           turn[t].pc \in {"read", "sdkget", "sdksave", "finsave"}
    PROVE  TurnMove(t) /\ Changed(t)
<1>1. PICK e \in {"cancelled", "failed"} : Spoken(t, e)
    BY ThrowMoves
<1>2. e \in Events /\ e \notin Speaking
    BY <1>1 DEF Events, Speaking
<1> QED BY <1>1, <1>2, SpokenMove

LEMMA YieldsMove ==
    ASSUME TypeInv, NEW t \in Calls, NEW s \in TurnState, NEW e \in Events, NEW q \in Seq(Calls), Yield(t, s, e, q),
           turn[t].pc \in {"read", "sdkget", "sdksave"} \/ (turn[t].pc = "finsave" /\ e \notin Speaking)
    PROVE  TurnMove(t) /\ Changed(t)
BY YieldMoves, SpokenMove

LEMMA ReturnsMove ==
    ASSUME TypeInv, NEW t \in Calls, NEW s \in TurnState, NEW q \in Seq(Calls), Return(t, s, q), UNCHANGED told,
           turn[t].pc \notin OverPC
    PROVE  TurnMove(t) /\ Changed(t)
<1>1. told \in [Calls -> TurnStatus]
    BY DEF TypeInv, TypeOK
<1>2. Changed(t) /\ turn'[t].pc \in {"close", "finget"}
    BY <1>1, ReturnMoves
<1> QED BY <1>2 DEF TurnMove, Leaves

LEMMA QueueTyped ==
    ASSUME TypeInv, NEW t \in Calls
    PROVE  /\ queue \in Seq(Calls) /\ Append(queue, t) \in Seq(Calls)
           /\ AtStore(t) => Tail(queue) \in Seq(Calls) /\ Append(Tail(queue), t) \in Seq(Calls)
<1>1. queue \in Seq(Calls)
    BY DEF TypeInv, TypeOK
<1>2. Append(queue, t) \in Seq(Calls)
    BY <1>1
<1>3. AtStore(t) => Tail(queue) \in Seq(Calls)
    BY <1>1 DEF AtStore
<1>4. AtStore(t) => Append(Tail(queue), t) \in Seq(Calls)
    BY <1>3
<1> QED BY <1>1, <1>2, <1>3, <1>4

LEMMA PlainMove ==
    ASSUME TypeInv, NEW t \in Calls, NEW s \in TurnState, Become(t, s), queue' \in Seq(Calls), told' \in [Calls -> TurnStatus],
           active' = active \/ (active' = active \ {t} /\ turn[t].pc = "emit" /\ s.pc = "emit"), s.pc # "none",
           turn'[t] = s => TurnMove(t)
    PROVE  TurnMove(t) /\ Changed(t)
BY BecomeMoves DEF Changed

LEMMA DiskTyped ==
    ASSUME TypeInv, NEW t \in Calls, turn[t].pc \notin OverPC
    PROVE  /\ call[t].th \in Threads /\ disk \in [Threads -> Record] /\ disk[call[t].th] \in Record
           /\ told \in [Calls -> TurnStatus] /\ active \subseteq Calls
BY ThreadTyped DEF TypeInv, TypeOK

LEMMA ThreadStartedMoves ==
    ASSUME TypeInv, NEW t \in Calls, ThreadStarted(t)
    PROVE  TurnMove(t) /\ Changed(t)
<1> DEFINE s == [turn[t] EXCEPT !.pc = "sdkget", !.fresh = FALSE]
<1>1. turn[t].pc = "read" /\ Become(t, s) /\ queue' = Append(queue, t) /\ UNCHANGED <<active, told>>
    BY DEF ThreadStarted, At, Issued
<1>2. s \in TurnState /\ s.pc = "sdkget"
    <2>1. turn[t] \in TurnState
        BY CallTyped
    <2> QED BY <2>1 DEF TurnState, TurnPC
<1> HIDE DEF s
<1>3. told \in [Calls -> TurnStatus]
    BY DEF TypeInv, TypeOK
<1>4. turn'[t] = s => TurnMove(t)
    BY <1>1, <1>2 DEF TurnMove, Continues
<1> QED BY <1>1, <1>2, <1>3, <1>4, QueueTyped, PlainMove

LEMMA SdkGetMoves ==
    ASSUME TypeInv, NEW t \in Calls, SdkGet(t)
    PROVE  TurnMove(t) /\ Changed(t)
<1>1. turn[t].pc = "sdkget" /\ AtStore(t)
    BY DEF SdkGet, At
<1>2. turn[t] \in TurnState /\ "progress" \in Events
    BY CallTyped DEF Events
<1>3. CASE Yield(t, turn[t], "progress", Tail(queue))
    BY <1>1, <1>2, <1>3, QueueTyped, YieldsMove
<1>4. CASE ~Yield(t, turn[t], "progress", Tail(queue))
    <2> DEFINE s == [turn[t] EXCEPT !.pc = "sdksave", !.rec = disk[call[t].th]]
    <2>1. Become(t, s) /\ queue' = Append(Tail(queue), t) /\ UNCHANGED <<active, told>>
        BY <1>4 DEF SdkGet
    <2>2. disk[call[t].th] \in Record /\ told \in [Calls -> TurnStatus]
        BY <1>1, DiskTyped DEF OverPC
    <2>3. s \in TurnState /\ s.pc = "sdksave"
        BY <1>2, <2>2 DEF TurnState, TurnPC
    <2> HIDE DEF s
    <2>4. turn'[t] = s => TurnMove(t)
        BY <1>1, <2>3 DEF TurnMove, Continues
    <2> QED BY <1>1, <2>1, <2>2, <2>3, <2>4, QueueTyped, PlainMove
<1> QED BY <1>3, <1>4

LEMMA SdkSaveMoves ==
    ASSUME TypeInv, NEW t \in Calls, SdkSave(t)
    PROVE  TurnMove(t) /\ Changed(t)
<1>1. turn[t].pc = "sdksave" /\ AtStore(t) /\ (Yield(t, turn[t], "progress", Tail(queue)) \/ Throw(t, turn[t], Tail(queue)))
    BY DEF SdkSave, At
<1>2. turn[t] \in TurnState /\ "progress" \in Events
    BY CallTyped DEF Events
<1> QED BY <1>1, <1>2, QueueTyped, YieldsMove, ThrowsMove

LEMMA CompletedMoves ==
    ASSUME TypeInv, NEW t \in Calls, Completed(t) \/ Broken(t)
    PROVE  TurnMove(t) /\ Changed(t)
<1>1. turn[t].pc = "read" /\ (Throw(t, turn[t], queue) \/ \E e \in {"decision", "failed"} : Yield(t, turn[t], e, queue))
    BY DEF Completed, Broken, At
<1>2. turn[t] \in TurnState /\ {"decision", "failed"} \subseteq Events
    BY CallTyped DEF Events
<1> QED BY <1>1, <1>2, QueueTyped, YieldsMove, ThrowsMove

LEMMA EmittedMoves ==
    ASSUME TypeInv, NEW t \in Calls, Emitted(t)
    PROVE  TurnMove(t) /\ Changed(t)
<1>1. turn[t].pc = "emit" /\ turn[t] \in TurnState
    BY CallTyped DEF Emitted, At
<1>2. told \in [Calls -> TurnStatus] /\ queue \in Seq(Calls)
    BY DEF TypeInv, TypeOK
<1>3. CASE Return(t, turn[t], queue) /\ UNCHANGED told
    BY <1>1, <1>2, <1>3, ReturnsMove DEF OverPC
<1>4. CASE /\ conn = turn[t].conn /\ turn[t].last = "progress"
           /\ Become(t, [turn[t] EXCEPT !.pc = "read"]) /\ UNCHANGED <<active, queue, told>>
    <2> DEFINE s == [turn[t] EXCEPT !.pc = "read"]
    <2>1. s \in TurnState /\ s.pc = "read"
        BY <1>1 DEF TurnState, TurnPC
    <2>2. Become(t, s)
        BY <1>4
    <2> HIDE DEF s
    <2>3. turn'[t] = s => TurnMove(t)
        BY <1>1, <1>4, <2>1 DEF TurnMove, Continues
    <2> QED BY <1>2, <1>4, <2>1, <2>2, <2>3, PlainMove
<1>5. CASE /\ active' = active \ {t} /\ told' = [told EXCEPT ![t] = "completed"]
           /\ Become(t, [turn[t] EXCEPT !.last = "completed", !.finalized = TRUE]) /\ UNCHANGED queue
    <2> DEFINE s == [turn[t] EXCEPT !.last = "completed", !.finalized = TRUE]
    <2>1. s \in TurnState /\ s.pc = "emit" /\ s.last = "completed" /\ s.conn = turn[t].conn
        BY <1>1 DEF TurnState, Events
    <2>2. Become(t, s)
        BY <1>5
    <2> HIDE DEF s
    <2>3. turn'[t] = s => TurnMove(t)
        BY <1>1, <2>1 DEF TurnMove, Continues
    <2>4. told' \in [Calls -> TurnStatus]
        BY <1>2, <1>5 DEF TurnStatus
    <2> QED BY <1>1, <1>2, <1>5, <2>1, <2>2, <2>3, <2>4, PlainMove
<1>6. CASE Finalize(t, [turn[t] EXCEPT !.last = "completed"], queue) /\ UNCHANGED told
    <2> DEFINE s == [turn[t] EXCEPT !.last = "completed"]
    <2>1. s \in TurnState
        BY <1>1 DEF TurnState, Events
    <2>2. Finalize(t, s, queue)
        BY <1>6
    <2> HIDE DEF s
    <2>3. told' \in [Calls -> TurnStatus]
        BY <1>2, <1>6
    <2>4. Changed(t) /\ turn'[t].pc \in {"close", "finget"}
        BY <1>2, <2>1, <2>2, <2>3, FinalizeMoves
    <2> QED BY <1>1, <2>4 DEF TurnMove, Leaves, OverPC
<1> QED BY <1>3, <1>4, <1>5, <1>6 DEF Emitted

LEMMA FinishGetMoves ==
    ASSUME TypeInv, NEW t \in Calls, FinishGet(t)
    PROVE  TurnMove(t) /\ Changed(t)
<1> DEFINE s == [turn[t] EXCEPT !.pc = "finsave", !.rec = disk[call[t].th]]
<1>1. turn[t].pc = "finget" /\ AtStore(t) /\ Become(t, s) /\ queue' = Append(Tail(queue), t) /\ UNCHANGED <<active, told>>
    BY DEF FinishGet, At
<1>2. disk[call[t].th] \in Record /\ told \in [Calls -> TurnStatus]
    BY <1>1, DiskTyped DEF OverPC
<1>3. s \in TurnState /\ s.pc = "finsave"
    <2>1. turn[t] \in TurnState
        BY CallTyped
    <2> QED BY <1>2, <2>1 DEF TurnState, TurnPC
<1> HIDE DEF s
<1>4. turn'[t] = s => TurnMove(t)
    BY <1>1, <1>3 DEF TurnMove, Leaves, OverPC
<1> QED BY <1>1, <1>2, <1>3, <1>4, QueueTyped, PlainMove

LEMMA FinishSaveMoves ==
    ASSUME TypeInv, NEW t \in Calls, FinishSave(t)
    PROVE  TurnMove(t) /\ Changed(t)
<1> DEFINE s == [turn[t] EXCEPT !.finalized = TRUE]
<1>1. turn[t].pc = "finsave" /\ AtStore(t)
    BY DEF FinishSave, At
<1>2. \/ Return(t, s, Tail(queue)) /\ UNCHANGED told
      \/ Yield(t, s, "completed", Tail(queue))
      \/ Throw(t, turn[t], Tail(queue))
    BY DEF FinishSave
<1>3. turn[t] \in TurnState /\ s \in TurnState
    BY CallTyped DEF TurnState
<1>4. "completed" \in Events /\ "completed" \notin Speaking
    BY DEF Events, Speaking
<1> HIDE DEF s
<1> QED BY <1>1, <1>2, <1>3, <1>4, QueueTyped, YieldsMove, ThrowsMove, ReturnsMove DEF OverPC

LEMMA CloseMoves ==
    ASSUME TypeInv, NEW t \in Calls, Close(t)
    PROVE  TurnMove(t) /\ Changed(t)
<1> DEFINE s == [NoTurn EXCEPT !.pc = "done"]
<1>1. turn[t].pc = "close" /\ Become(t, s) /\ UNCHANGED <<queue, active, told>>
    BY DEF Close, At
<1>2. s \in TurnState /\ s.pc = "done"
    BY RecordsTyped DEF TurnState, TurnPC
<1> HIDE DEF s
<1>3. told \in [Calls -> TurnStatus]
    BY DEF TypeInv, TypeOK
<1>4. turn'[t] = s => TurnMove(t)
    BY <1>1, <1>2 DEF TurnMove, Leaves, OverPC
<1> QED BY <1>1, <1>2, <1>3, <1>4, QueueTyped, PlainMove

\* A step of a turn's own.
TurnActs(t) ==
    \/ TurnStep(t) \/ ThreadStarted(t) \/ Progress(t) \/ Completed(t)

LEMMA ActsMove ==
    ASSUME TypeInv, NEW t \in Calls, TurnActs(t)
    PROVE  TurnMove(t) /\ Changed(t)
BY ThreadStartedMoves, SdkGetMoves, SdkSaveMoves, CompletedMoves, EmittedMoves, FinishGetMoves, FinishSaveMoves,
   CloseMoves, ProgressMoves DEF TurnActs, TurnStep

LEMMA TurnsStep ==
    ASSUME TypeInv, [Next]_vars
    PROVE  TurnMoves
<1>1. ASSUME NEW c \in Calls, Ingest(c) \/ GetThread(c) \/ Validate(c) \/ CreateThread(c) \/ SaveTurn(c) \/ FailedGet(c)
                              \/ FailedSave(c) \/ Replayed(c) \/ ArchiveGet(c) \/ ArchiveSave(c) \/ Replay(c)
      PROVE  UNCHANGED turn
    BY <1>1 DEF Ingest, GetThread, Validate, CreateThread, SaveTurn, FailedGet, FailedSave, Replayed, ArchiveGet, ArchiveSave, Replay
<1>2. ASSUME NEW c \in Calls, NEW th \in Threads, Request(c, th) \/ Archive(c, th)
      PROVE  UNCHANGED turn
    BY <1>2 DEF Request, Archive
<1>3. Connect \/ UNCHANGED vars => UNCHANGED turn
    BY DEF Connect, vars
<1>4. ASSUME NEW c \in Calls, Streamed(c)
      PROVE  TurnMoves
    <2>1. CASE UNCHANGED turn
        BY <2>1, TurnSame
    <2>2. CASE Goto(c, "ok") /\ turn' = [turn EXCEPT ![c].pc = "read"]
        <3>1. call[c].pc = "stream" /\ turn[c] = NoTurn
            BY <1>4 DEF Streamed, TypeInv, TurnsMeant
        <3>2. call'[c].pc = "ok"
            BY <2>2, GotoMoves DEF Moves, CallPC
        <3> DEFINE s == [NoTurn EXCEPT !.pc = "read"]
        <3>3. turn' = [turn EXCEPT ![c] = s]
            BY <2>2, <3>1, CallTyped
        <3>4. s \in TurnState
            BY RecordsTyped DEF TurnState, TurnPC
        <3>5. turn[c].pc = "none"
            BY <3>1 DEF NoTurn
        <3>6. turn' \in [Calls -> TurnState] /\ turn'[c] = s /\ \A u \in Calls \ {c} : turn'[u] = turn[u]
            BY <3>3, <3>4, CallTyped
        <3>7. TurnMove(c)
            BY <3>1, <3>2, <3>5, <3>6 DEF TurnMove, Begins
        <3> QED BY <3>6, <3>7, TurnOne
    <2> QED BY <1>4, <2>1, <2>2 DEF Streamed
<1>5. ASSUME NEW t \in Calls, Cancel(t)
      PROVE  TurnMoves
    <2>1. Aborting({t}) /\ t \in active /\ call[t].pc = "ok"
        BY <1>5 DEF Cancel
    <2>2. turn[t].pc # "none"
        BY <2>1 DEF TypeInv, ActiveMeant
    <2> QED BY <2>1, <2>2, TurnAborts
<1>6. Disconnect => TurnMoves
    <2>1. \A t \in Consumed \cap active \cap Calls : turn[t].pc # "none"
        BY DEF Consumed
    <2> QED BY <2>1, TurnAborts DEF Disconnect
<1>7. Restart => TurnMoves
    <2> SUFFICES ASSUME Restart PROVE TurnMoves
        OBVIOUS
    <2>1. turn' = [t \in Calls |-> [NoTurn EXCEPT !.pc = IF turn[t].pc = "none" THEN "none" ELSE "done"]] /\ conn' = 0 /\ active' = {}
        BY DEF Restart
    <2>2. ASSUME NEW t \in Calls
          PROVE  turn'[t] \in TurnState /\ Dies(t)
        <3>1. [NoTurn EXCEPT !.pc = "none"] = NoTurn
            <4>1. NoTurn.pc = "none"
                BY DEF NoTurn
            <4>2. ASSUME NEW r \in TurnState, r.pc = "none" PROVE [r EXCEPT !.pc = "none"] = r
                BY <4>2 DEF TurnState
            <4> QED BY <4>1, <4>2, RecordsTyped
        <3>2. turn'[t] = IF turn[t].pc = "none" THEN NoTurn ELSE [NoTurn EXCEPT !.pc = "done"]
            BY <2>1, <3>1
        <3>3. NoTurn.pc = "none" /\ [NoTurn EXCEPT !.pc = "done"].pc = "done" /\ [NoTurn EXCEPT !.pc = "done"] \in TurnState
            BY RecordsTyped DEF NoTurn, TurnState, TurnPC
        <3> QED BY <2>1, <3>2, <3>3, RecordsTyped DEF Dies
    <2> QED BY <2>1, <2>2 DEF TurnMoves, TurnMove
<1>8. ASSUME NEW t \in Calls, TurnActs(t)
      PROVE  TurnMoves
    BY <1>8, ActsMove, TurnOne DEF Changed
<1> QED BY <1>1, <1>2, <1>3, <1>4, <1>5, <1>6, <1>7, <1>8, TurnSame DEF Next, CallStep, TurnActs

\* A turn that begins: no other of its thread is active, or its record has
\* just been written.
Launches(c) ==
    /\ Op[c] # "archive" /\ call'[c].pc \in {"stream", "error"} /\ UNCHANGED turn
    /\ \/ call[c].pc = "validate" /\ \A u \in active : call[u].th # call[c].th
       \/ call[c].pc = "save"
\* A turn that ends.
Drops(t) ==
    \/ Leaves(t)
    \/ turn[t].pc = "emit" /\ turn'[t].pc = "emit" /\ turn'[t].last \notin Speaking
    \/ call[t].pc = "stream" /\ call'[t].pc \in {"error", "failget"} /\ UNCHANGED turn
    \/ active' = {} /\ turn'[t].pc \in {"none", "done"}
ActiveMove(t) ==
    \/ t \in active <=> t \in active'
    \/ t \in active' /\ t \notin active /\ Launches(t)
    \/ t \in active /\ t \notin active' /\ Drops(t)
ActiveMoves == active' \subseteq Calls /\ \A t \in Calls : ActiveMove(t)

LEMMA LaunchMoves ==
    ASSUME TypeInv, NEW c \in Calls, Launch(c), UNCHANGED turn, Op[c] # "archive",
           (call[c].pc = "validate" /\ ~Busy(call[c].rec, call[c].th)) \/ call[c].pc = "save"
    PROVE  ActiveMoves
<1>1. active' = active \cup {c} /\ (Goto(c, "stream") \/ Goto(c, "error"))
    BY DEF Launch, Reject
<1>2. call'[c].pc \in {"stream", "error"}
    BY <1>1, GotoMoves DEF Moves, CallPC
<1>3. Launches(c)
    BY <1>2 DEF Launches, Busy
<1>4. active \subseteq Calls
    BY DEF TypeInv, TypeOK
<1> QED BY <1>1, <1>3, <1>4 DEF ActiveMoves, ActiveMove

LEMMA ActiveStep ==
    ASSUME TypeInv, [Next]_vars, \A c \in Calls : call[c].pc = "save" => Op[c] # "archive"
    PROVE  ActiveMoves
<1>1. active \subseteq Calls
    BY DEF TypeInv, TypeOK
<1>2. UNCHANGED active => ActiveMoves
    BY <1>1 DEF ActiveMoves, ActiveMove
<1>3. ASSUME NEW c \in Calls, Ingest(c) \/ GetThread(c) \/ CreateThread(c) \/ FailedGet(c) \/ FailedSave(c)
                              \/ Replayed(c) \/ ArchiveGet(c) \/ ArchiveSave(c) \/ Replay(c) \/ Cancel(c)
      PROVE  UNCHANGED active
    BY <1>3 DEF Ingest, GetThread, CreateThread, FailedGet, FailedSave, Replayed, ArchiveGet, ArchiveSave, Replay, Cancel
<1>4. ASSUME NEW c \in Calls, NEW th \in Threads, Request(c, th) \/ Archive(c, th)
      PROVE  UNCHANGED active
    BY <1>4 DEF Request, Archive
<1>5. Connect \/ Disconnect \/ UNCHANGED vars => UNCHANGED active
    BY DEF Connect, Disconnect, vars
<1>6. ASSUME NEW c \in Calls, Validate(c)
      PROVE  ActiveMoves
    <2>1. call[c].pc = "validate" /\ UNCHANGED turn
        BY <1>6 DEF Validate
    <2>2. UNCHANGED active \/ (Ephemeral(c) /\ ~Busy(call[c].rec, call[c].th) /\ Launch(c))
        BY <1>6 DEF Validate
    <2>3. Ephemeral(c) => Op[c] # "archive"
        BY DEF Ephemeral
    <2> QED BY <1>2, <2>1, <2>2, <2>3, LaunchMoves
<1>7. ASSUME NEW c \in Calls, SaveTurn(c)
      PROVE  ActiveMoves
    <2>1. call[c].pc = "save" /\ UNCHANGED turn /\ (UNCHANGED active \/ Launch(c))
        BY <1>7 DEF SaveTurn
    <2> QED BY <1>2, <2>1, LaunchMoves
<1>8. ASSUME NEW c \in Calls, Streamed(c)
      PROVE  ActiveMoves
    <2>1. CASE active' = active \ {c} /\ UNCHANGED turn /\ (Goto(c, "error") \/ Goto(c, "failget"))
        <3>1. call'[c].pc \in {"error", "failget"} /\ call[c].pc = "stream"
            BY <1>8, <2>1, GotoMoves DEF Moves, CallPC, Streamed
        <3> QED BY <1>1, <2>1, <3>1 DEF ActiveMoves, ActiveMove, Drops
    <2> QED BY <1>2, <1>8, <2>1 DEF Streamed, Reject
<1>9. ASSUME NEW t \in Calls, TurnActs(t)
      PROVE  ActiveMoves
    <2>1. Changed(t) /\ TurnMove(t)
        BY <1>9, ActsMove
    <2>2. CASE UNCHANGED active
        BY <1>2, <2>2
    <2>3. CASE active' = active \ {t} /\ t \in active
        <3>1. turn[t].pc \notin OverPC
            BY <1>9, <2>3 DEF TurnActs, TurnStep, SdkGet, SdkSave, Broken, Emitted, FinishGet, FinishSave, Close, ThreadStarted,
                        Progress, Completed, At, OverPC
        <3>2. turn'[t].pc \in {"close", "finget"} \/ (turn[t].pc = "emit" /\ turn'[t].pc = "emit")
            BY <2>1, <2>3 DEF Changed
        <3>3. turn[t].pc = "emit" /\ turn'[t].pc = "emit" => turn'[t].last \notin Speaking
            <4>1. CASE Emitted(t)
                <5>1. UNCHANGED active \/ Return(t, turn[t], queue) \/ Finalize(t, [turn[t] EXCEPT !.last = "completed"], queue)
                      \/ Become(t, [turn[t] EXCEPT !.last = "completed", !.finalized = TRUE])
                    BY <4>1 DEF Emitted
                <5>2. told \in [Calls -> TurnStatus] /\ turn[t] \in TurnState /\ queue \in Seq(Calls)
                    BY CallTyped DEF TypeInv, TypeOK
                <5>3. told' \in [Calls -> TurnStatus]
                    BY <2>1 DEF Changed
                <5>4. Return(t, turn[t], queue) => turn'[t].pc # "emit"
                    BY <5>2, <5>3, ReturnMoves
                <5>5. Finalize(t, [turn[t] EXCEPT !.last = "completed"], queue) => turn'[t].pc # "emit"
                    <6>1. [turn[t] EXCEPT !.last = "completed"] \in TurnState
                        BY <5>2 DEF TurnState, Events
                    <6> QED BY <5>2, <5>3, <6>1, FinalizeMoves
                <5>6. Become(t, [turn[t] EXCEPT !.last = "completed", !.finalized = TRUE]) => turn'[t].last \notin Speaking
                    BY <5>2, CallTyped DEF Become, Speaking, TurnState
                <5> QED BY <2>3, <5>1, <5>4, <5>5, <5>6
            <4>2. CASE ~Emitted(t)
                <5>1. turn[t].pc # "emit"
                    BY <1>9, <4>2 DEF TurnActs, TurnStep, SdkGet, SdkSave, Broken, FinishGet, FinishSave, Close, ThreadStarted,
                                Progress, Completed, At
                <5> QED BY <5>1
            <4> QED BY <4>1, <4>2
        <3>4. Drops(t)
            BY <3>1, <3>2, <3>3 DEF Drops, Leaves
        <3> QED BY <1>1, <2>3, <3>4 DEF ActiveMoves, ActiveMove
    <2>4. UNCHANGED active \/ (active' = active \ {t} /\ t \in active)
        BY <2>1 DEF Changed
    <2> QED BY <2>2, <2>3, <2>4
<1>10. Restart => ActiveMoves
    <2> SUFFICES ASSUME Restart PROVE ActiveMoves
        OBVIOUS
    <2>1. active' = {}
        BY DEF Restart
    <2>2. ASSUME NEW t \in Calls PROVE turn'[t].pc \in {"none", "done"}
        BY <2>2 DEF Restart, NoTurn
    <2> QED BY <2>1, <2>2 DEF ActiveMoves, ActiveMove, Drops
<1> QED BY <1>2, <1>3, <1>4, <1>5, <1>6, <1>7, <1>8, <1>9, <1>10 DEF Next, CallStep, TurnActs

----------------------------------------------------------------------------
(* The rest of the types *)

Handles(c) ==
    \/ Ingest(c) \/ GetThread(c) \/ Validate(c) \/ CreateThread(c) \/ SaveTurn(c) \/ Streamed(c) \/ FailedGet(c)
    \/ FailedSave(c) \/ Replayed(c) \/ ArchiveGet(c) \/ ArchiveSave(c)
Comes(c) == Replay(c) \/ \E th \in Threads : Request(c, th) \/ Archive(c, th)
Elsewhere == Connect \/ Disconnect \/ Restart \/ (\E t \in Calls : Cancel(t)) \/ UNCHANGED vars

LEMMA NextIs ==
    ASSUME [Next]_vars
    PROVE  (\E c \in Calls : Handles(c) \/ Comes(c) \/ TurnActs(c)) \/ Elsewhere
BY DEF Next, CallStep, Handles, Comes, TurnActs, Elsewhere

LEMMA PlanKept ==
    ASSUME [Next]_vars
    PROVE  plan' = plan /\ Op' = Op /\ Threads' = Threads /\ \A c \in Calls : Ephemeral(c)' = Ephemeral(c)
<1>1. ASSUME NEW c \in Calls, Handles(c) PROVE plan' = plan
    BY <1>1 DEF Handles, Ingest, GetThread, Validate, CreateThread, SaveTurn, Streamed, FailedGet, FailedSave, Replayed,
                ArchiveGet, ArchiveSave
<1>2. ASSUME NEW c \in Calls, Comes(c) PROVE plan' = plan
    BY <1>2 DEF Comes, Replay, Request, Archive
<1>3. ASSUME NEW c \in Calls, TurnActs(c) PROVE plan' = plan
    BY <1>3 DEF TurnActs, TurnStep, SdkGet, SdkSave, Broken, Emitted, FinishGet, FinishSave, Close, ThreadStarted, Progress, Completed
<1>4. Elsewhere => plan' = plan
    BY DEF Elsewhere, Connect, Disconnect, Restart, Cancel, vars
<1>5. plan' = plan
    BY <1>1, <1>2, <1>3, <1>4, NextIs
<1> QED BY <1>5 DEF Op, Threads, Ephemeral

LEMMA QueueStep ==
    ASSUME TypeInv, [Next]_vars
    PROVE  queue' \in Seq(Calls) /\ told' \in [Calls -> TurnStatus]
<1>1. told \in [Calls -> TurnStatus] /\ queue \in Seq(Calls)
    BY DEF TypeInv, TypeOK
<1>2. ASSUME NEW c \in Calls, Handles(c) PROVE queue' \in Seq(Calls) /\ told' = told
    <2>1. told' = told
        BY <1>2 DEF Handles, Ingest, GetThread, Validate, CreateThread, SaveTurn, Streamed, FailedGet, FailedSave, Replayed,
                    ArchiveGet, ArchiveSave
    <2>2. \/ queue' = queue \/ queue' = Append(queue, c)
          \/ AtStore(c) /\ (queue' = Tail(queue) \/ queue' = Append(Tail(queue), c))
        <3>1. Ingest(c) \/ Validate(c) \/ Streamed(c) \/ Replayed(c) => queue' = queue \/ queue' = Append(queue, c)
            BY DEF Ingest, Validate, Streamed, Replayed, Issued
        <3>2. GetThread(c) \/ CreateThread(c) \/ SaveTurn(c) \/ FailedGet(c) \/ FailedSave(c) \/ ArchiveGet(c) \/ ArchiveSave(c)
              => AtStore(c) /\ (queue' = Tail(queue) \/ queue' = Append(Tail(queue), c))
            BY DEF GetThread, CreateThread, SaveTurn, FailedGet, FailedSave, ArchiveGet, ArchiveSave
        <3> QED BY <1>2, <3>1, <3>2 DEF Handles
    <2> QED BY <2>1, <2>2, QueueTyped
<1>3. ASSUME NEW c \in Calls, Comes(c) PROVE queue' \in Seq(Calls) /\ told' = told
    <2>1. told' = told /\ (queue' = queue \/ queue' = Append(queue, c))
        BY <1>3 DEF Comes, Replay, Request, Archive, Issued
    <2> QED BY <2>1, QueueTyped
<1>4. ASSUME NEW c \in Calls, TurnActs(c) PROVE queue' \in Seq(Calls) /\ told' \in [Calls -> TurnStatus]
    BY <1>4, ActsMove DEF Changed
<1>5. Elsewhere => (queue' = queue \/ queue' = <<>>) /\ told' = told
    BY DEF Elsewhere, Connect, Disconnect, Restart, Cancel, vars
<1>6. Elsewhere => queue' \in Seq(Calls) /\ told' \in [Calls -> TurnStatus]
    <2>1. <<>> \in Seq(Calls)
        OBVIOUS
    <2>2. ASSUME Elsewhere PROVE queue' \in Seq(Calls)
        <3>1. CASE queue' = queue
            BY <1>1, <3>1
        <3>2. CASE queue' = <<>>
            BY <2>1, <3>2
        <3> QED BY <1>5, <2>2, <3>1, <3>2
    <2> QED BY <1>1, <1>5, <2>2
<1>7. ASSUME NEW c \in Calls, Handles(c) \/ Comes(c) PROVE queue' \in Seq(Calls) /\ told' \in [Calls -> TurnStatus]
    BY <1>1, <1>2, <1>3, <1>7
<1> QED BY <1>4, <1>6, <1>7, NextIs

LEMMA DiskSet ==
    ASSUME TypeInv, NEW c \in Calls, call[c].th \in Threads, NEW rec \in Record, disk' = [disk EXCEPT ![call[c].th] = rec]
    PROVE  disk' \in [Threads -> Record]
BY DEF TypeInv, TypeOK

LEMMA FinishedTyped ==
    ASSUME TypeInv, NEW rec \in Record, NEW t \in Calls, NEW status \in TurnStatus
    PROVE  Finished(rec, t, status) \in Record
BY RecordsTyped DEF Finished

LEMMA DiskStep ==
    ASSUME TypeInv, [Next]_vars, \A c \in Calls : call[c].pc = "create" => Op[c] = "start"
    PROVE  disk' \in [Threads -> Record]
<1>1. disk \in [Threads -> Record]
    BY DEF TypeInv, TypeOK
<1>2. ASSUME NEW c \in Calls, Ingest(c) \/ GetThread(c) \/ Validate(c) \/ Streamed(c) \/ FailedGet(c) \/ Replayed(c) \/ ArchiveGet(c) \/ Comes(c)
      PROVE  UNCHANGED disk
    BY <1>2 DEF Ingest, GetThread, Validate, Streamed, FailedGet, Replayed, ArchiveGet, Comes, Replay, Request, Archive
<1>3. ASSUME NEW c \in Calls, CreateThread(c)
      PROVE  disk' \in [Threads -> Record]
    <2>1. c \in Threads
        BY <1>3 DEF CreateThread, Threads
    <2>2. PICK rec \in Record : rec = [NoRecord EXCEPT !.exists = TRUE]
        BY RecordsTyped
    <2>3. UNCHANGED disk \/ disk' = [disk EXCEPT ![c] = rec]
        BY <1>3, <2>2 DEF CreateThread
    <2> QED BY <1>1, <2>1, <2>2, <2>3
<1>4. ASSUME NEW c \in Calls, SaveTurn(c)
      PROVE  disk' \in [Threads -> Record]
    <2>1. call[c].th \in Threads
        BY <1>4, ThreadTyped DEF SaveTurn, Holding
    <2>2. PICK rec \in Record : rec = Started(call[c].rec, c)
        BY RecordsTyped, CallTyped DEF Started, TurnStatus
    <2>3. UNCHANGED disk \/ disk' = [disk EXCEPT ![call[c].th] = rec]
        BY <1>4, <2>2 DEF SaveTurn
    <2> QED BY <1>1, <2>1, <2>2, <2>3, DiskSet
<1>5. ASSUME NEW c \in Calls, FailedSave(c)
      PROVE  disk' \in [Threads -> Record]
    <2>1. call[c].th \in Threads
        BY <1>5, ThreadTyped DEF FailedSave, Holding
    <2>2. PICK rec \in Record : rec = Finished(call[c].rec, c, "failed")
        BY FinishedTyped, CallTyped DEF TurnStatus
    <2>3. UNCHANGED disk \/ disk' = [disk EXCEPT ![call[c].th] = rec]
        BY <1>5, <2>2 DEF FailedSave
    <2> QED BY <1>1, <2>1, <2>2, <2>3, DiskSet
<1>6. ASSUME NEW c \in Calls, ArchiveSave(c)
      PROVE  disk' \in [Threads -> Record]
    <2>1. call[c].th \in Threads
        BY <1>6, ThreadTyped DEF ArchiveSave, Holding
    <2>2. PICK rec \in Record : rec = [call[c].rec EXCEPT !.archived = TRUE]
        BY RecordsTyped, CallTyped
    <2>3. UNCHANGED disk \/ disk' = [disk EXCEPT ![call[c].th] = rec]
        BY <1>6, <2>2 DEF ArchiveSave
    <2> QED BY <1>1, <2>1, <2>2, <2>3, DiskSet
<1>7. ASSUME NEW t \in Calls, SdkGet(t) \/ Broken(t) \/ Emitted(t) \/ FinishGet(t) \/ Close(t) \/ ThreadStarted(t) \/ Progress(t) \/ Completed(t)
      PROVE  UNCHANGED disk
    BY <1>7 DEF SdkGet, Broken, Emitted, FinishGet, Close, ThreadStarted, Progress, Completed
<1>8. ASSUME NEW t \in Calls, SdkSave(t)
      PROVE  disk' \in [Threads -> Record]
    <2>1. call[t].th \in Threads
        BY <1>8, ThreadTyped DEF SdkSave, At, OverPC
    <2>2. PICK rec \in Record : rec = [turn[t].rec EXCEPT !.sdk = TRUE]
        BY RecordsTyped, CallTyped
    <2>3. UNCHANGED disk \/ disk' = [disk EXCEPT ![call[t].th] = rec]
        BY <1>8, <2>2 DEF SdkSave
    <2> QED BY <1>1, <2>1, <2>2, <2>3, DiskSet
<1>9. ASSUME NEW t \in Calls, FinishSave(t)
      PROVE  disk' \in [Threads -> Record]
    <2>1. call[t].th \in Threads
        BY <1>9, ThreadTyped DEF FinishSave, At, OverPC
    <2>2. PICK rec \in Record : rec = Finished(turn[t].rec, t, Status(t))
        BY FinishedTyped, CallTyped DEF TurnStatus, Status
    <2>3. UNCHANGED disk \/ disk' = [disk EXCEPT ![call[t].th] = rec]
        BY <1>9, <2>2 DEF FinishSave
    <2> QED BY <1>1, <2>1, <2>2, <2>3, DiskSet
<1>10. Restart => disk' \in [Threads -> Record]
    BY <1>1, RecordsTyped DEF Restart
<1>11. Elsewhere /\ ~Restart => UNCHANGED disk
    BY DEF Elsewhere, Connect, Disconnect, Cancel, vars
<1> QED BY <1>1, <1>2, <1>3, <1>4, <1>5, <1>6, <1>7, <1>8, <1>9, <1>10, <1>11, NextIs DEF Handles, TurnActs, TurnStep, Elsewhere

\* What a call asks for decides how it goes on.
OpsFit(c) ==
    /\ call[c].pc \in Holding /\ Op[c] = "start" => call[c].th = c
    /\ call[c].pc = "get" => Op[c] # "start"
    /\ call[c].pc \in Holding \ {"archget", "archsave"} => Op[c] # "archive"
    /\ call[c].pc = "create" => Op[c] = "start"
OpsInv == \A c \in Calls : OpsFit(c)
OpMove(c) ==
    /\ call[c].pc = "ingest" /\ call'[c].pc = "get" => Op[c] # "start"
    /\ call[c].pc = "validate" /\ call'[c].pc = "create" => Op[c] = "start"
    /\ call[c].pc = "validate" /\ call'[c].pc = "save" => Op[c] # "start" /\ ~Busy(call[c].rec, call[c].th)

LEMMA HandlerAlone ==
    ASSUME TypeInv, NEW d \in Calls, Handles(d), NEW c \in Calls, c # d
    PROVE  call'[c] = call[c]
<1>1. \A pc : Goto(d, pc) => call'[c] = call[c]
    BY CallTyped DEF Goto
<1>2. \A pc, rec : call' = [call EXCEPT ![d].pc = pc, ![d].rec = rec] => call'[c] = call[c]
    BY CallTyped
<1>3. Ingest(d) \/ Replayed(d) \/ ArchiveSave(d) \/ Streamed(d) \/ SaveTurn(d) \/ FailedSave(d) \/ Validate(d) => \E pc : Goto(d, pc)
    BY DEF Ingest, Replayed, ArchiveSave, Streamed, SaveTurn, FailedSave, Validate, Reject, Launch
<1>4. FailedGet(d) => call'[c] = call[c]
    BY <1>2 DEF FailedGet
<1>5. GetThread(d) => call'[c] = call[c]
    BY <1>1, <1>2 DEF GetThread, Reject
<1>6. CreateThread(d) => call'[c] = call[c]
    BY <1>1, <1>2 DEF CreateThread, Reject
<1>7. ArchiveGet(d) => call'[c] = call[c]
    BY <1>1, <1>2 DEF ArchiveGet
<1> QED BY <1>1, <1>3, <1>4, <1>5, <1>6, <1>7 DEF Handles

LEMMA ActorIs ==
    ASSUME TypeInv, [Next]_vars, NEW c \in Calls, call[c].pc \in Holding, call'[c].pc # call[c].pc
    PROVE  Handles(c) \/ Restart
<1>1. ASSUME NEW d \in Calls, d # c, Handles(d) PROVE FALSE
    BY <1>1, HandlerAlone
<1>2. ASSUME NEW d \in Calls, Comes(d) PROVE FALSE
    <2>1. call[d].pc = "idle"
        BY <1>2 DEF Comes, Replay, Request, Archive
    <2>2. d # c
        BY <2>1 DEF Holding
    <2>3. call'[c] = call[c]
        BY <1>2, <2>2, CallTyped DEF Comes, Replay, Request, Archive
    <2> QED BY <2>3
<1>3. ASSUME NEW t \in Calls, TurnActs(t) PROVE FALSE
    <2>1. UNCHANGED call
        BY <1>3 DEF TurnActs, TurnStep, SdkGet, SdkSave, Broken, Emitted, FinishGet, FinishSave, Close, ThreadStarted, Progress, Completed
    <2> QED BY <2>1
<1>4. Elsewhere => Restart
    <2>1. Connect \/ Disconnect \/ (\E t \in Calls : Cancel(t)) \/ UNCHANGED vars => UNCHANGED call
        BY DEF Connect, Disconnect, Cancel, vars
    <2> QED BY <2>1 DEF Elsewhere
<1> QED BY <1>1, <1>2, <1>3, <1>4, NextIs

LEMMA OpMoves ==
    ASSUME TypeInv, [Next]_vars, NEW c \in Calls
    PROVE  OpMove(c)
<1> SUFFICES ASSUME call[c].pc \in {"ingest", "validate"}, call'[c].pc \in {"get", "create", "save"} PROVE OpMove(c)
    BY DEF OpMove
<1>1. call[c].pc \in Holding /\ call'[c].pc # call[c].pc
    BY DEF Holding
<1>2. ~Restart
    <2>1. Restart => call'[c].pc = "error"
        <3>1. call[c] \in CallState /\ ~Settled(c)
            BY CallTyped DEF Settled
        <3>2. Restart => call'[c] = [call[c] EXCEPT !.pc = "error", !.rec = NoRecord]
            BY <3>1 DEF Restart
        <3>3. \A s \in CallState : \A r : [s EXCEPT !.pc = "error", !.rec = r].pc = "error"
            BY DEF CallState
        <3> QED BY <3>1, <3>2, <3>3
    <2> QED BY <2>1
<1>3. Ingest(c) \/ Validate(c)
    BY <1>1, <1>2, ActorIs DEF Handles, GetThread, CreateThread, SaveTurn, Streamed, FailedGet, FailedSave, Replayed, ArchiveGet, ArchiveSave
<1>4. CASE Ingest(c)
    <2>1. (Op[c] = "start" /\ Goto(c, "validate")) \/ (Op[c] # "start" /\ Goto(c, "get")) \/ Goto(c, "error")
        BY <1>4 DEF Ingest
    <2>2. call[c].pc = "ingest" /\ (Op[c] = "start" /\ Goto(c, "validate") => call'[c].pc = "validate")
        BY <1>4, GotoMoves DEF Moves, CallPC, Ingest
    <2>3. Goto(c, "error") => call'[c].pc = "error"
        BY GotoMoves DEF Moves, CallPC
    <2> QED BY <2>1, <2>2, <2>3 DEF OpMove
<1>5. CASE Validate(c)
    <2>1. \/ Goto(c, "error") \/ Goto(c, "stream")
          \/ Op[c] = "start" /\ Goto(c, "create")
          \/ Op[c] # "start" /\ ~Busy(call[c].rec, call[c].th) /\ Goto(c, "save")
        BY <1>5 DEF Validate, Reject, Launch
    <2>2. call[c].pc = "validate"
        BY <1>5 DEF Validate
    <2>3. \A pc \in {"error", "stream", "create", "save"} : Goto(c, pc) => call'[c].pc = pc
        BY GotoMoves DEF Moves, CallPC
    <2> QED BY <2>1, <2>2, <2>3 DEF OpMove
<1> QED BY <1>3, <1>4, <1>5

LEMMA OpsStep ==
    ASSUME TypeInv, OpsInv, [Next]_vars
    PROVE  OpsInv'
<1> SUFFICES ASSUME NEW c \in Calls PROVE OpsFit(c)'
    BY DEF OpsInv
<1>1. Op' = Op
    BY PlanKept
<1>2. CallMove(c) /\ OpMove(c) /\ OpsFit(c)
    BY CallsStep, OpMoves DEF CallMoves, OpsInv
<1>3. CASE call'[c] = call[c]
    BY <1>1, <1>2, <1>3 DEF OpsFit
<1>4. CASE Enters(c)
    BY <1>1, <1>4 DEF OpsFit, Enters, Holding
<1>5. CASE Follows(call[c].pc, call'[c].pc) /\ call'[c].th = call[c].th
    BY <1>1, <1>2, <1>5 DEF OpsFit, OpMove, Follows, Holding
<1>6. CASE call'[c].pc = "error"
    BY <1>1, <1>6 DEF OpsFit, Holding
<1> QED BY <1>2, <1>3, <1>4, <1>5, <1>6 DEF CallMove

LEMMA CleanupTyped ==
    ASSUME TypeInv, NEW c \in Calls, Cleanup(c)
    PROVE  dirs' \subseteq Calls /\ lost' \subseteq Calls
BY DEF Cleanup, TypeInv, TypeOK

LEMMA HandlersRest ==
    ASSUME TypeInv, NEW c \in Calls, Handles(c)
    PROVE  /\ dirs' \subseteq Calls /\ lost' \subseteq Calls /\ stuck' \subseteq Threads
           /\ UNCHANGED <<ledger, conn, opened, crashes>>
<1>1. dirs \subseteq Calls /\ lost \subseteq Calls /\ stuck \subseteq Threads
    BY DEF TypeInv, TypeOK
<1>2. UNCHANGED <<ledger, conn, opened, crashes>>
    BY DEF Handles, Ingest, GetThread, Validate, CreateThread, SaveTurn, Streamed, FailedGet, FailedSave, Replayed, ArchiveGet,
           ArchiveSave, stream
<1>3. Ingest(c) \/ FailedGet(c) \/ Replayed(c) \/ ArchiveGet(c) \/ ArchiveSave(c) => UNCHANGED stuck /\ dirs' \subseteq dirs \cup {c} /\ lost' = lost
    BY DEF Ingest, FailedGet, Replayed, ArchiveGet, ArchiveSave, files
<1>4. ASSUME Launch(c), call[c].pc \in Holding PROVE stuck' \subseteq Threads /\ (UNCHANGED files \/ Cleanup(c))
    <2>1. stuck' = stuck \/ stuck' = stuck \cup {call[c].th}
        BY <1>4 DEF Launch
    <2>2. call[c].th \in Threads
        BY <1>4, ThreadTyped
    <2>3. UNCHANGED files \/ Cleanup(c)
        BY <1>4 DEF Launch, Reject
    <2> QED BY <1>1, <2>1, <2>2, <2>3
<1>5. GetThread(c) \/ CreateThread(c) \/ Streamed(c) => UNCHANGED stuck /\ (UNCHANGED files \/ Cleanup(c))
    BY DEF GetThread, CreateThread, Streamed, Reject
<1>6. Validate(c) \/ SaveTurn(c) => (UNCHANGED stuck /\ (UNCHANGED files \/ Cleanup(c))) \/ (Launch(c) /\ call[c].pc \in Holding)
    BY DEF Validate, SaveTurn, Reject, Holding
<1>7. FailedSave(c) => stuck' \subseteq Threads /\ Cleanup(c)
    <2>1. FailedSave(c) => call[c].th \in Threads
        BY ThreadTyped DEF FailedSave, Holding
    <2> QED BY <1>1, <2>1 DEF FailedSave, Reject
<1>8. UNCHANGED files \/ Cleanup(c) => dirs' \subseteq Calls /\ lost' \subseteq Calls
    BY <1>1, CleanupTyped DEF files
<1> QED BY <1>1, <1>2, <1>3, <1>4, <1>5, <1>6, <1>7, <1>8 DEF Handles

LEMMA RestStep ==
    ASSUME TypeInv, [Next]_vars
    PROVE  /\ plan' \in Plans /\ ledger' \subseteq Calls /\ dirs' \subseteq Calls /\ lost' \subseteq Calls
           /\ conn' \in 0..MaxConn /\ opened' \in 0..MaxConn /\ stuck' \subseteq Threads /\ crashes' \in 0..MaxCrash
<1> DEFINE Fine == /\ ledger' \subseteq Calls /\ dirs' \subseteq Calls /\ lost' \subseteq Calls
                   /\ conn' \in 0..MaxConn /\ opened' \in 0..MaxConn /\ stuck' \subseteq Threads /\ crashes' \in 0..MaxCrash
<1>1. /\ plan \in Plans /\ ledger \subseteq Calls /\ dirs \subseteq Calls /\ lost \subseteq Calls
      /\ conn \in 0..MaxConn /\ opened \in 0..MaxConn /\ stuck \subseteq Threads /\ crashes \in 0..MaxCrash
    BY DEF TypeInv, TypeOK
<1>2. plan' \in Plans
    BY <1>1, PlanKept
<1>3. ASSUME NEW c \in Calls, Handles(c) PROVE Fine
    BY <1>1, <1>3, HandlersRest
<1>4. ASSUME NEW c \in Calls, Comes(c) PROVE Fine
    <2>1. UNCHANGED <<dirs, lost, conn, opened, stuck, crashes>> /\ (ledger' = ledger \/ ledger' = ledger \cup {c})
        BY <1>4 DEF Comes, Replay, Request, Archive, files, stream
    <2> QED BY <1>1, <2>1
<1>5. ASSUME NEW t \in Calls, TurnActs(t) PROVE Fine
    <2>1. UNCHANGED <<ledger, conn, opened, crashes>>
        BY <1>5 DEF TurnActs, TurnStep, SdkGet, SdkSave, Broken, Emitted, FinishGet, FinishSave, Close, ThreadStarted, Progress,
                    Completed, stream
    <2>2. (Close(t) /\ Cleanup(t)) \/ UNCHANGED <<dirs, lost>>
        BY <1>5 DEF TurnActs, TurnStep, SdkGet, SdkSave, Broken, Emitted, FinishGet, FinishSave, Close, ThreadStarted, Progress,
                    Completed, files
    <2>3. (turn[t].pc = "finsave" /\ stuck' = stuck \cup {call[t].th}) \/ UNCHANGED stuck
        BY <1>5 DEF TurnActs, TurnStep, SdkGet, SdkSave, Broken, Emitted, FinishGet, FinishSave, Close, ThreadStarted, Progress,
                    Completed, At
    <2>4. stuck' \subseteq Threads
        BY <1>1, <2>3, ThreadTyped DEF OverPC
    <2> QED BY <1>1, <2>1, <2>2, <2>4, CleanupTyped
<1>6. ASSUME Connect PROVE Fine
    <2>1. UNCHANGED <<ledger, dirs, lost, stuck, crashes>>
        BY <1>6 DEF Connect, files
    <2>2. opened < MaxConn /\ opened' = opened + 1 /\ conn' = opened'
        BY <1>6 DEF Connect
    <2>3. opened' \in 0..MaxConn
        BY <1>1, <2>2, LocalAssumption
    <2> QED BY <1>1, <2>1, <2>2, <2>3
<1>7. Disconnect \/ (\E t \in Calls : Cancel(t)) \/ UNCHANGED vars => Fine
    <2>1. Disconnect \/ (\E t \in Calls : Cancel(t)) \/ UNCHANGED vars
          => UNCHANGED <<ledger, dirs, lost, opened, stuck, crashes>> /\ (conn' = conn \/ conn' = 0)
        BY DEF Disconnect, Cancel, vars, files, stream
    <2> QED BY <1>1, <2>1, LocalAssumption
<1>8. ASSUME Restart PROVE Fine
    <2>1. ledger' = {} /\ stuck' = {} /\ dirs' = dirs /\ lost' = dirs /\ conn' = 0 /\ opened' = opened
        BY <1>8 DEF Restart
    <2>2. crashes < MaxCrash /\ crashes' = crashes + 1
        BY <1>8 DEF Restart
    <2>3. crashes' \in 0..MaxCrash
        BY <1>1, <2>2, LocalAssumption
    <2> QED BY <1>1, <2>1, <2>3, LocalAssumption
<1> HIDE DEF Fine
<1>9. Fine
    BY <1>3, <1>4, <1>5, <1>6, <1>7, <1>8, NextIs DEF Elsewhere
<1> QED BY <1>2, <1>9 DEF Fine

\* A turn whose stream was awaited goes on, or is not active any more.
LEMMA StreamedMoves ==
    ASSUME TypeInv, [Next]_vars, NEW c \in Calls, call[c].pc = "stream", call'[c].pc # "stream"
    PROVE  (call'[c].pc = "ok" /\ turn'[c].pc = "read") \/ c \notin active'
<1>1. Handles(c) \/ Restart
    BY ActorIs DEF Holding
<1>2. Restart => c \notin active'
    BY DEF Restart
<1>3. Handles(c) => Streamed(c)
    BY DEF Handles, Ingest, GetThread, Validate, CreateThread, SaveTurn, FailedGet, FailedSave, Replayed, ArchiveGet, ArchiveSave
<1>4. Streamed(c) => (Goto(c, "ok") /\ turn' = [turn EXCEPT ![c].pc = "read"]) \/ c \notin active'
    BY DEF Streamed
<1>5. Goto(c, "ok") => call'[c].pc = "ok"
    BY GotoMoves DEF Moves, CallPC
<1>6. turn' = [turn EXCEPT ![c].pc = "read"] => turn'[c].pc = "read"
    BY CallTyped DEF TurnState
<1> QED BY <1>1, <1>2, <1>3, <1>4, <1>5, <1>6

LEMMA TypeStep ==
    ASSUME TypeInv, OpsInv, [Next]_vars
    PROVE  TypeInv'
<1>1. plan' = plan /\ Op' = Op /\ Threads' = Threads
    BY PlanKept
<1>2. CallMoves /\ TurnMoves /\ ActiveMoves
    BY CallsStep, TurnsStep, ActiveStep DEF OpsInv, OpsFit, Holding
<1>3. TypeOK'
    <2>1. call' \in [Calls -> CallState] /\ turn' \in [Calls -> TurnState] /\ active' \subseteq Calls
        BY <1>2 DEF CallMoves, TurnMoves, ActiveMoves
    <2>2. disk' \in [Threads -> Record]
        BY DiskStep DEF OpsInv, OpsFit
    <2> QED BY <1>1, <2>1, <2>2, QueueStep, RestStep DEF TypeOK
<1>4. CallsMeant'
    <2>1. ASSUME NEW c \in Calls, call'[c].pc \in Holding PROVE call'[c].th \in Threads
        <3>1. CallMove(c)
            BY <1>2 DEF CallMoves
        <3>2. call[c].pc \in Holding => call[c].th \in Threads
            BY ThreadTyped
        <3> QED BY <2>1, <3>1, <3>2 DEF CallMove, Enters, Follows, Holding
    <2> QED BY <1>1, <2>1 DEF CallsMeant
<1>5. ASSUME NEW t \in Calls, call[t].pc = "ok" PROVE call'[t] = call[t]
    <2>1. CallMove(t)
        BY <1>2 DEF CallMoves
    <2> QED BY <1>5, <2>1 DEF CallMove, Enters, Follows, Settled
<1>6. TurnsMeant'
    <2>1. ASSUME NEW t \in Calls
          PROVE  /\ turn'[t].pc # "none" => call'[t].pc = "ok"
                 /\ turn'[t].pc \notin OverPC => call'[t].th \in Threads
                 /\ turn'[t].pc = "none" => turn'[t] = NoTurn
        <3>1. TurnMove(t)
            BY <1>2 DEF TurnMoves
        <3>2. /\ turn[t].pc # "none" => call[t].pc = "ok"
              /\ turn[t].pc \notin OverPC => call[t].th \in Threads
              /\ turn[t].pc = "none" => turn[t] = NoTurn
            BY DEF TypeInv, TurnsMeant
        <3>3. CASE Keeps(t)
            BY <1>5, <3>2, <3>3 DEF Keeps, OverPC
        <3>4. CASE Begins(t)
            <4>1. call[t].th \in Threads
                BY <3>4, ThreadTyped DEF Begins, Holding
            <4>2. call'[t].th = call[t].th
                <5>1. CallMove(t)
                    BY <1>2 DEF CallMoves
                <5> QED BY <3>4, <5>1 DEF CallMove, Enters, Begins
            <4>3. turn'[t].pc = "read"
                BY <3>4 DEF Begins, NoTurn
            <4> QED BY <3>4, <4>1, <4>2, <4>3 DEF Begins
        <3>5. CASE Speaks(t) \/ Continues(t) \/ Leaves(t)
            BY <1>5, <3>2, <3>5 DEF Speaks, Continues, Leaves, OverPC
        <3>6. CASE Dies(t)
            <4>1. NoTurn.pc = "none" /\ [NoTurn EXCEPT !.pc = "done"].pc = "done"
                BY DEF NoTurn
            <4> QED BY <1>5, <3>2, <3>6, <4>1 DEF Dies, OverPC
        <3> QED BY <3>1, <3>3, <3>4, <3>5, <3>6 DEF TurnMove
    <2> QED BY <1>1, <2>1 DEF TurnsMeant
<1>7. ActiveMeant'
    <2>1. ASSUME NEW t \in active'
          PROVE  call'[t].pc \in {"stream", "error"} \/ (call'[t].pc = "ok" /\ turn'[t].pc # "none")
        <3>1. t \in Calls /\ ActiveMove(t) /\ CallMove(t) /\ TurnMove(t)
            BY <1>2 DEF ActiveMoves, CallMoves, TurnMoves
        <3>2. CASE t \notin active
            BY <2>1, <3>1, <3>2 DEF ActiveMove, Launches
        <3>3. CASE t \in active /\ call[t].pc = "stream"
            BY <2>1, <3>1, <3>3, StreamedMoves
        <3>4. CASE t \in active /\ call[t].pc = "error"
            BY <3>1, <3>4 DEF CallMove, Enters, Follows, Settled
        <3>5. CASE t \in active /\ call[t].pc = "ok" /\ turn[t].pc # "none"
            <4>1. turn'[t].pc # "none"
                BY <2>1, <3>1, <3>5 DEF TurnMove, Keeps, Begins, Speaks, Continues, Leaves, Dies
            <4> QED BY <1>5, <3>1, <3>5, <4>1
        <3> QED BY <3>1, <3>2, <3>3, <3>4, <3>5 DEF TypeInv, ActiveMeant
    <2> QED BY <2>1 DEF ActiveMeant
<1> QED BY <1>3, <1>4, <1>6, <1>7 DEF TypeInv

LEMMA TypeInit == Init => TypeInv /\ OpsInv
<1> SUFFICES ASSUME Init PROVE TypeInv /\ OpsInv
    OBVIOUS
<1>1. /\ call = [c \in Calls |-> [pc |-> "idle", th |-> c, rec |-> NoRecord, met |-> {}]] /\ turn = [c \in Calls |-> NoTurn]
      /\ disk = [th \in Threads |-> NoRecord] /\ plan \in Plans /\ queue = <<>> /\ active = {}
    BY DEF Init
<1>2. call \in [Calls -> CallState] /\ \A c \in Calls : call[c].pc = "idle"
    BY <1>1, RecordsTyped DEF CallState, CallPC
<1>3. turn \in [Calls -> TurnState] /\ \A t \in Calls : turn[t] = NoTurn /\ turn[t].pc = "none"
    <2>1. NoTurn.pc = "none"
        BY DEF NoTurn
    <2> QED BY <1>1, <2>1, RecordsTyped
<1>4. TypeOK
    <2>1. queue \in Seq(Calls)
        BY <1>1
    <2> QED BY <1>1, <1>2, <1>3, <2>1, RecordsTyped, LocalAssumption DEF Init, TypeOK, TurnStatus
<1> QED BY <1>1, <1>2, <1>3, <1>4 DEF TypeInv, CallsMeant, TurnsMeant, ActiveMeant, OpsInv, OpsFit, Holding, OverPC

\* Every variable keeps to its type; a call or a turn that will write a
\* record has a thread.
THEOREM TypeCorrect == Spec => []TypeOK
<1>1. TypeInv /\ OpsInv /\ [Next]_vars => (TypeInv /\ OpsInv)'
    BY TypeStep, OpsStep
<1> QED BY <1>1, TypeInit, PTL DEF Spec, TypeInv

----------------------------------------------------------------------------
(* No turn beside one that was met *)

\* The thread a start will create has no record yet, and no one else names it.
Born(th) == Op[th] = "start" /\ call[th].pc \in {"idle", "ingest", "validate", "create"}
Uses(c) == call[c].pc \in Holding \/ c \in active \/ turn[c].pc \notin OverPC
BornInv == \A th \in Threads : disk[th].exists => ~Born(th)
UseInv == \A c \in Calls : Uses(c) /\ call[c].th # c => ~Born(call[c].th)
\* One call is at work: what requests that come one at a time give.
OneCaller == \A c, d \in Calls : call[c].pc \in Holding /\ call[d].pc \in Holding => c = d
LocalInv == TypeInv /\ OpsInv

LEMMA StepMoves ==
    ASSUME LocalInv, [Next]_vars, NEW c \in Calls
    PROVE  CallMove(c) /\ TurnMove(c) /\ ActiveMove(c) /\ Op' = Op /\ Threads' = Threads
BY CallsStep, TurnsStep, ActiveStep, PlanKept DEF LocalInv, OpsInv, OpsFit, Holding, CallMoves, TurnMoves, ActiveMoves

\* A thread's record comes into being when its start creates it; every other
\* write is of one who uses the thread.
Writes(c) == call[c].pc \in {"save", "failsave", "archsave"} \/ turn[c].pc \notin OverPC

LEMMA RecoveredExists ==
    ASSUME NEW rec \in Record
    PROVE  Recovered(rec).exists = rec.exists
BY DEF Recovered, Record

LEMMA RecordAppears ==
    ASSUME LocalInv, [Next]_vars, NEW th \in Threads, disk'[th].exists, ~disk[th].exists
    PROVE  \/ call[th].pc = "create" /\ call'[th].pc = "save" /\ Handles(th)
           \/ \E c \in Calls : Writes(c) /\ call[c].th = th
<1>0. TypeInv /\ OpsInv /\ disk \in [Threads -> Record]
    BY DEF LocalInv, TypeInv, TypeOK
<1>1. ASSUME NEW c \in Calls, Ingest(c) \/ GetThread(c) \/ Validate(c) \/ Streamed(c) \/ FailedGet(c) \/ Replayed(c) \/ ArchiveGet(c) \/ Comes(c)
      PROVE  UNCHANGED disk
    BY <1>1 DEF Ingest, GetThread, Validate, Streamed, FailedGet, Replayed, ArchiveGet, Comes, Replay, Request, Archive
<1>2. ASSUME NEW c \in Calls, CreateThread(c)
      PROVE  call[th].pc = "create" /\ call'[th].pc = "save" /\ Handles(th)
    <2>1. PICK rec \in Record : rec = [NoRecord EXCEPT !.exists = TRUE]
        BY RecordsTyped
    <2>2. call[c].pc = "create" /\ (UNCHANGED disk \/ (disk' = [disk EXCEPT ![c] = rec] /\ call' = [call EXCEPT ![c].pc = "save", ![c].rec = rec]))
        BY <1>2, <2>1 DEF CreateThread
    <2>3. c = th
        BY <1>0, <2>2
    <2>4. call' = [call EXCEPT ![c].pc = "save", ![c].rec = rec] => call'[c].pc = "save"
        BY <1>0, TakesMoves DEF Moves, CallPC
    <2> QED BY <1>2, <2>2, <2>3, <2>4 DEF Handles
<1>3. ASSUME NEW c \in Calls, SaveTurn(c) \/ FailedSave(c) \/ ArchiveSave(c) \/ SdkSave(c) \/ FinishSave(c)
      PROVE  Writes(c) /\ call[c].th = th
    <2>1. Writes(c)
        BY <1>3 DEF SaveTurn, FailedSave, ArchiveSave, SdkSave, FinishSave, Writes, At, OverPC
    <2>2. UNCHANGED disk \/ \E rec : disk' = [disk EXCEPT ![call[c].th] = rec]
        BY <1>3 DEF SaveTurn, FailedSave, ArchiveSave, SdkSave, FinishSave
    <2> QED BY <1>0, <2>1, <2>2
<1>4. ASSUME NEW t \in Calls, SdkGet(t) \/ Broken(t) \/ Emitted(t) \/ FinishGet(t) \/ Close(t) \/ ThreadStarted(t) \/ Progress(t) \/ Completed(t)
      PROVE  UNCHANGED disk
    BY <1>4 DEF SdkGet, Broken, Emitted, FinishGet, Close, ThreadStarted, Progress, Completed
<1>5. Restart => disk'[th].exists = disk[th].exists
    BY <1>0, RecoveredExists DEF Restart
<1>6. Elsewhere /\ ~Restart => UNCHANGED disk
    BY DEF Elsewhere, Connect, Disconnect, Cancel, vars
<1> QED BY <1>1, <1>2, <1>3, <1>4, <1>5, <1>6, NextIs DEF Handles, TurnActs, TurnStep, Elsewhere

LEMMA BornBefore ==
    ASSUME LocalInv, [Next]_vars, NEW c \in Calls, Born(c)'
    PROVE  Born(c)
<1>1. CallMove(c) /\ Op' = Op
    BY StepMoves
<1>2. Op[c] = "start" /\ call'[c].pc \in {"idle", "ingest", "validate", "create"}
    BY <1>1 DEF Born
<1>3. call[c].pc \in {"idle", "ingest", "validate", "create"}
    <2>1. Follows(call[c].pc, call'[c].pc) => call[c].pc \in {"ingest", "get", "validate"}
        BY <1>2 DEF Follows
    <2>2. call[c].pc # "get"
        BY <1>2 DEF LocalInv, OpsInv, OpsFit
    <2> QED BY <1>1, <1>2, <2>1, <2>2 DEF CallMove, Enters
<1> QED BY <1>2, <1>3 DEF Born

\* Who uses a thread keeps to it, and comes to use it when its record is
\* there or it is the one to create it.
LEMMA UseBefore ==
    ASSUME LocalInv, [Next]_vars, NEW c \in Calls, Uses(c)', call'[c].th # c
    PROVE  /\ call'[c].th \in Calls
           /\ (Uses(c) /\ call'[c].th = call[c].th) \/ (call'[c].th \in Threads /\ disk[call'[c].th].exists)
<1>0. CallMove(c) /\ TurnMove(c) /\ ActiveMove(c) /\ call' \in [Calls -> CallState]
    BY StepMoves, CallsStep DEF LocalInv, CallMoves
<1>1. call'[c].th \in Calls
    BY <1>0 DEF CallState
<1>2. CASE Uses(c)
    <2>1. call[c].pc # "idle"
        BY <1>2 DEF Uses, Holding, LocalInv, TypeInv, ActiveMeant, TurnsMeant, OverPC
    <2>2. call'[c].th = call[c].th
        BY <1>0, <2>1 DEF CallMove, Enters
    <2> QED BY <1>1, <1>2, <2>2
<1>3. CASE ~Uses(c)
    <2>2. c \notin active' /\ turn'[c].pc \in OverPC
        <3>1. ~Launches(c) /\ ~Begins(c)
            BY <1>3 DEF Uses, Launches, Begins, Holding
        <3>2. Dies(c) => turn'[c].pc \in OverPC
            BY DEF Dies, OverPC, NoTurn
        <3> QED BY <1>0, <1>3, <3>1, <3>2 DEF Uses, ActiveMove, TurnMove, Keeps, Speaks, Continues, Leaves, OverPC
    <2>3. call'[c].pc \in Holding
        BY <2>2 DEF Uses
    <2>4. Enters(c)
        BY <1>0, <1>3, <2>3 DEF Uses, CallMove, Follows, Holding
    <2> QED BY <1>1, <2>3, <2>4 DEF Enters, Holding
<1> QED BY <1>2, <1>3

LEMMA BornStep ==
    ASSUME LocalInv, BornInv, UseInv, [Next]_vars
    PROVE  BornInv' /\ UseInv'
<1>1. ASSUME NEW th \in Threads, disk'[th].exists, Born(th)' PROVE FALSE
    <2>1. th \in Calls /\ Born(th)
        BY <1>1, BornBefore, ThreadsAreCalls
    <2>2. ~disk[th].exists
        BY <2>1 DEF BornInv
    <2>3. ~(call'[th].pc = "save")
        BY <1>1 DEF Born
    <2>4. PICK c \in Calls : Writes(c) /\ call[c].th = th
        BY <1>1, <2>2, <2>3, RecordAppears
    <2>5. CASE c = th
        BY <2>1, <2>4, <2>5 DEF Born, Writes, LocalInv, TypeInv, TurnsMeant, OverPC
    <2>6. CASE c # th
        BY <2>1, <2>4, <2>6 DEF UseInv, Uses, Writes, Holding
    <2> QED BY <2>5, <2>6
<1>2. BornInv'
    <2>1. Threads' = Threads
        BY PlanKept
    <2> QED BY <1>1, <2>1 DEF BornInv
<1>3. ASSUME NEW c \in Calls, Uses(c)', call'[c].th # c, NEW th, th = call'[c].th, Born(th)' PROVE FALSE
    <2>1. th \in Calls
        BY <1>3, UseBefore
    <2>2. Born(th)
        BY <1>3, <2>1, BornBefore
    <2> QED BY <1>3, <2>2, UseBefore DEF UseInv, BornInv
<1>4. UseInv'
    <2> SUFFICES ASSUME NEW c \in Calls, Uses(c)', call'[c].th # c
                 PROVE  ~Born(call[c].th)'
        BY DEF UseInv
    <2>1. PICK th : th = call'[c].th
        OBVIOUS
    <2>2. ~Born(th)'
        BY <1>3, <2>1
    <2> QED BY <2>1, <2>2 DEF Born
<1> QED BY <1>2, <1>4

LEMMA CallerStep ==
    ASSUME LocalInv, OneCaller, Serial, [Next]_vars
    PROVE  OneCaller'
<1> SUFFICES ASSUME NEW c \in Calls, NEW d \in Calls, call'[c].pc \in Holding, call'[d].pc \in Holding
             PROVE  c = d
    BY DEF OneCaller
<1>1. ASSUME NEW e \in Calls, call'[e].pc \in Holding, call[e].pc \notin Holding
      PROVE  Enters(e) /\ \A b \in Calls : Settled(b)
    <2>1. Enters(e)
        BY <1>1, StepMoves DEF CallMove, Follows, Holding
    <2> QED BY <1>1, <2>1 DEF Enters, Holding
<1>2. CASE call[c].pc \in Holding /\ call[d].pc \in Holding
    BY <1>2 DEF OneCaller
<1>3. ASSUME NEW e \in Calls, NEW b \in Calls, call'[e].pc \in Holding, call'[b].pc \in Holding, call[e].pc \notin Holding
      PROVE  e = b
    <2>1. Enters(e) /\ Settled(b)
        BY <1>1, <1>3
    <2> QED BY <1>3, <2>1 DEF Enters, Settled, Holding
<1> QED BY <1>2, <1>3

\* Who is or becomes active has its thread.
LEMMA ActiveKeeps ==
    ASSUME LocalInv, [Next]_vars, NEW t \in active'
    PROVE  t \in Calls /\ call'[t].th = call[t].th /\ (t \in active \/ Launches(t))
<1>1. t \in Calls
    BY ActiveStep DEF LocalInv, OpsInv, OpsFit, Holding, ActiveMoves
<1>2. t \in active \/ Launches(t)
    BY <1>1, StepMoves DEF ActiveMove
<1>3. call[t].pc # "idle"
    BY <1>2 DEF LocalInv, TypeInv, ActiveMeant, Launches
<1>4. call'[t].th = call[t].th
    BY <1>1, <1>3, StepMoves DEF CallMove, Enters
<1> QED BY <1>1, <1>2, <1>4

LEMMA OneInit == Init => BornInv /\ UseInv /\ OneCaller
<1> SUFFICES ASSUME Init PROVE BornInv /\ UseInv /\ OneCaller
    OBVIOUS
<1>1. \A c \in Calls : call[c].pc = "idle" /\ call[c].th = c
    BY DEF Init
<1>2. \A th \in Threads : ~disk[th].exists
    BY DEF Init, NoRecord
<1>3. active = {}
    BY DEF Init
<1> QED BY <1>1, <1>2, <1>3 DEF BornInv, UseInv, OneCaller, Holding

\* A turn a call met had begun when it came.  A call that has passed
\* beginTurn's check met no turn that is still active in its thread.
MetInv == \A c \in Calls : \A u \in call[c].met : call[u].pc \in {"stream", "failget", "failsave", "ok", "error"}
Passed(c) == call[c].pc = "save" \/ c \in active
PassedInv ==
    \A c \in Calls, u \in active : (Passed(c) /\ u # c /\ call[u].th = call[c].th) => u \notin call[c].met

LEMMA MetStep ==
    ASSUME LocalInv, MetInv, [Next]_vars
    PROVE  MetInv'
<1> DEFINE Past == {"stream", "failget", "failsave", "ok", "error"}
<1> SUFFICES ASSUME NEW c \in Calls, NEW u \in call'[c].met
             PROVE  call'[u].pc \in Past
    BY DEF MetInv
<1>1. MetMove(c)
    BY StepMoves DEF CallMove
<1>2. u \in Calls /\ call[u].pc \in Past
    <2>1. call \in [Calls -> CallState] /\ active \subseteq Calls
        BY DEF LocalInv, TypeInv, TypeOK
    <2>2. call[c].met \subseteq Calls
        BY <2>1 DEF CallState
    <2>3. CASE u \in call[c].met
        BY <2>2, <2>3 DEF MetInv
    <2>4. CASE u \in active
        BY <2>1, <2>4 DEF LocalInv, TypeInv, ActiveMeant
    <2> QED BY <1>1, <2>3, <2>4 DEF MetMove
<1>3. CallMove(u)
    BY <1>2, StepMoves
<1> QED BY <1>2, <1>3 DEF CallMove, Enters, Follows

\* The check finds no active turn in the thread, and no one else uses the
\* thread of a start; a turn that begins later was met by nobody.
LEMMA PassedStep ==
    ASSUME LocalInv, UseInv, MetInv, PassedInv, [Next]_vars
    PROVE  PassedInv'
<1> SUFFICES ASSUME NEW c \in Calls, NEW u \in active', Passed(c)', u # c, call'[u].th = call'[c].th, u \in call'[c].met
             PROVE  FALSE
    BY DEF PassedInv
<1>1. u \in Calls /\ call'[u].th = call[u].th /\ (u \in active \/ Launches(u))
    BY ActiveKeeps
<1>2. CallMove(c) /\ OpMove(c) /\ ActiveMove(c) /\ call[c].pc # "idle"
    <2>1. CallMove(c) /\ OpMove(c) /\ ActiveMove(c)
        BY StepMoves, OpMoves DEF LocalInv
    <2>2. c \in active \/ Launches(c) => call[c].pc # "idle"
        BY DEF LocalInv, TypeInv, ActiveMeant, Launches
    <2>3. call'[c].pc = "save" => call[c].pc # "idle"
        BY <2>1 DEF CallMove, Enters, Follows
    <2> QED BY <2>1, <2>2, <2>3 DEF Passed, ActiveMove
<1>3. call'[c].th = call[c].th /\ call'[c].met = call[c].met
    BY <1>2 DEF CallMove, Enters, MetMove
<1>4. u \in active
    <2>1. call[u].pc \in {"stream", "failget", "failsave", "ok", "error"}
        BY <1>1, <1>3 DEF MetInv
    <2> QED BY <1>1, <2>1 DEF Launches
<1>5. \/ Passed(c) \/ call[c].pc = "create"
      \/ call[c].pc = "validate" /\ \A v \in active : call[v].th # call[c].th
    <2>1. CASE call'[c].pc = "save"
        BY <1>2, <2>1 DEF Passed, CallMove, Enters, Follows, OpMove, Busy
    <2>2. CASE c \in active'
        <3>1. c \in active \/ Launches(c)
            BY <1>2, <2>2 DEF ActiveMove
        <3>2. Launches(c) => call[c].pc = "save" \/ (call[c].pc = "validate" /\ \A v \in active : call[v].th # call[c].th)
            BY DEF Launches
        <3> QED BY <3>1, <3>2 DEF Passed
    <2> QED BY <2>1, <2>2 DEF Passed
<1>6. CASE Passed(c)
    BY <1>1, <1>3, <1>4, <1>6 DEF PassedInv
<1>7. CASE call[c].pc = "validate" /\ \A v \in active : call[v].th # call[c].th
    BY <1>1, <1>3, <1>4, <1>7
<1>8. CASE call[c].pc = "create"
    <2>1. Op[c] = "start" /\ call[c].th = c
        BY <1>8 DEF LocalInv, OpsInv, OpsFit, Holding
    <2> QED BY <1>1, <1>3, <1>4, <1>8, <2>1 DEF UseInv, Uses, Born
<1> QED BY <1>5, <1>6, <1>7, <1>8

\* However requests overlap, whatever fails and whenever the service
\* restarts: a request gets no turn beside one it met in its thread.
THEOREM NoneBeside == Spec => []NoTurnBeside
<1> DEFINE Inv == LocalInv /\ BornInv /\ UseInv /\ MetInv /\ PassedInv
<1>1. Init => Inv
    <2>1. Init => MetInv /\ PassedInv
        BY DEF Init, MetInv, PassedInv
    <2> QED BY <2>1, TypeInit, OneInit DEF LocalInv
<1>2. Inv /\ [Next]_vars => Inv'
    <2> SUFFICES ASSUME Inv, [Next]_vars PROVE Inv'
        OBVIOUS
    <2>1. LocalInv'
        BY TypeStep, OpsStep DEF LocalInv
    <2> QED BY <2>1, BornStep, MetStep, PassedStep
<1>3. Inv => NoTurnBeside
    BY DEF PassedInv, Passed, NoTurnBeside, LocalInv, TypeInv, TypeOK
<1> QED BY <1>1, <1>2, <1>3, PTL DEF Spec

----------------------------------------------------------------------------
(* No turn runs unseen *)

\* The consumer waits for Codex or the thread file, or writes what is not an
\* end.
Heard(t) == turn[t].pc \in {"read", "sdkget", "sdksave"} \/ (turn[t].pc = "emit" /\ turn[t].last \in Speaking)
HeardInv == \A t \in Calls : /\ Heard(t) => t \in active
                             /\ call[t].pc = "stream" => t \in active
                             /\ turn[t].pc = "emit" => turn[t].conn # 0

LEMMA NoTurnIs ==
    /\ NoTurn.pc = "none" /\ [NoTurn EXCEPT !.pc = "done"].pc = "done"
    /\ [NoTurn EXCEPT !.pc = "read"].pc = "read" /\ [NoTurn EXCEPT !.pc = "read"].fresh /\ [NoTurn EXCEPT !.pc = "read"].n = 0
BY DEF NoTurn

LEMMA StreamKept ==
    ASSUME LocalInv, [Next]_vars, NEW c \in active, call[c].pc = "stream", call'[c].pc = "stream"
    PROVE  c \in active'
<1>0. TypeInv /\ c \in Calls /\ turn[c].pc = "none"
    BY DEF LocalInv, TypeInv, TypeOK, TurnsMeant
<1>1. ASSUME NEW d \in Calls, Handles(d) PROVE c \in active'
    <2>1. active' = active \/ active' = active \cup {d} \/ Streamed(d)
        BY <1>1 DEF Handles, Ingest, GetThread, Validate, CreateThread, SaveTurn, FailedGet, FailedSave, Replayed, ArchiveGet,
                    ArchiveSave, Launch
    <2>2. Streamed(d) => active' = active \/ active' = active \ {d}
        BY DEF Streamed
    <2>3. Streamed(d) => d # c
        <3>1. Streamed(d) => \E pc \in {"ok", "error", "failget"} : Goto(d, pc)
            BY DEF Streamed, Reject
        <3>2. \A pc \in {"ok", "error", "failget"} : Goto(d, pc) => call'[d].pc = pc
            BY <1>0, GotoMoves DEF Moves, CallPC
        <3> QED BY <3>1, <3>2
    <2> QED BY <2>1, <2>2, <2>3
<1>2. ASSUME NEW d \in Calls, Comes(d) PROVE c \in active'
    BY <1>2 DEF Comes, Replay, Request, Archive
<1>3. ASSUME NEW d \in Calls, TurnActs(d) PROVE c \in active'
    <2>1. turn[d].pc # "none"
        BY <1>3 DEF TurnActs, TurnStep, SdkGet, SdkSave, Broken, Emitted, FinishGet, FinishSave, Close, ThreadStarted, Progress, Completed, At
    <2>2. active' = active \/ active' = active \ {d}
        BY <1>0, <1>3, ActsMove DEF Changed
    <2> QED BY <1>0, <2>1, <2>2
<1>4. ~Restart
    <2>1. ASSUME Restart PROVE call'[c].pc = "error"
        <3>1. call[c] \in CallState /\ ~Settled(c)
            BY <1>0, CallTyped DEF Settled
        <3> QED BY <1>0, <2>1, <3>1 DEF Restart, CallState
    <2> QED BY <2>1
<1>5. Elsewhere => c \in active'
    BY <1>4 DEF Elsewhere, Connect, Disconnect, Cancel, vars
<1> QED BY <1>1, <1>2, <1>3, <1>5, NextIs

LEMMA StreamBegins ==
    ASSUME LocalInv, [Next]_vars, NEW c \in Calls, call[c].pc # "stream", call'[c].pc = "stream"
    PROVE  c \in active'
<1>1. call[c].pc \in {"validate", "save"}
    BY StepMoves DEF CallMove, Enters, Follows
<1>2. Handles(c) \/ Restart
    BY <1>1, ActorIs DEF LocalInv, Holding
<1>3. ~Restart
    <2>1. ASSUME Restart PROVE call'[c].pc = "error"
        <3>1. call[c] \in CallState /\ ~Settled(c)
            BY <1>1, CallTyped DEF LocalInv, Settled
        <3> QED BY <2>1, <3>1 DEF Restart, CallState
    <2> QED BY <2>1
<1>4. Validate(c) \/ SaveTurn(c)
    BY <1>1, <1>2, <1>3 DEF Handles, Ingest, GetThread, CreateThread, Streamed, FailedGet, FailedSave, Replayed, ArchiveGet, ArchiveSave
<1>5. Launch(c) \/ \E pc \in {"error", "create", "save"} : Goto(c, pc)
    BY <1>4 DEF Validate, SaveTurn, Reject
<1>6. \A pc \in {"error", "create", "save"} : Goto(c, pc) => call'[c].pc = pc
    BY GotoMoves DEF LocalInv, Moves, CallPC
<1> QED BY <1>5, <1>6 DEF Launch

LEMMA HeardStep ==
    ASSUME LocalInv, HeardInv, [Next]_vars
    PROVE  HeardInv'
<1> SUFFICES ASSUME NEW t \in Calls
             PROVE  /\ Heard(t)' => t \in active'
                    /\ call'[t].pc = "stream" => t \in active'
                    /\ turn'[t].pc = "emit" => turn'[t].conn # 0
    BY DEF HeardInv
<1>0. TurnMove(t) /\ ActiveMove(t) /\ (Heard(t) => t \in active) /\ (call[t].pc = "stream" => t \in active) /\ (turn[t].pc = "emit" => turn[t].conn # 0)
    BY StepMoves DEF HeardInv
<1>1. call'[t].pc = "stream" => t \in active'
    BY <1>0, StreamKept, StreamBegins
<1>2. turn'[t].pc = "emit" => turn'[t].conn # 0
    <2>1. (~Begins(t) /\ ~Dies(t)) \/ turn'[t].pc # "emit"
        BY NoTurnIs DEF Begins, Dies
    <2> QED BY <1>0, <2>1 DEF TurnMove, Keeps, Speaks, Continues, Leaves
<1>3. ASSUME Heard(t)' PROVE t \in active'
    <2>1. ~Dies(t)
        BY <1>3, NoTurnIs DEF Heard, Dies
    <2>2. ~Leaves(t)
        BY <1>3 DEF Heard, Leaves
    <2>3. t \in active
        <3>1. CASE Begins(t)
            BY <1>0, <3>1 DEF Begins
        <3>2. CASE Keeps(t) \/ Speaks(t) \/ Continues(t)
            BY <1>0, <1>3, <3>2 DEF Keeps, Speaks, Continues, Heard, Speaking
        <3> QED BY <1>0, <2>1, <2>2, <3>1, <3>2 DEF TurnMove
    <2>4. ~Drops(t)
        <3>1. call[t].pc = "stream" => turn[t].pc = "none"
            BY DEF LocalInv, TypeInv, TurnsMeant
        <3>2. turn'[t].pc \notin {"none", "done"}
            BY <1>3 DEF Heard
        <3> QED BY <1>3, <2>2, <3>1, <3>2 DEF Drops, Heard
    <2> QED BY <1>0, <2>3, <2>4 DEF ActiveMove
<1> QED BY <1>1, <1>2, <1>3

\* The stream closes only when the browser goes, which aborts the turns that
\* are consumed, or with the service.
LEMMA StreamCloses ==
    ASSUME LocalInv, [Next]_vars, conn # 0, conn' = 0
    PROVE  Disconnect \/ Restart
<1>1. ASSUME NEW c \in Calls, Handles(c) \/ Comes(c) PROVE conn' = conn
    BY <1>1 DEF Handles, Ingest, GetThread, Validate, CreateThread, SaveTurn, Streamed, FailedGet, FailedSave, Replayed, ArchiveGet,
                ArchiveSave, Comes, Replay, Request, Archive, stream
<1>2. ASSUME NEW t \in Calls, TurnActs(t) PROVE conn' = conn
    BY <1>2 DEF TurnActs, TurnStep, SdkGet, SdkSave, Broken, Emitted, FinishGet, FinishSave, Close, ThreadStarted, Progress,
                Completed, stream
<1>3. Connect => FALSE
    BY DEF Connect
<1>4. (\E t \in Calls : Cancel(t)) \/ UNCHANGED vars => conn' = conn
    BY DEF Cancel, vars, stream
<1> QED BY <1>1, <1>2, <1>3, <1>4, NextIs DEF Elsewhere

LEMMA UnseenStep ==
    ASSUME LocalInv, HeardInv, NoUnseenTurn, [Next]_vars
    PROVE  NoUnseenTurn'
<1> SUFFICES ASSUME conn' = 0, NEW t \in Calls, turn'[t].pc = "read"
             PROVE  turn'[t].aborted \/ (turn'[t].fresh /\ turn'[t].n = 0)
    BY DEF NoUnseenTurn, At
<1>0. TurnMove(t)
    BY StepMoves
<1>1. CASE conn = 0
    <2>1. CASE Keeps(t)
        BY <1>1, <2>1 DEF Keeps, NoUnseenTurn, At
    <2>2. CASE Begins(t)
        BY <2>2, NoTurnIs DEF Begins
    <2>3. ~Speaks(t) /\ ~Leaves(t) /\ ~Dies(t)
        BY NoTurnIs DEF Speaks, Leaves, Dies
    <2>4. ~Continues(t)
        BY <1>1 DEF Continues, HeardInv
    <2> QED BY <1>0, <2>1, <2>2, <2>3, <2>4 DEF TurnMove
<1>2. CASE conn # 0
    <2>1. Disconnect \/ Restart
        BY <1>2, StreamCloses
    <2>2. ~Restart
        <3>1. Restart => \E pc \in {"none", "done"} : turn'[t] = [NoTurn EXCEPT !.pc = pc]
            BY DEF Restart
        <3>2. \A pc \in {"none", "done"} : [NoTurn EXCEPT !.pc = pc].pc = pc
            BY DEF NoTurn
        <3> QED BY <3>1, <3>2
    <2>3. Aborting(Consumed)
        BY <2>1, <2>2 DEF Disconnect
    <2>4. PICK new \in BOOLEAN : new = (turn[t].aborted \/ t \in Consumed \cap active)
        OBVIOUS
    <2>5. turn'[t] = [turn[t] EXCEPT !.aborted = new] /\ turn[t] \in TurnState
        BY <2>3, <2>4, CallTyped DEF Aborting, LocalInv
    <2>6. turn[t].pc = "read" /\ turn'[t].aborted = new
        BY <2>5 DEF TurnState
    <2>7. t \in Consumed \cap active
        BY <2>6 DEF Consumed, HeardInv, Heard
    <2> QED BY <2>4, <2>6, <2>7
<1> QED BY <1>1, <1>2

LEMMA UnseenInit == Init => HeardInv /\ NoUnseenTurn
<1> SUFFICES ASSUME Init PROVE HeardInv /\ NoUnseenTurn
    OBVIOUS
<1>1. \A t \in Calls : turn[t].pc = "none" /\ call[t].pc = "idle"
    BY NoTurnIs DEF Init
<1> QED BY <1>1 DEF HeardInv, NoUnseenTurn, Heard, At

\* With no event stream open, a turn that waits for Codex has been aborted,
\* or has heard nothing yet and stops at the first thing it hears.
THEOREM SeenOrStopped == Spec => []NoUnseenTurn
<1> DEFINE Inv == LocalInv /\ HeardInv /\ NoUnseenTurn
<1>1. Init => Inv
    BY TypeInit, UnseenInit DEF LocalInv
<1>2. Inv /\ [Next]_vars => Inv'
    <2> SUFFICES ASSUME Inv, [Next]_vars PROVE Inv'
        OBVIOUS
    <2>1. LocalInv'
        BY TypeStep, OpsStep DEF LocalInv
    <2> QED BY <2>1, HeardStep, UnseenStep
<1>3. Inv => NoUnseenTurn
    OBVIOUS
<1> QED BY <1>1, <1>2, <1>3, PTL DEF Spec

----------------------------------------------------------------------------
(* Attachments are released *)

\* A directory is there once it was downloaded; it is the call's, then the
\* turn's.
FilesInv ==
    \A c \in dirs : /\ call[c].pc \notin {"idle", "replay", "ingest", "archget", "archsave"}
                    /\ c \notin lost /\ Settled(c) => turn[c].pc \notin {"none", "done"}

LEMMA CleanupLeaves ==
    ASSUME NEW c \in Calls, Cleanup(c)
    PROVE  dirs' \subseteq dirs /\ lost \subseteq lost' /\ (c \notin dirs' \/ c \in lost')
BY DEF Cleanup

LEMMA HandlerFiles ==
    ASSUME TypeInv, NEW c \in Calls, Handles(c)
    PROVE  /\ lost \subseteq lost'
           /\ dirs' \subseteq dirs \/ (dirs' \subseteq dirs \cup {c} /\ call[c].pc = "ingest" /\ call'[c].pc \in {"get", "validate"})
<1>1. CASE Ingest(c)
    <2>1. \A pc \in {"get", "validate"} : Goto(c, pc) => call'[c].pc = pc
        BY GotoMoves DEF Moves, CallPC
    <2>2. call[c].pc = "ingest" /\ lost' = lost /\ (dirs' = dirs \/ (dirs' = dirs \cup {c} /\ \E pc \in {"get", "validate"} : Goto(c, pc)))
        BY <1>1 DEF Ingest, files
    <2> QED BY <2>1, <2>2
<1>2. CASE ~Ingest(c)
    <2>1. UNCHANGED files \/ Cleanup(c)
        BY <1>2 DEF Handles, GetThread, Validate, CreateThread, SaveTurn, Streamed, FailedGet, FailedSave, Replayed, ArchiveGet,
                    ArchiveSave, Launch, Reject
    <2> QED BY <2>1, CleanupLeaves DEF files
<1> QED BY <1>1, <1>2

LEMMA FilesStep ==
    ASSUME TypeInv, [Next]_vars, ~Restart
    PROVE  /\ lost \subseteq lost'
           /\ \A c \in dirs' : c \in dirs \/ (call[c].pc = "ingest" /\ call'[c].pc \in {"get", "validate"})
<1>1. ASSUME NEW c \in Calls, Comes(c) PROVE UNCHANGED <<dirs, lost>>
    BY <1>1 DEF Comes, Replay, Request, Archive, files
<1>2. ASSUME NEW t \in Calls, TurnActs(t) PROVE UNCHANGED <<dirs, lost>> \/ Cleanup(t)
    BY <1>2 DEF TurnActs, TurnStep, SdkGet, SdkSave, Broken, Emitted, FinishGet, FinishSave, Close, ThreadStarted, Progress,
                Completed, files
<1>3. Elsewhere => UNCHANGED <<dirs, lost>>
    BY DEF Elsewhere, Connect, Disconnect, Cancel, vars, files
<1>4. ASSUME NEW c \in Calls, Handles(c)
      PROVE  /\ lost \subseteq lost'
             /\ \A d \in dirs' : d \in dirs \/ (call[d].pc = "ingest" /\ call'[d].pc \in {"get", "validate"})
    BY <1>4, HandlerFiles
<1>5. ASSUME UNCHANGED <<dirs, lost>> \/ \E t \in Calls : Cleanup(t)
      PROVE  lost \subseteq lost' /\ dirs' \subseteq dirs
    BY <1>5, CleanupLeaves
<1> QED BY <1>1, <1>2, <1>3, <1>4, <1>5, NextIs

\* A call that is answered leaves its directory to its turn or removes it.
LEMMA AnswerReleases ==
    ASSUME TypeInv, NEW c \in Calls, Handles(c), call'[c].pc \in {"ok", "error"},
           call[c].pc \notin {"replay", "ingest", "archget", "archsave"}
    PROVE  c \notin dirs' \/ c \in lost' \/ turn'[c].pc = "read"
<1>1. GetThread(c) \/ Validate(c) \/ CreateThread(c) \/ SaveTurn(c) \/ Streamed(c) \/ FailedGet(c) \/ FailedSave(c)
    BY DEF Handles, Ingest, Replayed, ArchiveGet, ArchiveSave
<1>2. \A pc \in {"create", "save", "stream", "failget", "ok"} : Goto(c, pc) => call'[c].pc = pc
    BY GotoMoves DEF Moves, CallPC
<1>3. ASSUME NEW pc \in {"validate", "save", "failsave"}, NEW rec \in Record, call' = [call EXCEPT ![c].pc = pc, ![c].rec = rec]
      PROVE  call'[c].pc = pc
    <2>1. pc \in CallPC
        BY DEF CallPC
    <2> QED BY <1>3, <2>1, TakesMoves DEF Moves
<1>4. call[c].pc \in Holding => disk[call[c].th] \in Record
    BY ThreadTyped
<1>5. CASE GetThread(c)
    <2>1. Cleanup(c) \/ call' = [call EXCEPT ![c].pc = "validate", ![c].rec = disk[call[c].th]]
        BY <1>5 DEF GetThread, Reject
    <2>2. call[c].pc = "get"
        BY <1>5 DEF GetThread
    <2> QED BY <2>1, <2>2, <1>3, <1>4, CleanupLeaves DEF Holding
<1>6. CASE Validate(c) \/ SaveTurn(c)
    <2>1. Cleanup(c) \/ \E pc \in {"create", "save", "stream"} : Goto(c, pc)
        BY <1>6 DEF Validate, SaveTurn, Launch, Reject
    <2> QED BY <2>1, <1>2, CleanupLeaves
<1>7. CASE CreateThread(c)
    <2>1. PICK rec \in Record : rec = [NoRecord EXCEPT !.exists = TRUE]
        BY RecordsTyped
    <2>2. Cleanup(c) \/ call' = [call EXCEPT ![c].pc = "save", ![c].rec = rec]
        BY <1>7, <2>1 DEF CreateThread, Reject
    <2> QED BY <2>2, <1>3, CleanupLeaves
<1>8. CASE Streamed(c)
    <2>1. Cleanup(c) \/ Goto(c, "failget") \/ turn' = [turn EXCEPT ![c].pc = "read"]
        BY <1>8 DEF Streamed, Reject
    <2>2. turn' = [turn EXCEPT ![c].pc = "read"] => turn'[c].pc = "read"
        BY CallTyped DEF TurnState
    <2> QED BY <2>1, <2>2, <1>2, CleanupLeaves
<1>9. CASE FailedGet(c)
    <2>1. call[c].pc = "failget" /\ call' = [call EXCEPT ![c].pc = "failsave", ![c].rec = disk[call[c].th]]
        BY <1>9 DEF FailedGet
    <2> QED BY <2>1, <1>3, <1>4 DEF Holding
<1>10. CASE FailedSave(c)
    BY <1>10, CleanupLeaves DEF FailedSave, Reject
<1> QED BY <1>1, <1>5, <1>6, <1>7, <1>8, <1>9, <1>10

\* A turn is over when its consumer has removed its directory.
LEMMA TurnReleases ==
    ASSUME TypeInv, [Next]_vars, ~Restart, NEW c \in Calls, turn[c].pc \notin {"none", "done"}, turn'[c].pc \in {"none", "done"}
    PROVE  c \notin dirs' \/ c \in lost'
<1>1. ASSUME NEW d \in Calls, Handles(d) \/ Comes(d)
      PROVE  UNCHANGED turn \/ Streamed(d)
    BY <1>1 DEF Handles, Ingest, GetThread, Validate, CreateThread, SaveTurn, FailedGet, FailedSave, Replayed, ArchiveGet, ArchiveSave,
                Comes, Replay, Request, Archive
<1>2. ASSUME NEW d \in Calls, Streamed(d) PROVE FALSE
    <2>1. UNCHANGED turn \/ turn' = [turn EXCEPT ![d].pc = "read"]
        BY <1>2 DEF Streamed
    <2>2. turn' = [turn EXCEPT ![d].pc = "read"] => turn'[c].pc \in {turn[c].pc, "read"}
        BY CallTyped DEF TurnState
    <2> QED BY <2>1, <2>2
<1>3. ASSUME NEW t \in Calls, TurnActs(t) PROVE Close(t) /\ t = c
    <2>1. TurnMove(t) /\ Changed(t)
        BY <1>3, ActsMove
    <2>2. t = c
        BY <2>1 DEF Changed
    <2>3. turn[c].pc = "close"
        BY <2>1, <2>2, NoTurnIs DEF TurnMove, Keeps, Begins, Speaks, Continues, Leaves, Dies
    <2>4. Close(t)
        BY <1>3, <2>2, <2>3 DEF TurnActs, TurnStep, SdkGet, SdkSave, Broken, Emitted, FinishGet, FinishSave, ThreadStarted, Progress,
                                Completed, At
    <2> QED BY <2>2, <2>4
<1>4. Elsewhere => FALSE
    <2>1. Connect \/ UNCHANGED vars => UNCHANGED turn
        BY DEF Connect, vars
    <2>2. ASSUME NEW S, Aborting(S) PROVE turn'[c].pc = turn[c].pc
        <3>1. PICK new \in BOOLEAN : new = (turn[c].aborted \/ c \in S \cap active)
            OBVIOUS
        <3>2. turn'[c] = [turn[c] EXCEPT !.aborted = new] /\ turn[c] \in TurnState
            BY <2>2, <3>1, CallTyped DEF Aborting
        <3> QED BY <3>2 DEF TurnState
    <2> QED BY <2>1, <2>2 DEF Elsewhere, Disconnect, Cancel
<1> QED BY <1>1, <1>2, <1>3, <1>4, NextIs, CleanupLeaves DEF Close

LEMMA FilesInvStep ==
    ASSUME LocalInv, FilesInv, [Next]_vars
    PROVE  FilesInv'
<1>0. TypeInv /\ dirs \subseteq Calls /\ dirs' \subseteq Calls
    BY RestStep DEF LocalInv, TypeInv, TypeOK
<1>1. CASE Restart
    <2>1. dirs' = dirs /\ lost' = dirs
        BY <1>1 DEF Restart
    <2>2. ASSUME NEW c \in dirs PROVE call'[c].pc \notin {"idle", "replay", "ingest", "archget", "archsave"}
        <3>1. call[c].pc \notin {"idle", "replay", "ingest", "archget", "archsave"}
            BY DEF FilesInv
        <3>2. call'[c] = IF Settled(c) THEN call[c] ELSE [call[c] EXCEPT !.pc = "error", !.rec = NoRecord]
            BY <1>0, <1>1 DEF Restart
        <3>3. call[c] \in CallState
            BY <1>0, CallTyped
        <3>4. ~Settled(c) => call'[c].pc = "error"
            BY <3>2, <3>3 DEF CallState
        <3> QED BY <3>1, <3>2, <3>4
    <2> QED BY <2>1, <2>2 DEF FilesInv
<1>2. CASE ~Restart
    <2> SUFFICES ASSUME NEW c \in dirs'
                 PROVE  /\ call'[c].pc \notin {"idle", "replay", "ingest", "archget", "archsave"}
                        /\ c \notin lost' /\ Settled(c)' => turn'[c].pc \notin {"none", "done"}
        BY DEF FilesInv
    <2>1. c \in Calls /\ lost \subseteq lost' /\ (c \in dirs \/ (call[c].pc = "ingest" /\ call'[c].pc \in {"get", "validate"}))
        BY <1>0, <1>2, FilesStep
    <2>2. CallMove(c)
        BY <2>1, StepMoves
    <2>3. CASE c \notin dirs
        BY <2>1, <2>3 DEF Settled
    <2>4. CASE c \in dirs
        <3>1. call[c].pc \notin {"idle", "replay", "ingest", "archget", "archsave"}
            BY <2>4 DEF FilesInv
        <3>2. call'[c].pc \notin {"idle", "replay", "ingest", "archget", "archsave"}
            BY <2>2, <3>1 DEF CallMove, Enters, Follows
        <3>3. CASE Settled(c)
            BY <1>0, <1>2, <2>1, <2>4, <3>2, <3>3, TurnReleases DEF FilesInv
        <3>4. ASSUME ~Settled(c), Settled(c)', c \notin lost'
              PROVE  turn'[c].pc \notin {"none", "done"}
            <4>1. call[c].pc \in Holding
                BY <1>0, <2>1, <3>1, <3>4, CallTyped DEF CallPC, Settled, Holding
            <4>2. call'[c].pc \in {"ok", "error"} /\ call'[c].pc # call[c].pc
                BY <3>2, <3>4 DEF Settled
            <4>3. Handles(c)
                BY <1>0, <1>2, <2>1, <4>1, <4>2, ActorIs
            <4> QED BY <1>0, <2>1, <3>1, <3>4, <4>2, <4>3, AnswerReleases
        <3> QED BY <3>2, <3>3, <3>4
    <2> QED BY <2>3, <2>4
<1> QED BY <1>1, <1>2

LEMMA FilesInit == Init => FilesInv
BY DEF Init, FilesInv

\* A directory that was downloaded is with a call or a turn that removes it,
\* on every path of the handlers and of the consumer.
THEOREM AttachmentsGo == Spec => []AttachmentsReleased
<1> DEFINE Inv == LocalInv /\ FilesInv
<1>1. Init => Inv
    BY TypeInit, FilesInit DEF LocalInv
<1>2. Inv /\ [Next]_vars => Inv'
    <2> SUFFICES ASSUME Inv, [Next]_vars PROVE Inv'
        OBVIOUS
    <2>1. LocalInv'
        BY TypeStep, OpsStep DEF LocalInv
    <2> QED BY <2>1, FilesInvStep
<1>3. Inv => AttachmentsReleased
    BY DEF FilesInv, AttachmentsReleased
<1> QED BY <1>1, <1>2, <1>3, PTL DEF Spec

----------------------------------------------------------------------------
(* What the file says of a turn *)

\* A turn the service has yet to answer for, in its handler or its consumer.
Open(t) == turn[t].pc \notin OverPC /\ ~turn[t].finalized
Own(t) == call[t].pc \in {"stream", "failget", "failsave"} \/ Open(t)
Past(t) == call[t].pc \in {"stream", "failget", "failsave", "ok", "error"}
\* It has an entry in the file to bring to an end.
Writer(t) == ~Ephemeral(t) /\ Own(t)
Holder(t) == t \in active \/ Writer(t)

\* What is true of the generator's flags: who finishes a turn whose
\* generator does not return has seen its decision sent.
FinFit(t) ==
    /\ turn[t].pc \notin OverPC /\ turn[t].finalized => turn[t].pc = "emit" /\ turn[t].last = "completed"
    /\ turn[t].pc \in {"finget", "finsave"} => ~Ephemeral(t) /\ (~turn[t].returning => turn[t].last = "completed")
FinInv == \A t \in Calls : FinFit(t)

\* A step of one actor: the others' calls and turns stay as they are, but
\* for an abort.
Rests(u) ==
    /\ turn'[u].pc = turn[u].pc /\ turn'[u].last = turn[u].last /\ turn'[u].finalized = turn[u].finalized
    /\ turn'[u].returning = turn[u].returning /\ turn'[u].rec = turn[u].rec
Unmoved(u) == call'[u] = call[u] /\ Rests(u) /\ (u \in active' <=> u \in active) /\ told'[u] = told[u]
Lone(c) == \A u \in Calls \ {c} : Unmoved(u)

LEMMA AbortRests ==
    ASSUME TypeInv, NEW S, Aborting(S), NEW u \in Calls
    PROVE  Rests(u)
<1>1. PICK new \in BOOLEAN : new = (turn[u].aborted \/ u \in S \cap active)
    OBVIOUS
<1>2. turn'[u] = [turn[u] EXCEPT !.aborted = new] /\ turn[u] \in TurnState
    BY <1>1, CallTyped DEF Aborting
<1> QED BY <1>2 DEF TurnState, Rests

LEMMA HandlerLone ==
    ASSUME TypeInv, NEW c \in Calls, Handles(c)
    PROVE  /\ Lone(c) /\ told' = told
           /\ UNCHANGED turn \/ (Streamed(c) /\ Goto(c, "ok") /\ turn' = [turn EXCEPT ![c].pc = "read"])
<1>1. told' = told
    BY DEF Handles, Ingest, GetThread, Validate, CreateThread, SaveTurn, Streamed, FailedGet, FailedSave, Replayed,
           ArchiveGet, ArchiveSave
<1>2. UNCHANGED turn \/ (Streamed(c) /\ Goto(c, "ok") /\ turn' = [turn EXCEPT ![c].pc = "read"])
    BY DEF Handles, Ingest, GetThread, Validate, CreateThread, SaveTurn, Streamed, FailedGet, FailedSave, Replayed,
           ArchiveGet, ArchiveSave
<1>3. active' = active \/ active' = active \cup {c} \/ active' = active \ {c}
    BY DEF Handles, Ingest, GetThread, Validate, CreateThread, SaveTurn, Streamed, FailedGet, FailedSave, Replayed,
           ArchiveGet, ArchiveSave, Launch
<1>4. ASSUME NEW u \in Calls, u # c PROVE Unmoved(u)
    <2>1. turn'[u] = turn[u]
        BY <1>2, <1>4, CallTyped
    <2>2. call'[u] = call[u]
        BY <1>4, HandlerAlone
    <2> QED BY <1>1, <1>3, <1>4, <2>1, <2>2 DEF Unmoved, Rests
<1> QED BY <1>1, <1>2, <1>4 DEF Lone

LEMMA ComerLone ==
    ASSUME TypeInv, NEW c \in Calls, Comes(c)
    PROVE  Lone(c) /\ UNCHANGED <<turn, disk, active, told, stuck>> /\ call[c].pc = "idle"
<1>1. UNCHANGED <<turn, disk, active, told, stuck>> /\ call[c].pc = "idle"
    BY DEF Comes, Replay, Request, Archive
<1>2. ASSUME NEW u \in Calls, u # c PROVE call'[u] = call[u]
    BY <1>2, CallTyped DEF Comes, Replay, Request, Archive
<1> QED BY <1>1, <1>2 DEF Lone, Unmoved, Rests

LEMMA ElsewhereLone ==
    ASSUME TypeInv, Elsewhere, ~Restart
    PROVE  (\A u \in Calls : Unmoved(u)) /\ UNCHANGED <<disk, stuck>>
<1>1. UNCHANGED <<call, active, told, disk, stuck>>
    BY DEF Elsewhere, Connect, Disconnect, Cancel, vars
<1>2. ASSUME NEW u \in Calls PROVE Rests(u)
    <2>1. UNCHANGED turn \/ \E S : Aborting(S)
        BY DEF Elsewhere, Connect, Disconnect, Cancel, vars
    <2>2. UNCHANGED turn => Rests(u)
        BY DEF Rests
    <2> QED BY <2>1, <2>2, AbortRests
<1> QED BY <1>1, <1>2 DEF Unmoved

LEMMA ActorTold ==
    ASSUME TypeInv, NEW t \in Calls, TurnActs(t), NEW u \in Calls, u # t
    PROVE  told'[u] = told[u]
<1>0. told \in [Calls -> TurnStatus]
    BY DEF TypeInv, TypeOK
<1>1. ASSUME NEW s, NEW e, NEW q, Yield(t, s, e, q) PROVE told'[u] = told[u]
    BY <1>0, <1>1 DEF Yield
<1>2. ASSUME NEW s, NEW q, Throw(t, s, q) PROVE told'[u] = told[u]
    BY <1>1, <1>2 DEF Throw
<1>3. Progress(t) => \E s, e, q : Yield(t, s, e, q)
    BY DEF Progress
<1>4. Emitted(t) => told'[u] = told[u]
    BY <1>0 DEF Emitted
<1> QED BY <1>1, <1>2, <1>3, <1>4 DEF TurnActs, TurnStep, ThreadStarted, SdkGet, SdkSave, Completed, Broken, FinishGet, FinishSave, Close

LEMMA ActorLone ==
    ASSUME TypeInv, NEW t \in Calls, TurnActs(t)
    PROVE  Lone(t) /\ UNCHANGED <<call, plan>> /\ turn[t].pc \notin {"none", "done"}
<1>1. UNCHANGED <<call, plan>>
    BY DEF TurnActs, TurnStep, SdkGet, SdkSave, Broken, Emitted, FinishGet, FinishSave, Close, ThreadStarted, Progress, Completed
<1>2. turn[t].pc \notin {"none", "done"}
    BY DEF TurnActs, TurnStep, SdkGet, SdkSave, Broken, Emitted, FinishGet, FinishSave, Close, ThreadStarted, Progress, Completed, At
<1>3. Changed(t)
    BY ActsMove
<1> QED BY <1>1, <1>2, <1>3, ActorTold DEF Changed, Lone, Unmoved, Rests

----------------------------------------------------------------------------
(* How a turn fares *)

LEMMA FinalizeFares ==
    ASSUME TypeInv, UNCHANGED plan, NEW t \in Calls, NEW s \in TurnState, NEW q, Finalize(t, s, q),
           ~s.finalized, Ephemeral(t) \/ s.returning \/ s.last = "completed"
    PROVE  FinFit(t)' /\ (Ephemeral(t) \/ Open(t)') /\ turn'[t].pc \in {"close", "finget"}
<1>1. CASE Ephemeral(t)
    <2>1. turn'[t].pc = "close"
        BY <1>1, CallTyped DEF Finalize, Become, NoTurn
    <2> QED BY <1>1, <2>1 DEF FinFit, OverPC
<1>2. CASE ~Ephemeral(t)
    <2> DEFINE b == [s EXCEPT !.pc = "finget", !.tools = {}, !.decided = FALSE, !.n = 0, !.conn = 0, !.rec = NoRecord]
    <2>1. Become(t, b)
        BY <1>2 DEF Finalize
    <2>2. b.pc = "finget" /\ b.finalized = s.finalized /\ b.returning = s.returning /\ b.last = s.last
        BY DEF TurnState
    <2> HIDE DEF b
    <2>3. turn'[t] = b
        BY <2>1, CallTyped DEF Become
    <2>4. Ephemeral(t)' = Ephemeral(t)
        BY DEF Ephemeral, Op
    <2> QED BY <1>2, <2>2, <2>3, <2>4 DEF FinFit, Open, OverPC
<1> QED BY <1>1, <1>2

LEMMA ReturnFares ==
    ASSUME TypeInv, UNCHANGED plan, NEW t \in Calls, NEW s \in TurnState, NEW q, Return(t, s, q)
    PROVE  /\ FinFit(t)' /\ turn'[t].pc \in {"close", "finget"}
           /\ ~s.finalized => Ephemeral(t) \/ Open(t)'
           /\ s.finalized => turn'[t].pc = "close"
<1> DEFINE b == [s EXCEPT !.returning = TRUE]
<1>1. b \in TurnState /\ b.returning /\ b.finalized = s.finalized
    BY DEF TurnState
<1>2. ~s.finalized => Finalize(t, b, q)
    BY DEF Return
<1>3. s.finalized => turn'[t].pc = "close"
    BY CallTyped DEF Return, Become, NoTurn
<1> HIDE DEF b
<1>4. turn'[t].pc = "close" => FinFit(t)'
    BY DEF FinFit, OverPC
<1> QED BY <1>1, <1>2, <1>3, <1>4, FinalizeFares

LEMMA YieldFares ==
    ASSUME TypeInv, UNCHANGED plan, NEW t \in Calls, NEW s \in TurnState, NEW e \in Events, NEW q, Yield(t, s, e, q),
           s.finalized => e = "completed"
    PROVE  /\ FinFit(t)'
           /\ ~s.finalized => Ephemeral(t) \/ Open(t)'
           /\ s.finalized => ~Open(t)'
           /\ told'[t] \in {told[t], e} /\ turn'[t].pc \in {"emit", "close", "finget"}
<1> DEFINE y == [s EXCEPT !.last = e]
           z == [y EXCEPT !.pc = "emit", !.conn = conn, !.rec = NoRecord]
<1>1. told \in [Calls -> TurnStatus] /\ conn \in 0..MaxConn
    BY DEF TypeInv, TypeOK
<1>2. y \in TurnState /\ y.last = e /\ y.finalized = s.finalized
    BY DEF TurnState
<1>3. z.pc = "emit" /\ z.last = e /\ z.finalized = s.finalized
    BY <1>2 DEF TurnState
<1>4. \/ Return(t, y, q) /\ told' = told
      \/ Become(t, z) /\ told' = [told EXCEPT ![t] = IF e \in TurnStatus THEN e ELSE @]
    BY DEF Yield
<1> HIDE DEF y, z
<1>5. CASE Return(t, y, q) /\ told' = told
    <2>1. /\ FinFit(t)' /\ (~y.finalized => Ephemeral(t) \/ Open(t)') /\ (y.finalized => turn'[t].pc = "close")
          /\ turn'[t].pc \in {"close", "finget"}
        BY <1>2, <1>5, ReturnFares
    <2> QED BY <1>2, <1>5, <2>1 DEF Open, OverPC
<1>6. CASE Become(t, z) /\ told' = [told EXCEPT ![t] = IF e \in TurnStatus THEN e ELSE @]
    <2>1. turn'[t] = z
        BY <1>6, CallTyped DEF Become
    <2>2. told'[t] \in {told[t], e}
        BY <1>1, <1>6
    <2> QED BY <1>3, <2>1, <2>2 DEF FinFit, Open, OverPC
<1> QED BY <1>4, <1>5, <1>6

\* It reads the record it will write.
Takes(t) ==
    turn'[t].pc \in {"sdksave", "finsave"} =>
        turn[t].pc \in {"sdkget", "finget"} /\ turn'[t].rec = disk[call[t].th] /\ UNCHANGED disk
\* How a turn fares in a step of its own that does not write the end of it:
\* it stays open, and nobody is told that it is complete.
Fares(t) ==
    /\ FinFit(t)'
    /\ Open(t) => Ephemeral(t) \/ Open(t)'
    /\ ~Open(t) => ~Open(t)'
    /\ told'[t] = "completed" => told[t] = "completed" \/ Ephemeral(t)
    /\ Takes(t)

LEMMA ReturnsFare ==
    ASSUME TypeInv, UNCHANGED plan, NEW t \in Calls, Return(t, turn[t], queue), UNCHANGED told, turn[t].pc \notin OverPC
    PROVE  Fares(t)
<1>1. turn[t] \in TurnState
    BY CallTyped
<1>2. /\ FinFit(t)' /\ (~turn[t].finalized => Ephemeral(t) \/ Open(t)')
      /\ turn[t].finalized => turn'[t].pc = "close"
      /\ turn'[t].pc \in {"close", "finget"}
    BY <1>1, ReturnFares
<1> QED BY <1>2 DEF Fares, Takes, Open, OverPC

LEMMA YieldsFare ==
    ASSUME TypeInv, UNCHANGED plan, NEW t \in Calls, NEW s \in TurnState, NEW e \in Events, NEW q, Yield(t, s, e, q),
           Open(t), ~s.finalized, e # "completed"
    PROVE  Fares(t)
<1>1. FinFit(t)' /\ (Ephemeral(t) \/ Open(t)') /\ told'[t] \in {told[t], e} /\ turn'[t].pc \in {"emit", "close", "finget"}
    BY YieldFares
<1> QED BY <1>1 DEF Fares, Takes

LEMMA ThrowsFare ==
    ASSUME TypeInv, UNCHANGED plan, NEW t \in Calls, NEW s \in TurnState, NEW q, Throw(t, s, q), Open(t), ~s.finalized
    PROVE  Fares(t)
<1>1. PICK e \in {"cancelled", "failed"} : Yield(t, s, e, q)
    BY DEF Throw
<1>2. e \in Events /\ e # "completed"
    BY DEF Events
<1> QED BY <1>1, <1>2, YieldsFare

LEMMA ReadOpen ==
    ASSUME TypeInv, FinInv, NEW t \in Calls, turn[t].pc \in {"read", "sdkget", "sdksave", "finget", "finsave"}
    PROVE  Open(t) /\ ~turn[t].finalized
BY DEF FinInv, FinFit, Open, OverPC

LEMMA PlainFares ==
    ASSUME TypeInv, UNCHANGED <<plan, told>>, NEW t \in Calls, NEW s \in TurnState, Become(t, s), Open(t), ~s.finalized,
           s.pc \notin OverPC, s.pc \in {"finget", "finsave"} => FinFit(t) /\ turn[t].pc \in {"finget", "finsave"} /\ s.last = turn[t].last /\ s.returning = turn[t].returning,
           turn'[t] = s => Takes(t)
    PROVE  Fares(t)
<1>1. turn'[t] = s
    BY BecomeMoves
<1>2. Ephemeral(t)' = Ephemeral(t)
    BY DEF Ephemeral, Op
<1> QED BY <1>1, <1>2 DEF Fares, FinFit, Open

LEMMA ProgressFares ==
    ASSUME TypeInv, FinInv, UNCHANGED plan, NEW t \in Calls, Progress(t)
    PROVE  Fares(t)
<1> DEFINE s == [turn[t] EXCEPT !.n = @ + 1]
<1>1. At(t, "read") /\ turn[t].n < MaxEvents
    BY DEF Progress
<1>2. turn[t] \in TurnState /\ Open(t) /\ ~turn[t].finalized
    BY <1>1, CallTyped, ReadOpen DEF At
<1>3. s \in TurnState /\ ~s.finalized
    BY <1>1, <1>2, LocalAssumption DEF TurnState
<1>4. \/ \E m \in Tools \ s.tools : Yield(t, [s EXCEPT !.tools = @ \cup {m}, !.decided = FALSE], "progress", queue)
      \/ \E m \in s.tools : Yield(t, [s EXCEPT !.tools = @ \ {m}], "progress", queue)
      \/ Yield(t, [s EXCEPT !.decided = @ \/ s.tools = {}], "progress", queue)
    BY DEF Progress
<1> HIDE DEF s
<1>5. ASSUME NEW m \in Tools \ s.tools
      PROVE  [s EXCEPT !.tools = @ \cup {m}, !.decided = FALSE] \in TurnState /\ ~[s EXCEPT !.tools = @ \cup {m}, !.decided = FALSE].finalized
    BY <1>3 DEF TurnState
<1>6. ASSUME NEW m \in s.tools PROVE [s EXCEPT !.tools = @ \ {m}] \in TurnState /\ ~[s EXCEPT !.tools = @ \ {m}].finalized
    BY <1>3 DEF TurnState
<1>7. [s EXCEPT !.decided = @ \/ s.tools = {}] \in TurnState /\ ~[s EXCEPT !.decided = @ \/ s.tools = {}].finalized
    <2>1. PICK new \in BOOLEAN : new = (s.decided \/ s.tools = {})
        OBVIOUS
    <2>2. [s EXCEPT !.decided = new] \in TurnState /\ ~[s EXCEPT !.decided = new].finalized
        BY <1>3 DEF TurnState
    <2> QED BY <2>1, <2>2
<1>8. PICK y \in TurnState : ~y.finalized /\ Yield(t, y, "progress", queue)
    BY <1>4, <1>5, <1>6, <1>7
<1>9. PICK e \in Events : e = "progress"
    BY DEF Events
<1> QED BY <1>2, <1>8, <1>9, YieldsFare

LEMMA SpeakFares ==
    ASSUME TypeInv, FinInv, UNCHANGED plan, NEW t \in Calls, SdkSave(t) \/ Completed(t) \/ Broken(t)
    PROVE  Fares(t)
<1>1. turn[t].pc \in {"read", "sdksave"}
    BY DEF SdkSave, Completed, Broken, At
<1>2. turn[t] \in TurnState /\ Open(t) /\ ~turn[t].finalized
    BY <1>1, CallTyped, ReadOpen
<1>3. \/ \E q : Throw(t, turn[t], q)
      \/ \E q : Yield(t, turn[t], "progress", q)
      \/ \E q : Yield(t, turn[t], "decision", q)
      \/ \E q : Yield(t, turn[t], "failed", q)
    BY DEF SdkSave, Completed, Broken
<1>4. ASSUME NEW q, NEW e \in {"progress", "decision", "failed"}, Yield(t, turn[t], e, q) PROVE Fares(t)
    <2>1. e \in Events /\ e # "completed"
        BY DEF Events
    <2> QED BY <1>2, <1>4, <2>1, YieldsFare
<1> QED BY <1>2, <1>3, <1>4, ThrowsFare

LEMMA AskFares ==
    ASSUME TypeInv, FinInv, UNCHANGED plan, NEW t \in Calls, ThreadStarted(t) \/ SdkGet(t) \/ FinishGet(t)
    PROVE  Fares(t)
<1>1. turn[t].pc \in {"read", "sdkget", "finget"}
    BY DEF ThreadStarted, SdkGet, FinishGet, At
<1>2. turn[t] \in TurnState /\ Open(t) /\ ~turn[t].finalized /\ FinFit(t)
    BY <1>1, CallTyped, ReadOpen DEF FinInv
<1>3. CASE ThreadStarted(t)
    <2> DEFINE s == [turn[t] EXCEPT !.pc = "sdkget", !.fresh = FALSE]
    <2>1. Become(t, s) /\ UNCHANGED told
        BY <1>3 DEF ThreadStarted
    <2>2. s \in TurnState /\ s.pc = "sdkget" /\ ~s.finalized
        BY <1>2 DEF TurnState, TurnPC
    <2> HIDE DEF s
    <2>3. turn'[t] = s => Takes(t)
        BY <2>2 DEF Takes
    <2> QED BY <1>2, <2>1, <2>2, <2>3, PlainFares DEF OverPC
<1>4. CASE SdkGet(t)
    <2>1. CASE Yield(t, turn[t], "progress", Tail(queue))
        <3>1. PICK e \in Events : e = "progress"
            BY DEF Events
        <3> QED BY <1>2, <2>1, <3>1, YieldsFare
    <2>2. CASE ~Yield(t, turn[t], "progress", Tail(queue))
        <3> DEFINE s == [turn[t] EXCEPT !.pc = "sdksave", !.rec = disk[call[t].th]]
        <3>1. Become(t, s) /\ UNCHANGED <<told, disk>> /\ turn[t].pc = "sdkget"
            BY <1>4, <2>2 DEF SdkGet, At
        <3>2. disk[call[t].th] \in Record
            BY <3>1, DiskTyped DEF OverPC
        <3>3. s \in TurnState /\ s.pc = "sdksave" /\ ~s.finalized /\ s.rec = disk[call[t].th]
            BY <1>2, <3>2 DEF TurnState, TurnPC
        <3> HIDE DEF s
        <3>4. turn'[t] = s => Takes(t)
            BY <3>1, <3>3 DEF Takes
        <3> QED BY <1>2, <3>1, <3>3, <3>4, PlainFares DEF OverPC
    <2> QED BY <2>1, <2>2
<1>5. CASE FinishGet(t)
    <2> DEFINE s == [turn[t] EXCEPT !.pc = "finsave", !.rec = disk[call[t].th]]
    <2>1. Become(t, s) /\ UNCHANGED <<told, disk>> /\ turn[t].pc = "finget"
        BY <1>5 DEF FinishGet, At
    <2>2. disk[call[t].th] \in Record
        BY <2>1, DiskTyped DEF OverPC
    <2>3. s \in TurnState /\ s.pc = "finsave" /\ ~s.finalized /\ s.last = turn[t].last /\ s.returning = turn[t].returning
          /\ s.rec = disk[call[t].th]
        BY <1>2, <2>2 DEF TurnState, TurnPC
    <2> HIDE DEF s
    <2>4. turn'[t] = s => Takes(t)
        BY <2>1, <2>3 DEF Takes
    <2> QED BY <1>2, <2>1, <2>3, <2>4, PlainFares DEF OverPC
<1> QED BY <1>3, <1>4, <1>5

LEMMA EmittedFares ==
    ASSUME TypeInv, FinInv, UNCHANGED plan, NEW t \in Calls, Emitted(t)
    PROVE  Fares(t)
<1>1. turn[t].pc = "emit" /\ turn[t] \in TurnState /\ turn[t].pc \notin OverPC /\ FinFit(t)
    BY CallTyped DEF Emitted, At, OverPC, FinInv
<1>2. turn[t].last # "completed" => Open(t) /\ ~turn[t].finalized
    BY <1>1 DEF FinFit, Open
<1>3. CASE Return(t, turn[t], queue) /\ UNCHANGED told
    BY <1>1, <1>3, ReturnsFare
<1>4. CASE turn[t].last = "progress" /\ Become(t, [turn[t] EXCEPT !.pc = "read"]) /\ UNCHANGED told
    <2> DEFINE s == [turn[t] EXCEPT !.pc = "read"]
    <2>1. s \in TurnState /\ s.pc = "read" /\ s.finalized = turn[t].finalized
        BY <1>1 DEF TurnState, TurnPC
    <2>2. Become(t, s)
        BY <1>4
    <2> HIDE DEF s
    <2>3. turn'[t] = s => Takes(t)
        BY <2>1 DEF Takes
    <2> QED BY <1>2, <1>4, <2>1, <2>2, <2>3, PlainFares DEF OverPC
<1>5. CASE /\ turn[t].last = "decision" /\ Ephemeral(t)
           /\ Become(t, [turn[t] EXCEPT !.last = "completed", !.finalized = TRUE])
    <2> DEFINE s == [turn[t] EXCEPT !.last = "completed", !.finalized = TRUE]
    <2>1. s.pc = "emit" /\ s.finalized /\ s.last = "completed"
        BY <1>1 DEF TurnState
    <2>2. Become(t, s)
        BY <1>5
    <2> HIDE DEF s
    <2>3. turn'[t] = s
        BY <2>2, CallTyped DEF Become
    <2> QED BY <1>2, <1>5, <2>1, <2>3 DEF Fares, Takes, FinFit, Open
<1>6. CASE turn[t].last = "decision" /\ ~Ephemeral(t) /\ Finalize(t, [turn[t] EXCEPT !.last = "completed"], queue) /\ UNCHANGED told
    <2> DEFINE s == [turn[t] EXCEPT !.last = "completed"]
    <2>1. s \in TurnState /\ s.last = "completed" /\ s.finalized = turn[t].finalized
        BY <1>1 DEF TurnState, Events
    <2>2. Finalize(t, s, queue)
        BY <1>6
    <2> HIDE DEF s
    <2>3. FinFit(t)' /\ Open(t)' /\ turn'[t].pc \in {"close", "finget"}
        BY <1>2, <1>6, <2>1, <2>2, FinalizeFares
    <2> QED BY <1>2, <1>6, <2>3 DEF Fares, Takes
<1> QED BY <1>3, <1>4, <1>5, <1>6 DEF Emitted

LEMMA CloseFares ==
    ASSUME TypeInv, NEW t \in Calls, Close(t)
    PROVE  Fares(t)
<1>1. turn[t].pc = "close" /\ Become(t, [NoTurn EXCEPT !.pc = "done"]) /\ UNCHANGED told
    BY DEF Close, At
<1>2. turn'[t].pc = "done"
    BY <1>1, CallTyped, NoTurnIs DEF Become
<1> QED BY <1>1, <1>2 DEF Fares, Takes, FinFit, Open, OverPC

\* The end of a turn is written: it is over, or an error keeps it open.
LEMMA FinishFares ==
    ASSUME TypeInv, FinInv, UNCHANGED plan, NEW t \in Calls, FinishSave(t)
    PROVE  /\ FinFit(t)' /\ Open(t) /\ ~Ephemeral(t) /\ turn[t].pc = "finsave" /\ turn'[t].pc \notin {"sdksave", "finsave"}
           /\ \/ /\ disk' = [disk EXCEPT ![call[t].th] = Finished(turn[t].rec, t, Status(t))] /\ UNCHANGED stuck
                 /\ ~Open(t)'
                 /\ told'[t] = "completed" /\ told[t] # "completed" => Status(t) = "completed"
              \/ UNCHANGED disk /\ stuck' = stuck \cup {call[t].th} /\ UNCHANGED told /\ ~Open(t)'
              \/ UNCHANGED <<disk, stuck>> /\ Fares(t)
<1> DEFINE s == [turn[t] EXCEPT !.finalized = TRUE]
<1>1. turn[t].pc = "finsave" /\ turn[t] \in TurnState /\ FinFit(t)
    BY CallTyped DEF FinishSave, At, FinInv
<1>2. Open(t) /\ ~turn[t].finalized /\ ~Ephemeral(t) /\ (~turn[t].returning => turn[t].last = "completed")
    BY <1>1, ReadOpen DEF FinFit
<1>3. s \in TurnState /\ s.finalized
    BY <1>1 DEF TurnState
<1>4. \/ /\ disk' = [disk EXCEPT ![call[t].th] = Finished(turn[t].rec, t, Status(t))] /\ UNCHANGED stuck
         /\ (turn[t].returning /\ Return(t, s, Tail(queue)) /\ UNCHANGED told) \/ (~turn[t].returning /\ Yield(t, s, "completed", Tail(queue)))
      \/ UNCHANGED disk /\ stuck' = stuck \cup {call[t].th} /\ UNCHANGED told /\ Return(t, s, Tail(queue))
      \/ UNCHANGED <<disk, stuck>> /\ Throw(t, turn[t], Tail(queue))
    BY DEF FinishSave
<1> HIDE DEF s
<1>5. Return(t, s, Tail(queue)) => FinFit(t)' /\ ~Open(t)' /\ turn'[t].pc \notin {"sdksave", "finsave"}
    BY <1>3, ReturnFares DEF Open, OverPC
<1>6. Yield(t, s, "completed", Tail(queue)) => FinFit(t)' /\ ~Open(t)' /\ turn'[t].pc \notin {"sdksave", "finsave"}
    <2>1. PICK e \in Events : e = "completed"
        BY DEF Events
    <2> QED BY <1>3, <2>1, YieldFares
<1>7. Throw(t, turn[t], Tail(queue)) => Fares(t) /\ FinFit(t)' /\ turn'[t].pc \notin {"sdksave", "finsave"}
    BY <1>1, <1>2, ThrowsFare DEF Fares, Takes
<1>8. ~turn[t].returning => Status(t) = "completed"
    BY <1>2 DEF Status
<1> QED BY <1>1, <1>2, <1>4, <1>5, <1>6, <1>7, <1>8

LEMMA ActFares ==
    ASSUME TypeInv, FinInv, NEW t \in Calls, TurnActs(t)
    PROVE  /\ FinFit(t)' /\ (FinishSave(t) \/ Fares(t)) /\ active' \subseteq active
           /\ \/ UNCHANGED disk \/ FinishSave(t)
              \/ turn[t].pc = "sdksave" /\ disk' = [disk EXCEPT ![call[t].th] = [turn[t].rec EXCEPT !.sdk = TRUE]]
           /\ UNCHANGED stuck \/ FinishSave(t)
<1>1. UNCHANGED plan
    BY ActorLone
<1>2. FinishSave(t) \/ Fares(t)
    BY <1>1, ProgressFares, SpeakFares, AskFares, EmittedFares, CloseFares DEF TurnActs, TurnStep
<1>3. FinFit(t)'
    BY <1>1, <1>2, FinishFares DEF Fares
<1>4. \/ UNCHANGED disk \/ FinishSave(t)
      \/ turn[t].pc = "sdksave" /\ disk' = [disk EXCEPT ![call[t].th] = [turn[t].rec EXCEPT !.sdk = TRUE]]
    BY DEF TurnActs, TurnStep, ThreadStarted, Progress, SdkGet, SdkSave, Completed, Broken, Emitted, FinishGet, Close, At
<1>5. UNCHANGED stuck \/ FinishSave(t)
    BY DEF TurnActs, TurnStep, ThreadStarted, Progress, SdkGet, SdkSave, Completed, Broken, Emitted, FinishGet, Close
<1>6. active' \subseteq active
    BY ActsMove DEF Changed
<1> QED BY <1>2, <1>3, <1>4, <1>5, <1>6

LEMMA UnmovedSame ==
    ASSUME NEW u, Unmoved(u), UNCHANGED plan
    PROVE  /\ (Open(u)' <=> Open(u)) /\ (Own(u)' <=> Own(u)) /\ (Past(u)' <=> Past(u)) /\ (Ephemeral(u)' <=> Ephemeral(u))
           /\ (Writer(u)' <=> Writer(u)) /\ (Holder(u)' <=> Holder(u)) /\ (FinFit(u)' <=> FinFit(u))
           /\ call'[u] = call[u] /\ told'[u] = told[u] /\ turn'[u].pc = turn[u].pc /\ turn'[u].rec = turn[u].rec
<1>1. Ephemeral(u)' <=> Ephemeral(u)
    BY DEF Ephemeral, Op
<1> QED BY <1>1 DEF Unmoved, Rests, Open, Own, Past, Writer, Holder, FinFit

LEMMA FinStep ==
    ASSUME LocalInv, FinInv, [Next]_vars
    PROVE  FinInv'
<1> SUFFICES ASSUME NEW t \in Calls PROVE FinFit(t)'
    BY DEF FinInv
<1>0. TypeInv /\ UNCHANGED plan /\ FinFit(t)
    BY PlanKept DEF LocalInv, FinInv
<1>1. ASSUME NEW c \in Calls, Lone(c), c # t PROVE FinFit(t)'
    BY <1>0, <1>1, UnmovedSame DEF Lone
<1>2. ASSUME UNCHANGED turn PROVE FinFit(t)'
    <2>1. Ephemeral(t)' <=> Ephemeral(t)
        BY <1>0 DEF Ephemeral, Op
    <2> QED BY <1>0, <1>2, <2>1 DEF FinFit
<1>3. ASSUME Handles(t) PROVE FinFit(t)'
    <2>1. UNCHANGED turn \/ turn' = [turn EXCEPT ![t].pc = "read"]
        BY <1>0, <1>3, HandlerLone
    <2>2. ASSUME turn' = [turn EXCEPT ![t].pc = "read"], ~UNCHANGED turn PROVE FinFit(t)'
        <3>1. turn[t] = NoTurn
            <4>1. call[t].pc # "ok"
                BY <1>0, <1>3, <2>2, HandlerLone DEF Streamed
            <4> QED BY <1>0, <4>1 DEF TypeInv, TurnsMeant
        <3>2. turn'[t] = [NoTurn EXCEPT !.pc = "read"]
            BY <1>0, <2>2, <3>1, CallTyped
        <3>3. turn'[t].pc = "read" /\ ~turn'[t].finalized
            BY <3>2 DEF NoTurn
        <3> QED BY <3>3 DEF FinFit
    <2> QED BY <1>2, <2>1, <2>2
<1>4. ASSUME Restart PROVE FinFit(t)'
    <2>1. turn'[t].pc \in {"none", "done"}
        BY <1>4 DEF Restart, NoTurn
    <2> QED BY <2>1 DEF FinFit, OverPC
<1>5. ASSUME Elsewhere, ~Restart PROVE FinFit(t)'
    BY <1>0, <1>5, ElsewhereLone, UnmovedSame
<1>6. ASSUME NEW c \in Calls, Handles(c) \/ Comes(c) \/ TurnActs(c) PROVE FinFit(t)'
    <2>1. Lone(c)
        BY <1>0, <1>6, HandlerLone, ComerLone, ActorLone
    <2>2. Comes(c) => UNCHANGED turn
        BY <1>0, ComerLone
    <2> QED BY <1>0, <1>1, <1>2, <1>3, <1>6, <2>1, <2>2, ActFares
<1> QED BY <1>4, <1>5, <1>6, NextIs

----------------------------------------------------------------------------
(* What a handler reads and how it leaves its turn *)

\* The new thread's record.
Fresh == [NoRecord EXCEPT !.exists = TRUE]
LEMMA FreshIs == Fresh \in Record /\ ~Fresh.archived /\ \A t \in Calls : Fresh.turns[t] = "none"
<1>1. Fresh \in Record
    BY RecordsTyped DEF Fresh
<1> QED BY <1>1 DEF Fresh, NoRecord

\* A turn begins by itself when it leaves no entry in the file.
Starts(c) == call[c].pc = "save" \/ (call[c].pc = "validate" /\ Ephemeral(c) /\ ~Busy(call[c].rec, call[c].th))
\* A handler's step: where it goes, what it has read, what it writes.
Gets(c) ==
    /\ call'[c].th = call[c].th /\ stuck \subseteq stuck'
    /\ call'[c].pc = "validate" /\ Op[c] # "start" =>
          call[c].pc = "get" /\ call'[c].rec = disk[call[c].th] /\ UNCHANGED <<disk, active>>
    /\ call'[c].pc = "save" =>
          \/ /\ call[c].pc = "validate" /\ Op[c] # "start" /\ ~Ephemeral(c) /\ ~Busy(call[c].rec, call[c].th)
             /\ call'[c].rec = call[c].rec /\ UNCHANGED <<disk, active>>
          \/ call[c].pc = "create" /\ call'[c].rec = Fresh /\ disk' = [disk EXCEPT ![c] = Fresh] /\ UNCHANGED active
    /\ call'[c].pc = "failget" => call[c].pc = "stream" /\ ~Ephemeral(c)
    /\ call'[c].pc = "failsave" => call[c].pc = "failget" /\ call'[c].rec = disk[call[c].th] /\ UNCHANGED <<disk, active>>
    /\ call'[c].pc = "archsave" => call[c].pc = "archget" /\ call'[c].rec = disk[call[c].th] /\ UNCHANGED <<disk, active>>
\* What becomes of the turn, and of the file.
Puts(c) ==
    /\ Writer(c) => Own(c)' \/ FailedSave(c)
    /\ Own(c)' => Own(c) \/ Starts(c)
    /\ c \in active' => c \in active \/ Starts(c)
    /\ \/ /\ UNCHANGED disk /\ (call[c].pc = "save" => call'[c].pc = "error")
          /\ call[c].pc = "failsave" => call[c].th \in stuck'
       \/ call[c].pc = "create" /\ call'[c].pc = "save" /\ disk' = [disk EXCEPT ![c] = Fresh]
       \/ /\ call[c].pc = "save" /\ disk' = [disk EXCEPT ![call[c].th] = Started(call[c].rec, c)]
          /\ call'[c].pc = "stream" \/ (call'[c].pc = "error" /\ call[c].th \in stuck')
       \/ call[c].pc = "failsave" /\ call'[c].pc = "error" /\ disk' = [disk EXCEPT ![call[c].th] = Finished(call[c].rec, c, "failed")]
       \/ call[c].pc = "archsave" /\ call'[c].pc = "ok" /\ disk' = [disk EXCEPT ![call[c].th] = [call[c].rec EXCEPT !.archived = TRUE]]

LEMMA GotoKeeps ==
    ASSUME TypeInv, NEW c \in Calls, Goto(c, "save")
    PROVE  call'[c].rec = call[c].rec
BY CallTyped DEF Goto, CallState

LEMMA HandlerClosed ==
    ASSUME TypeInv, NEW c \in Calls, call[c].pc # "ok"
    PROVE  ~Open(c) /\ turn[c].pc = "none"
BY DEF TypeInv, TurnsMeant, Open, OverPC

\* Steps that only go on.
LEMMA PlainGoes ==
    ASSUME TypeInv, OpsInv, NEW c \in Calls, NEW pc \in {"ingest", "get", "create", "ok", "error", "failget", "validate"}, Goto(c, pc),
           UNCHANGED <<disk, turn>>, stuck \subseteq stuck', c \in active' => c \in active,
           call[c].pc \notin {"stream", "failget", "failsave", "ok", "idle", "error", "save"} \/ (pc = "error" /\ call[c].pc = "save"),
           pc = "validate" => Op[c] = "start", pc # "failget"
    PROVE  Gets(c) /\ Puts(c)
<1>1. call'[c].pc = pc /\ call'[c].th = call[c].th
    BY GotoMoves DEF Moves, CallPC
<1>2. ~Own(c) /\ ~Own(c)'
    BY <1>1, HandlerClosed DEF Own, Open
<1> QED BY <1>1, <1>2 DEF Gets, Puts, Writer

LEMMA TakesGoes ==
    ASSUME TypeInv, OpsInv, NEW c \in Calls, (Moves(c, "validate") /\ call[c].pc = "get") \/ (Moves(c, "archsave") /\ call[c].pc = "archget"),
           call'[c].rec = disk[call[c].th], UNCHANGED <<disk, turn, active, stuck>>
    PROVE  Gets(c) /\ Puts(c)
<1>1. /\ (call[c].pc = "get" /\ call'[c].pc = "validate") \/ (call[c].pc = "archget" /\ call'[c].pc = "archsave")
      /\ call'[c].th = call[c].th
    BY DEF Moves
<1>2. ~Own(c) /\ ~Own(c)'
    BY <1>1, HandlerClosed DEF Own, Open
<1> QED BY <1>1, <1>2 DEF Gets, Puts, Writer

LEMMA ReadsMove ==
    ASSUME TypeInv, NEW c \in Calls, call[c].pc \in Holding, NEW pc \in CallPC,
           call' = [call EXCEPT ![c].pc = pc, ![c].rec = disk[call[c].th]]
    PROVE  Moves(c, pc) /\ call'[c].rec = disk[call[c].th]
<1>1. PICK rec \in Record : rec = disk[call[c].th]
    BY ThreadTyped
<1> QED BY <1>1, TakesMoves

LEMMA EarlyGets ==
    ASSUME TypeInv, OpsInv, NEW c \in Calls,
           Ingest(c) \/ GetThread(c) \/ Replayed(c) \/ ArchiveGet(c)
    PROVE  Gets(c) /\ Puts(c)
<1>0. UNCHANGED <<disk, turn, active, stuck>> /\ call[c].pc \in {"ingest", "get", "replay", "archget"}
    BY DEF Ingest, GetThread, Replayed, ArchiveGet
<1>1. \/ \E pc \in {"ok", "error"} : Goto(c, pc)
      \/ Op[c] = "start" /\ Goto(c, "validate")
      \/ Goto(c, "get")
      \/ call[c].pc = "get" /\ call' = [call EXCEPT ![c].pc = "validate", ![c].rec = disk[call[c].th]]
      \/ call[c].pc = "archget" /\ call' = [call EXCEPT ![c].pc = "archsave", ![c].rec = disk[call[c].th]]
    BY DEF Ingest, GetThread, Replayed, ArchiveGet, Reject
<1>2. CASE call[c].pc = "get" /\ call' = [call EXCEPT ![c].pc = "validate", ![c].rec = disk[call[c].th]]
    <2>1. Moves(c, "validate") /\ call'[c].rec = disk[call[c].th]
        BY <1>2, ReadsMove DEF Holding, CallPC
    <2> QED BY <1>0, <1>2, <2>1, TakesGoes
<1>3. CASE call[c].pc = "archget" /\ call' = [call EXCEPT ![c].pc = "archsave", ![c].rec = disk[call[c].th]]
    <2>1. Moves(c, "archsave") /\ call'[c].rec = disk[call[c].th]
        BY <1>3, ReadsMove DEF Holding, CallPC
    <2> QED BY <1>0, <1>3, <2>1, TakesGoes
<1> QED BY <1>0, <1>1, <1>2, <1>3, PlainGoes

LEMMA ValidateGets ==
    ASSUME TypeInv, OpsInv, NEW c \in Calls, Validate(c)
    PROVE  Gets(c) /\ Puts(c)
<1>0. UNCHANGED <<disk, turn>> /\ call[c].pc = "validate"
    BY DEF Validate
<1>1. \/ (Goto(c, "error") \/ Goto(c, "create")) /\ UNCHANGED <<active, stuck>>
      \/ Op[c] = "resume" /\ ~Busy(call[c].rec, call[c].th) /\ Goto(c, "save") /\ UNCHANGED <<active, stuck>>
      \/ /\ Ephemeral(c) /\ ~Busy(call[c].rec, call[c].th) /\ stuck \subseteq stuck'
         /\ Goto(c, "error") \/ Goto(c, "stream")
    BY DEF Validate, Launch, Reject
<1>2. ~Own(c)
    BY <1>0, HandlerClosed DEF Own
<1>3. CASE (Goto(c, "error") \/ Goto(c, "create")) /\ UNCHANGED <<active, stuck>>
    BY <1>0, <1>3, PlainGoes
<1>4. CASE Op[c] = "resume" /\ ~Busy(call[c].rec, call[c].th) /\ Goto(c, "save") /\ UNCHANGED <<active, stuck>>
    <2>1. call'[c].pc = "save" /\ call'[c].th = call[c].th /\ call'[c].rec = call[c].rec
        BY <1>4, GotoMoves, GotoKeeps DEF Moves, CallPC
    <2>2. ~Own(c)'
        BY <1>0, <2>1, HandlerClosed DEF Own, Open
    <2> QED BY <1>0, <1>2, <1>4, <2>1, <2>2 DEF Gets, Puts, Writer, Ephemeral
<1>5. CASE /\ Ephemeral(c) /\ ~Busy(call[c].rec, call[c].th) /\ stuck \subseteq stuck'
           /\ Goto(c, "error") \/ Goto(c, "stream")
    <2>1. call'[c].pc \in {"error", "stream"} /\ call'[c].th = call[c].th
        BY <1>5, GotoMoves DEF Moves, CallPC
    <2> QED BY <1>0, <1>2, <1>5, <2>1 DEF Gets, Puts, Writer, Starts
<1> QED BY <1>1, <1>3, <1>4, <1>5

LEMMA WriteGets ==
    ASSUME TypeInv, OpsInv, NEW c \in Calls, CreateThread(c) \/ SaveTurn(c) \/ ArchiveSave(c)
    PROVE  Gets(c) /\ Puts(c)
<1>0. UNCHANGED turn /\ call[c].pc \in {"create", "save", "archsave"}
    BY DEF CreateThread, SaveTurn, ArchiveSave
<1>1. ~Own(c)
    BY <1>0, HandlerClosed DEF Own
<1>2. CASE CreateThread(c)
    <2>1. call[c].pc = "create" /\ UNCHANGED <<active, stuck>>
          /\ \/ Goto(c, "error") /\ UNCHANGED disk
             \/ disk' = [disk EXCEPT ![c] = Fresh] /\ call' = [call EXCEPT ![c].pc = "save", ![c].rec = Fresh]
        BY <1>2 DEF CreateThread, Fresh, Reject
    <2>2. CASE Goto(c, "error") /\ UNCHANGED disk
        BY <1>0, <2>1, <2>2, PlainGoes
    <2>3. CASE disk' = [disk EXCEPT ![c] = Fresh] /\ call' = [call EXCEPT ![c].pc = "save", ![c].rec = Fresh]
        <3>1. call'[c].pc = "save" /\ call'[c].th = call[c].th /\ call'[c].rec = Fresh
            BY <2>3, TakesMoves, FreshIs DEF Moves, CallPC
        <3>2. ~Own(c)'
            BY <1>0, <3>1, HandlerClosed DEF Own, Open
        <3> QED BY <1>1, <2>1, <2>3, <3>1, <3>2 DEF Gets, Puts, Writer
    <2> QED BY <2>1, <2>2, <2>3
<1>3. CASE SaveTurn(c)
    <2>1. /\ call[c].pc = "save" /\ stuck \subseteq stuck'
          /\ \/ /\ disk' = [disk EXCEPT ![call[c].th] = Started(call[c].rec, c)]
                /\ Goto(c, "stream") \/ (Goto(c, "error") /\ call[c].th \in stuck')
             \/ Goto(c, "error") /\ UNCHANGED disk
        BY <1>3 DEF SaveTurn, Launch, Reject
    <2>2. call'[c].th = call[c].th
        BY <2>1, GotoMoves DEF Moves, CallPC
    <2>3. \A pc \in {"error", "stream"} : Goto(c, pc) => call'[c].pc = pc
        BY GotoMoves DEF Moves, CallPC
    <2> QED BY <1>1, <2>1, <2>2, <2>3 DEF Gets, Puts, Writer, Starts
<1>4. CASE ArchiveSave(c)
    <2>1. /\ call[c].pc = "archsave" /\ UNCHANGED <<active, stuck>>
          /\ \/ disk' = [disk EXCEPT ![call[c].th] = [call[c].rec EXCEPT !.archived = TRUE]] /\ Goto(c, "ok")
             \/ Goto(c, "error") /\ UNCHANGED disk
        BY <1>4 DEF ArchiveSave
    <2>2. \A pc \in {"error", "ok"} : Goto(c, pc) => call'[c].pc = pc /\ call'[c].th = call[c].th
        BY GotoMoves DEF Moves, CallPC
    <2>3. ~Own(c)'
        BY <1>0, <2>1, <2>2, HandlerClosed DEF Own, Open
    <2> QED BY <1>1, <2>1, <2>2, <2>3 DEF Gets, Puts, Writer
<1> QED BY <1>2, <1>3, <1>4

LEMMA StreamGets ==
    ASSUME TypeInv, OpsInv, NEW c \in Calls, Streamed(c) \/ FailedGet(c) \/ FailedSave(c)
    PROVE  Gets(c) /\ Puts(c)
<1>0. call[c].pc \in {"stream", "failget", "failsave"} /\ Own(c) /\ turn[c].pc = "none" /\ turn[c] = NoTurn
    BY HandlerClosed DEF Streamed, FailedGet, FailedSave, Own, TypeInv, TurnsMeant
<1>1. CASE Streamed(c)
    <2>1. /\ call[c].pc = "stream" /\ UNCHANGED <<disk, stuck>> /\ (c \in active' => c \in active)
          /\ \/ Goto(c, "ok") /\ turn' = [turn EXCEPT ![c].pc = "read"]
             \/ Ephemeral(c) /\ Goto(c, "error")
             \/ ~Ephemeral(c) /\ Goto(c, "failget")
        BY <1>1 DEF Streamed, Reject
    <2>2. \A pc \in {"error", "ok", "failget"} : Goto(c, pc) => call'[c].pc = pc /\ call'[c].th = call[c].th
        BY GotoMoves DEF Moves, CallPC
    <2>3. turn' = [turn EXCEPT ![c].pc = "read"] => Open(c)'
        <3>1. turn' = [turn EXCEPT ![c].pc = "read"] => turn'[c] = [NoTurn EXCEPT !.pc = "read"]
            BY <1>0, CallTyped
        <3>2. [NoTurn EXCEPT !.pc = "read"].pc = "read" /\ ~[NoTurn EXCEPT !.pc = "read"].finalized
            BY DEF NoTurn
        <3> QED BY <3>1, <3>2 DEF Open, OverPC
    <2>4. Writer(c) => Own(c)'
        BY <2>1, <2>2, <2>3 DEF Own, Writer
    <2> QED BY <1>0, <2>1, <2>2, <2>4 DEF Gets, Puts
<1>2. CASE FailedGet(c)
    <2>1. call[c].pc = "failget" /\ UNCHANGED <<disk, active, stuck>> /\ call' = [call EXCEPT ![c].pc = "failsave", ![c].rec = disk[call[c].th]]
        BY <1>2 DEF FailedGet
    <2>2. disk[call[c].th] \in Record
        BY <2>1, ThreadTyped DEF Holding
    <2>3. call'[c].pc = "failsave" /\ call'[c].th = call[c].th /\ call'[c].rec = disk[call[c].th]
        <3>1. PICK rec \in Record : rec = disk[call[c].th]
            BY <2>2
        <3>2. call' = [call EXCEPT ![c].pc = "failsave", ![c].rec = rec]
            BY <2>1, <3>1
        <3>3. Moves(c, "failsave") /\ call'[c].rec = rec
            BY <3>2, TakesMoves DEF CallPC
        <3> QED BY <3>1, <3>3 DEF Moves
    <2> QED BY <1>0, <2>1, <2>3 DEF Gets, Puts, Own
<1>3. CASE FailedSave(c)
    <2>1. /\ call[c].pc = "failsave" /\ Goto(c, "error") /\ UNCHANGED active /\ stuck \subseteq stuck'
          /\ (UNCHANGED disk /\ call[c].th \in stuck') \/ disk' = [disk EXCEPT ![call[c].th] = Finished(call[c].rec, c, "failed")]
        BY <1>3 DEF FailedSave, Reject
    <2>2. call'[c].pc = "error" /\ call'[c].th = call[c].th
        BY <2>1, GotoMoves DEF Moves, CallPC
    <2> QED BY <1>0, <1>3, <2>1, <2>2 DEF Gets, Puts
<1> QED BY <1>1, <1>2, <1>3

LEMMA HandlerGets ==
    ASSUME TypeInv, OpsInv, NEW c \in Calls, Handles(c)
    PROVE  Gets(c) /\ Puts(c)
BY EarlyGets, ValidateGets, WriteGets, StreamGets DEF Handles

----------------------------------------------------------------------------
(* The records of a thread *)

\* What a record of thread th, on disk or in a handler's hands, may say of
\* turn t: an end that was told is there, and who is said to run is run.
Fits(rec, th, t) ==
    /\ told[t] = "completed" /\ ~Ephemeral(t) /\ call[t].th = th /\ ~rec.archived => rec.turns[t] = "completed"
    /\ rec.turns[t] = "running" => /\ call[t].th = th /\ Past(t) /\ ~Ephemeral(t)
                                   /\ th \notin stuck /\ ~rec.archived => Own(t)
Kept(rec, th) == \A t \in Calls : Fits(rec, th, t)
Calm(rec) == \A t \in Calls : rec.turns[t] # "running"

OneHolder == \A t, u \in Calls : Holder(t) /\ Holder(u) /\ call[t].th = call[u].th => t = u
WriterRuns == \A t \in Calls : Writer(t) => disk[call[t].th].turns[t] = "running"
DiskKept == \A th \in Threads : Kept(disk[th], th)
ToldInv == \A t \in Calls : told[t] # "none" => turn[t].pc # "none" /\ call[t].th \in Threads /\ ~Born(call[t].th)
LastingInv == \A c \in Calls : call[c].pc \in {"save", "failget", "failsave"} => ~Ephemeral(c)

\* The record that a turn holds between reading and writing.
TurnHeld(t) ==
    turn[t].pc \in {"sdksave", "finsave"} =>
        Kept(turn[t].rec, call[t].th) /\ (~Ephemeral(t) => turn[t].rec.turns[t] = "running")
\* The record that a handler holds, by what it is about to do with it.
ValidHeld(c) ==
    call[c].pc = "validate" /\ Op[c] # "start" =>
        ~Calm(call[c].rec) \/ (Kept(call[c].rec, call[c].th) /\ \A u \in Calls : Writer(u) => call[u].th # call[c].th)
SaveHeld(c) ==
    call[c].pc = "save" => /\ Kept(call[c].rec, call[c].th) /\ Calm(call[c].rec)
                           /\ \A u \in Calls : Holder(u) => call[u].th # call[c].th
FailHeld(c) ==
    call[c].pc = "failsave" => Kept(call[c].rec, call[c].th) /\ call[c].rec.turns[c] = "running"
ArchHeld(c) ==
    call[c].pc = "archsave" =>
        /\ \A u \in Calls : Writer(u) /\ call[u].th = call[c].th => call[c].rec.turns[u] = "running"
        /\ \A u \in Calls : call[c].rec.turns[u] = "running" => call[u].th = call[c].th /\ Past(u) /\ ~Ephemeral(u)
HeldInv == \A c \in Calls : TurnHeld(c) /\ ValidHeld(c) /\ SaveHeld(c) /\ FailHeld(c) /\ ArchHeld(c)

FileInv ==
    /\ LocalInv /\ BornInv /\ UseInv /\ OneCaller /\ HeardInv /\ FinInv
    /\ OneHolder /\ WriterRuns /\ DiskKept /\ ToldInv /\ LastingInv /\ HeldInv

\* One actor's step.
Still == (\A u \in Calls : Unmoved(u)) /\ UNCHANGED <<disk, stuck>>
Actor(c) == Lone(c) /\ UNCHANGED plan /\ (Handles(c) \/ Comes(c) \/ TurnActs(c) \/ Still)
Closes(c) == FailedSave(c) \/ FinishSave(c)

LEMMA SomeActor ==
    ASSUME LocalInv, [Next]_vars, ~Restart, NEW t \in Calls
    PROVE  \E c \in Calls : Actor(c)
<1>0. TypeInv /\ UNCHANGED plan
    BY PlanKept DEF LocalInv
<1>1. CASE Elsewhere
    <2>1. Still /\ Lone(t)
        BY <1>0, <1>1, ElsewhereLone DEF Still, Lone
    <2> QED BY <1>0, <2>1 DEF Actor
<1>2. ASSUME NEW c \in Calls, Handles(c) \/ Comes(c) \/ TurnActs(c) PROVE Actor(c)
    <2>1. Lone(c)
        BY <1>0, <1>2, HandlerLone, ComerLone, ActorLone
    <2> QED BY <1>0, <1>2, <2>1 DEF Actor
<1> QED BY <1>1, <1>2, NextIs

LEMMA HandlerPC ==
    ASSUME TypeInv, NEW c \in Calls, Handles(c)
    PROVE  call[c].pc \in Holding \cup {"replay"} /\ turn[c].pc = "none" /\ ~Open(c) /\ turn'[c].pc \in {"none", "read"}
<1>1. call[c].pc \in Holding \cup {"replay"}
    BY DEF Handles, Ingest, GetThread, Validate, CreateThread, SaveTurn, Streamed, FailedGet, FailedSave, Replayed,
           ArchiveGet, ArchiveSave, Holding
<1>2. turn[c].pc = "none" /\ ~Open(c)
    BY <1>1, HandlerClosed DEF Holding
<1>3. turn' = [turn EXCEPT ![c].pc = "read"] => turn'[c].pc = "read"
    BY CallTyped DEF TurnState
<1> QED BY <1>1, <1>2, <1>3, HandlerLone

LEMMA HolderPast ==
    ASSUME TypeInv, NEW c \in Calls, Holder(c)
    PROVE  Past(c)
BY DEF TypeInv, ActiveMeant, TurnsMeant, Holder, Writer, Own, Open, Past, OverPC

LEMMA CloserIs ==
    ASSUME LocalInv, FinInv, LastingInv, NEW c \in Calls, Closes(c)
    PROVE  /\ Writer(c) /\ Holder(c) /\ Past(c)
           /\ (call[c].pc = "failsave" /\ FailedSave(c)) \/ (call[c].pc = "ok" /\ turn[c].pc = "finsave" /\ FinishSave(c))
<1>1. CASE FailedSave(c)
    BY <1>1 DEF FailedSave, LastingInv, Writer, Own, Holder, Past
<1>2. CASE FinishSave(c)
    <2>1. turn[c].pc = "finsave" /\ Open(c) /\ ~Ephemeral(c)
        BY <1>2, ReadOpen DEF FinishSave, At, LocalInv, FinInv, FinFit
    <2>2. call[c].pc = "ok"
        BY <2>1 DEF LocalInv, TypeInv, TurnsMeant
    <2> QED BY <1>2, <2>1, <2>2 DEF Writer, Own, Holder, Past
<1> QED BY <1>1, <1>2 DEF Closes

\* What a step leaves of its actor.
LEMMA ActorPuts ==
    ASSUME LocalInv, FinInv, NEW c \in Calls, [Next]_vars, ~Restart, Actor(c)
    PROVE  /\ Writer(c) => Own(c)' \/ Closes(c)
           /\ Holder(c)' => Holder(c) \/ (Handles(c) /\ Starts(c))
           /\ Writer(c)' => Writer(c) \/ (Handles(c) /\ call[c].pc = "save")
           /\ Past(c) => Past(c)' /\ call'[c].th = call[c].th
           /\ told'[c] = "completed" => told[c] = "completed" \/ Ephemeral(c) \/ FinishSave(c)
           /\ ~Handles(c) /\ ~Comes(c) => call'[c] = call[c]
           /\ stuck \subseteq stuck'
           /\ Ephemeral(c)' <=> Ephemeral(c)
<1>0. TypeInv /\ OpsInv /\ CallMove(c) /\ (Ephemeral(c)' <=> Ephemeral(c))
    BY StepMoves DEF LocalInv, Actor, Ephemeral, Op
<1>1. Past(c) => Past(c)' /\ call'[c].th = call[c].th
    BY <1>0 DEF CallMove, Enters, Follows, Past, Settled
<1>2. CASE Handles(c)
    <2>1. Gets(c) /\ Puts(c) /\ told' = told
        BY <1>0, <1>2, HandlerGets, HandlerLone
    <2>2. Writer(c)' => Writer(c) \/ call[c].pc = "save"
        BY <1>0, <2>1 DEF Writer, Puts, Starts
    <2> QED BY <1>0, <1>1, <1>2, <2>1, <2>2 DEF Gets, Puts, Closes, Writer, Holder
<1>3. CASE Comes(c)
    <2>1. UNCHANGED <<turn, disk, active, told, stuck>> /\ call[c].pc = "idle"
        BY <1>0, <1>3, ComerLone
    <2>2. ~Holder(c)
        BY <1>0, <2>1, HolderPast DEF Past
    <2>3. ~Writer(c)'
        <3>1. call'[c].pc \notin {"stream", "failget", "failsave"}
            BY <1>0, <2>1 DEF CallMove, Enters, Follows, Settled
        <3>2. ~Open(c)'
            BY <2>1, <2>2, HandlerClosed, <1>0 DEF Open
        <3> QED BY <3>1, <3>2 DEF Writer, Own
    <2> QED BY <1>0, <1>1, <1>3, <2>1, <2>2, <2>3 DEF Holder
<1>4. CASE TurnActs(c)
    <2>1. UNCHANGED call /\ turn[c].pc # "none"
        BY <1>0, <1>4, ActorLone
    <2>2. call[c].pc = "ok"
        BY <1>0, <2>1 DEF TypeInv, TurnsMeant
    <2>3. (Own(c) <=> Open(c)) /\ (Own(c)' <=> Open(c)')
        BY <2>1, <2>2 DEF Own
    <2>4. (FinishSave(c) \/ Fares(c)) /\ active' \subseteq active
        BY <1>0, <1>4, ActFares
    <2>5. stuck \subseteq stuck'
        <3>1. FinishSave(c) => stuck \subseteq stuck'
            BY DEF FinishSave
        <3> QED BY <1>0, <1>4, <3>1, ActFares
    <2>6. CASE FinishSave(c)
        <3>1. Writer(c)
            <4>1. Open(c) /\ ~Ephemeral(c)
                BY <1>0, <2>6, FinishFares DEF Actor
            <4> QED BY <2>3, <4>1 DEF Writer
        <3> QED BY <1>0, <1>1, <2>1, <2>4, <2>5, <2>6, <3>1 DEF Closes, Holder
    <2>7. CASE Fares(c)
        <3>1. Writer(c)' => Writer(c)
            BY <1>0, <2>3, <2>7 DEF Writer, Fares
        <3>2. Writer(c) => Own(c)'
            BY <2>3, <2>7 DEF Writer, Fares
        <3>3. Holder(c)' => Holder(c)
            BY <2>4, <3>1 DEF Holder
        <3> QED BY <1>0, <1>1, <2>1, <2>5, <2>7, <3>1, <3>2, <3>3 DEF Fares
    <2> QED BY <2>4, <2>6, <2>7
<1>5. CASE Still
    <2>1. Unmoved(c) /\ UNCHANGED stuck
        BY <1>5 DEF Still
    <2> QED BY <1>0, <1>1, <2>1, UnmovedSame DEF Actor, Writer
<1> QED BY <1>2, <1>3, <1>4, <1>5 DEF Actor

\* What a record says of an actor that does not write its end.
LEMMA FitsStays ==
    ASSUME LocalInv, FinInv, ToldInv, NEW c \in Calls, [Next]_vars, ~Restart, Actor(c), NEW rec, NEW th, Fits(rec, th, c),
           Writer(c) => Own(c)', told'[c] = "completed" => told[c] = "completed" \/ Ephemeral(c)
    PROVE  Fits(rec, th, c)'
<1>1. told[c] # "none" => Past(c)
    BY DEF LocalInv, TypeInv, TurnsMeant, ToldInv, Past
<1>2. /\ Past(c) => Past(c)' /\ call'[c].th = call[c].th
      /\ stuck \subseteq stuck' /\ (Ephemeral(c)' <=> Ephemeral(c))
    BY ActorPuts
<1> QED BY <1>1, <1>2 DEF Fits, Writer

LEMMA FitsElsewhere ==
    ASSUME LocalInv, FinInv, NEW c \in Calls, [Next]_vars, ~Restart, Actor(c), NEW rec, NEW th, Fits(rec, th, c),
           call[c].th # th, Past(c)
    PROVE  Fits(rec, th, c)'
<1>1. call'[c].th = call[c].th
    BY ActorPuts
<1> QED BY <1>1 DEF Fits

LEMMA KeptStays ==
    ASSUME LocalInv, FinInv, NEW c \in Calls, [Next]_vars, ~Restart, Actor(c), NEW rec, NEW new, NEW th, Kept(rec, th),
           \A t \in Calls \ {c} : new.turns[t] = rec.turns[t], new.archived = rec.archived, Fits(new, th, c)'
    PROVE  Kept(new, th)'
<1>1. stuck \subseteq stuck'
    BY ActorPuts
<1>2. ASSUME NEW t \in Calls, t # c PROVE Fits(new, th, t)'
    <2>1. /\ (Own(t)' <=> Own(t)) /\ (Past(t)' <=> Past(t)) /\ (Ephemeral(t)' <=> Ephemeral(t))
          /\ call'[t] = call[t] /\ told'[t] = told[t]
        BY <1>2, UnmovedSame DEF Actor, Lone
    <2>2. Fits(rec, th, t)
        BY DEF Kept
    <2> QED BY <1>1, <1>2, <2>1, <2>2 DEF Fits
<1> QED BY <1>2 DEF Kept

LEMMA KeptFree ==
    ASSUME LocalInv, FinInv, ToldInv, LastingInv, NEW c \in Calls, [Next]_vars, ~Restart, Actor(c), NEW rec, NEW th, Kept(rec, th),
           Closes(c) => call[c].th # th
    PROVE  Kept(rec, th)'
<1>1. Fits(rec, th, c)
    BY DEF Kept
<1>2. CASE Closes(c)
    <2>1. Past(c) /\ call[c].th # th
        BY <1>2, CloserIs
    <2>2. Fits(rec, th, c)'
        BY <1>1, <2>1, FitsElsewhere
    <2> QED BY <2>2, KeptStays
<1>3. CASE ~Closes(c)
    <2>1. (Writer(c) => Own(c)') /\ (told'[c] = "completed" => told[c] = "completed" \/ Ephemeral(c))
        BY <1>3, ActorPuts DEF Closes
    <2>2. Fits(rec, th, c)'
        BY <1>1, <2>1, FitsStays
    <2> QED BY <2>2, KeptStays
<1> QED BY <1>2, <1>3

LEMMA HolderKeeps ==
    ASSUME FileInv, [Next]_vars, ~Restart, NEW c \in Calls, Actor(c), NEW t \in Calls, Holder(t)'
    PROVE  /\ Holder(t) \/ (t = c /\ Handles(c) /\ Starts(c))
           /\ Writer(t)' => Writer(t) \/ (t = c /\ Handles(c) /\ call[c].pc = "save")
           /\ call'[t].th = call[t].th
<1>0. LocalInv /\ FinInv /\ TypeInv
    BY DEF FileInv, LocalInv
<1>1. CASE t # c
    <2>1. Unmoved(t) /\ UNCHANGED plan
        BY <1>1 DEF Actor, Lone
    <2> QED BY <1>1, <2>1, UnmovedSame
<1>2. CASE t = c
    <2>1. /\ Holder(c) \/ (Handles(c) /\ Starts(c))
          /\ Writer(c)' => Writer(c) \/ (Handles(c) /\ call[c].pc = "save")
        BY <1>0, <1>2, ActorPuts
    <2>2. Holder(c) => call'[c].th = call[c].th
        BY <1>0, ActorPuts, HolderPast
    <2>3. Handles(c) => call'[c].th = call[c].th
        BY <1>0, HandlerGets DEF LocalInv, Gets
    <2> QED BY <1>2, <2>1, <2>2, <2>3
<1> QED BY <1>1, <1>2

LEMMA HolderUses ==
    ASSUME TypeInv, NEW t \in Calls, Holder(t)
    PROVE  Uses(t)
BY DEF Holder, Writer, Own, Open, Uses, Holding

\* Whoever begins a turn finds its thread free.
LEMMA StartsFree ==
    ASSUME FileInv, NEW c \in Calls, Starts(c), NEW u \in Calls, Holder(u)
    PROVE  call[u].th # call[c].th
<1>1. CASE call[c].pc = "save"
    BY <1>1 DEF FileInv, HeldInv, SaveHeld
<1>2. CASE call[c].pc = "validate" /\ Ephemeral(c) /\ ~Busy(call[c].rec, call[c].th)
    <2>1. Op[c] # "start" /\ Calm(call[c].rec) /\ \A t \in active : call[t].th # call[c].th
        BY <1>2 DEF Ephemeral, Busy, Calm
    <2>2. \A t \in Calls : Writer(t) => call[t].th # call[c].th
        BY <1>2, <2>1 DEF FileInv, HeldInv, ValidHeld
    <2> QED BY <2>1, <2>2 DEF Holder
<1> QED BY <1>1, <1>2 DEF Starts

LEMMA OneHolderStep ==
    ASSUME FileInv, [Next]_vars, ~Restart
    PROVE  OneHolder'
<1> SUFFICES ASSUME NEW t \in Calls, NEW u \in Calls, Holder(t)', Holder(u)', call'[t].th = call'[u].th
             PROVE  t = u
    BY DEF OneHolder
<1>1. PICK c \in Calls : Actor(c)
    BY SomeActor DEF FileInv
<1>2. /\ Holder(t) \/ (t = c /\ Starts(c))
      /\ Holder(u) \/ (u = c /\ Starts(c))
      /\ call[t].th = call[u].th
    BY <1>1, HolderKeeps
<1>3. Holder(t) /\ Holder(u) => t = u
    BY <1>2 DEF FileInv, OneHolder
<1> QED BY <1>2, <1>3, StartsFree

\* A thread that is being created has no other user.
LEMMA CreatorAlone ==
    ASSUME FileInv, NEW c \in Calls, call[c].pc = "create"
    PROVE  /\ c \in Threads /\ call[c].th = c /\ Born(c)
           /\ \A u \in Calls : Holder(u) => call[u].th # c
           /\ \A u \in Calls : told[u] # "none" => call[u].th # c
<1>0. TypeInv
    BY DEF FileInv, LocalInv
<1>1. Op[c] = "start" /\ call[c].th = c
    BY DEF FileInv, LocalInv, OpsInv, OpsFit, Holding
<1>2. Born(c) /\ c \in Threads
    BY <1>1 DEF Born, Threads
<1>3. ~Holder(c) 
    BY <1>0, HolderPast DEF Past
<1>4. ASSUME NEW u \in Calls, Holder(u), call[u].th = c PROVE FALSE
    <2>1. u # c /\ Uses(u)
        BY <1>0, <1>3, <1>4, HolderUses
    <2> QED BY <1>2, <1>4, <2>1 DEF FileInv, UseInv
<1>5. ASSUME NEW u \in Calls, told[u] # "none", call[u].th = c PROVE FALSE
    BY <1>2, <1>5 DEF FileInv, ToldInv
<1> QED BY <1>1, <1>2, <1>4, <1>5

\* Who writes the file.
LEMMA DiskBy ==
    ASSUME FileInv, [Next]_vars, ~Restart, NEW c \in Calls, Actor(c)
    PROVE  \/ /\ UNCHANGED disk /\ (Handles(c) /\ call[c].pc = "save" => call'[c].pc = "error")
              /\ FailedSave(c) => call[c].th \in stuck'
              /\ FinishSave(c) => (call[c].th \in stuck' /\ UNCHANGED told) \/ Fares(c)
           \/ Handles(c) /\ call[c].pc = "create" /\ call'[c].pc = "save" /\ disk' = [disk EXCEPT ![c] = Fresh]
           \/ /\ Handles(c) /\ call[c].pc = "save" /\ disk' = [disk EXCEPT ![call[c].th] = Started(call[c].rec, c)]
              /\ call'[c].pc = "stream" \/ (call'[c].pc = "error" /\ call[c].th \in stuck')
           \/ /\ Handles(c) /\ call[c].pc = "failsave" /\ call'[c].pc = "error"
              /\ disk' = [disk EXCEPT ![call[c].th] = Finished(call[c].rec, c, "failed")]
           \/ /\ Handles(c) /\ call[c].pc = "archsave" /\ call'[c].pc = "ok"
              /\ disk' = [disk EXCEPT ![call[c].th] = [call[c].rec EXCEPT !.archived = TRUE]]
           \/ /\ turn[c].pc = "sdksave" /\ ~FinishSave(c) /\ call[c].pc = "ok"
              /\ disk' = [disk EXCEPT ![call[c].th] = [turn[c].rec EXCEPT !.sdk = TRUE]]
           \/ /\ turn[c].pc = "finsave" /\ call[c].pc = "ok" /\ ~Open(c)' /\ UNCHANGED call
              /\ told'[c] = "completed" /\ told[c] # "completed" => Status(c) = "completed"
              /\ disk' = [disk EXCEPT ![call[c].th] = Finished(turn[c].rec, c, Status(c))]
<1>0. LocalInv /\ TypeInv /\ OpsInv /\ FinInv /\ LastingInv
    BY DEF FileInv, LocalInv
<1>1. CASE Handles(c)
    <2>1. Puts(c)
        BY <1>0, <1>1, HandlerGets
    <2>2. ~FinishSave(c)
        <3>1. turn[c].pc = "none"
            BY <1>0, <1>1, HandlerPC
        <3> QED BY <3>1 DEF FinishSave, At
    <2>3. FailedSave(c) => call[c].pc = "failsave"
        BY DEF FailedSave
    <2> QED BY <1>1, <2>1, <2>2, <2>3 DEF Puts
<1>2. ASSUME Comes(c) \/ Still, ~Handles(c), ~TurnActs(c)
      PROVE  UNCHANGED disk /\ ~FailedSave(c) /\ ~FinishSave(c)
    BY <1>0, <1>2, ComerLone DEF Still, Handles, TurnActs, TurnStep
<1>3. CASE TurnActs(c)
    <2>1. turn[c].pc # "none" /\ UNCHANGED <<call, plan>>
        BY <1>0, <1>3, ActorLone
    <2>2. call[c].pc = "ok" /\ ~Handles(c) /\ ~FailedSave(c)
        <3>1. call[c].pc = "ok"
            BY <1>0, <2>1 DEF TypeInv, TurnsMeant
        <3> QED BY <1>0, <2>1, <3>1, HandlerPC DEF FailedSave
    <2>3. CASE FinishSave(c)
        <3>1. turn[c].pc = "finsave"
            BY <2>3 DEF FinishSave, At
        <3> QED BY <1>0, <2>1, <2>2, <2>3, <3>1, FinishFares
    <2>4. CASE ~FinishSave(c)
        BY <1>0, <1>3, <2>2, <2>4, ActFares
    <2> QED BY <2>3, <2>4
<1> QED BY <1>1, <1>2, <1>3 DEF Actor

LEMMA FinishedTurns ==
    ASSUME NEW rec \in Record, NEW c \in Calls, NEW status
    PROVE  /\ \A t \in Calls \ {c} : Finished(rec, c, status).turns[t] = rec.turns[t] /\ Started(rec, c).turns[t] = rec.turns[t]
           /\ Finished(rec, c, status).archived = rec.archived /\ Started(rec, c).archived = rec.archived
           /\ Started(rec, c).turns[c] = "running"
           /\ rec.turns[c] # "none" => Finished(rec, c, status).turns[c] = status
BY DEF Finished, Started, Record

LEMMA SdkTurns ==
    ASSUME NEW rec \in Record
    PROVE  /\ [rec EXCEPT !.sdk = TRUE].turns = rec.turns /\ [rec EXCEPT !.sdk = TRUE].archived = rec.archived
           /\ [rec EXCEPT !.archived = TRUE].turns = rec.turns /\ [rec EXCEPT !.archived = TRUE].archived
BY DEF Record

\* The turns at work on a record hold its thread.
LEMMA TurnHolds ==
    ASSUME FileInv, NEW t \in Calls, turn[t].pc \in {"sdksave", "finsave"}
    PROVE  Holder(t) /\ Open(t) /\ call[t].pc = "ok" /\ (turn[t].pc = "finsave" => Writer(t)) /\ TurnHeld(t) /\ turn[t].rec \in Record
           /\ call[t].th \in Threads
<1>0. TypeInv /\ FinInv
    BY DEF FileInv, LocalInv
<1>1. Open(t)
    BY <1>0, ReadOpen
<1>2. turn[t].pc = "finsave" => Writer(t)
    BY <1>0, <1>1 DEF FinInv, FinFit, Writer, Own
<1>3. turn[t].pc = "sdksave" => t \in active
    BY DEF FileInv, HeardInv, Heard
<1>4. call[t].pc = "ok"
    BY <1>0 DEF TypeInv, TurnsMeant
<1>5. TurnHeld(t)
    BY DEF FileInv, HeldInv
<1>6. turn[t].rec \in Record /\ call[t].th \in Threads
    BY <1>0, CallTyped, ThreadTyped DEF OverPC
<1> QED BY <1>1, <1>2, <1>3, <1>4, <1>5, <1>6 DEF Holder

----------------------------------------------------------------------------
(* What a step writes *)

LEMMA WriteAt ==
    ASSUME TypeInv, NEW x, NEW rec, disk' = [disk EXCEPT ![x] = rec], NEW th \in Threads
    PROVE  disk'[th] = IF th = x THEN rec ELSE disk[th]
BY DEF TypeInv, TypeOK

\* A record written is the record held, with one entry set.
Sets(new, rec, c, status) ==
    /\ new.archived = rec.archived /\ new.turns[c] = status
    /\ \A u \in Calls \ {c} : new.turns[u] = rec.turns[u]
Copies(new, rec) == new.archived = rec.archived /\ new.turns = rec.turns
Archives(new, rec) == new.archived /\ new.turns = rec.turns
\* What a step of c leaves in the file of a thread that it is about.
Passes(c, th) ==
    /\ disk'[th] = disk[th] /\ (Handles(c) /\ call[c].pc = "save" => call'[c].pc = "error")
    /\ FailedSave(c) => th \in stuck'
    /\ FinishSave(c) => (th \in stuck' /\ UNCHANGED told) \/ Fares(c)
Creates(c, th) == Handles(c) /\ call[c].pc = "create" /\ call'[c].pc = "save" /\ disk'[th] = Fresh
Begun(c, th) ==
    /\ Handles(c) /\ call[c].pc = "save" /\ Sets(disk'[th], call[c].rec, c, "running")
    /\ call'[c].pc = "stream" \/ (call'[c].pc = "error" /\ th \in stuck')
Failed(c, th) == Handles(c) /\ call[c].pc = "failsave" /\ call'[c].pc = "error" /\ Sets(disk'[th], call[c].rec, c, "failed")
Archived(c, th) == Handles(c) /\ call[c].pc = "archsave" /\ call'[c].pc = "ok" /\ Archives(disk'[th], call[c].rec)
Named(c, th) == turn[c].pc = "sdksave" /\ ~FinishSave(c) /\ call[c].pc = "ok" /\ Copies(disk'[th], turn[c].rec)
Ended(c, th) ==
    /\ turn[c].pc = "finsave" /\ call[c].pc = "ok" /\ ~Open(c)' /\ UNCHANGED call
    /\ told'[c] = "completed" /\ told[c] # "completed" => Status(c) = "completed"
    /\ Sets(disk'[th], turn[c].rec, c, Status(c))

LEMMA FileBy ==
    ASSUME FileInv, [Next]_vars, ~Restart, NEW c \in Calls, Actor(c), NEW th \in Threads
    PROVE  \/ call[c].th # th /\ disk'[th] = disk[th]
           \/ /\ call[c].th = th
              /\ Passes(c, th) \/ Creates(c, th) \/ Begun(c, th) \/ Failed(c, th) \/ Archived(c, th) \/ Named(c, th) \/ Ended(c, th)
<1>0. TypeInv /\ call[c].rec \in Record /\ turn[c].rec \in Record
    BY CallTyped DEF FileInv, LocalInv
<1>1. ASSUME NEW new, disk' = [disk EXCEPT ![call[c].th] = new]
      PROVE  disk'[th] = IF th = call[c].th THEN new ELSE disk[th]
    BY <1>0, <1>1, WriteAt
<1>2. CASE /\ UNCHANGED disk /\ (Handles(c) /\ call[c].pc = "save" => call'[c].pc = "error")
           /\ FailedSave(c) => call[c].th \in stuck'
           /\ FinishSave(c) => (call[c].th \in stuck' /\ UNCHANGED told) \/ Fares(c)
    BY <1>2 DEF Passes
<1>3. CASE Handles(c) /\ call[c].pc = "create" /\ call'[c].pc = "save" /\ disk' = [disk EXCEPT ![c] = Fresh]
    <2>1. call[c].th = c
        BY <1>3, CreatorAlone
    <2>2. disk'[th] = IF th = c THEN Fresh ELSE disk[th]
        BY <1>0, <1>3, WriteAt
    <2> QED BY <1>3, <2>1, <2>2 DEF Creates
<1>4. CASE /\ Handles(c) /\ call[c].pc = "save" /\ disk' = [disk EXCEPT ![call[c].th] = Started(call[c].rec, c)]
           /\ call'[c].pc = "stream" \/ (call'[c].pc = "error" /\ call[c].th \in stuck')
    <2>1. Sets(Started(call[c].rec, c), call[c].rec, c, "running")
        BY <1>0, FinishedTurns DEF Sets
    <2>2. disk'[th] = IF th = call[c].th THEN Started(call[c].rec, c) ELSE disk[th]
        BY <1>1, <1>4
    <2>3. Handles(c) /\ call[c].pc = "save" /\ (call'[c].pc = "stream" \/ (call'[c].pc = "error" /\ call[c].th \in stuck'))
        BY <1>4
    <2> QED BY <2>1, <2>2, <2>3 DEF Begun
<1>5. CASE /\ Handles(c) /\ call[c].pc = "failsave" /\ call'[c].pc = "error"
           /\ disk' = [disk EXCEPT ![call[c].th] = Finished(call[c].rec, c, "failed")]
    <2>1. Sets(Finished(call[c].rec, c, "failed"), call[c].rec, c, "failed")
        <3>1. call[c].rec.turns[c] = "running"
            BY <1>5 DEF FileInv, HeldInv, FailHeld
        <3> QED BY <1>0, <3>1, FinishedTurns DEF Sets
    <2>2. disk'[th] = IF th = call[c].th THEN Finished(call[c].rec, c, "failed") ELSE disk[th]
        BY <1>1, <1>5
    <2>3. Handles(c) /\ call[c].pc = "failsave" /\ call'[c].pc = "error"
        BY <1>5
    <2> QED BY <2>1, <2>2, <2>3 DEF Failed
<1>6. CASE /\ Handles(c) /\ call[c].pc = "archsave" /\ call'[c].pc = "ok"
           /\ disk' = [disk EXCEPT ![call[c].th] = [call[c].rec EXCEPT !.archived = TRUE]]
    <2> DEFINE w == [call[c].rec EXCEPT !.archived = TRUE]
    <2>1. Archives(w, call[c].rec)
        BY <1>0, SdkTurns DEF Archives
    <2>2. disk'[th] = IF th = call[c].th THEN w ELSE disk[th]
        BY <1>1, <1>6
    <2> HIDE DEF w
    <2>3. Handles(c) /\ call[c].pc = "archsave" /\ call'[c].pc = "ok"
        BY <1>6
    <2> QED BY <2>1, <2>2, <2>3 DEF Archived
<1>7. CASE /\ turn[c].pc = "sdksave" /\ ~FinishSave(c) /\ call[c].pc = "ok"
           /\ disk' = [disk EXCEPT ![call[c].th] = [turn[c].rec EXCEPT !.sdk = TRUE]]
    <2> DEFINE w == [turn[c].rec EXCEPT !.sdk = TRUE]
    <2>1. Copies(w, turn[c].rec)
        BY <1>0, SdkTurns DEF Copies
    <2>2. disk'[th] = IF th = call[c].th THEN w ELSE disk[th]
        BY <1>1, <1>7
    <2> HIDE DEF w
    <2>3. turn[c].pc = "sdksave" /\ ~FinishSave(c) /\ call[c].pc = "ok"
        BY <1>7
    <2> QED BY <2>1, <2>2, <2>3 DEF Named
<1>8. CASE /\ turn[c].pc = "finsave" /\ call[c].pc = "ok" /\ ~Open(c)' /\ UNCHANGED call
           /\ told'[c] = "completed" /\ told[c] # "completed" => Status(c) = "completed"
           /\ disk' = [disk EXCEPT ![call[c].th] = Finished(turn[c].rec, c, Status(c))]
    <2>1. Sets(Finished(turn[c].rec, c, Status(c)), turn[c].rec, c, Status(c))
        <3>1. turn[c].rec.turns[c] = "running"
            BY <1>8, TurnHolds DEF TurnHeld, Writer
        <3> QED BY <1>0, <3>1, FinishedTurns DEF Sets
    <2>2. disk'[th] = IF th = call[c].th THEN Finished(turn[c].rec, c, Status(c)) ELSE disk[th]
        BY <1>1, <1>8
    <2>3. /\ turn[c].pc = "finsave" /\ call[c].pc = "ok" /\ ~Open(c)' /\ UNCHANGED call
          /\ told'[c] = "completed" /\ told[c] # "completed" => Status(c) = "completed"
        BY <1>8
    <2> QED BY <2>1, <2>2, <2>3 DEF Ended
<1> QED BY <1>2, <1>3, <1>4, <1>5, <1>6, <1>7, <1>8, DiskBy

LEMMA WriterStands ==
    ASSUME FileInv, NEW t \in Calls, Writer(t)
    PROVE  /\ call[t].th \in Threads /\ disk[call[t].th].turns[t] = "running" /\ Holder(t) /\ Uses(t) /\ Past(t)
           /\ \A u \in Calls : Holder(u) /\ call[u].th = call[t].th => u = t
<1>0. TypeInv
    BY DEF FileInv, LocalInv
<1>1. Holder(t) /\ Uses(t) /\ Past(t)
    BY <1>0, HolderUses, HolderPast DEF Holder
<1>2. call[t].th \in Threads
    BY <1>0, ThreadTyped DEF Writer, Own, Open, Holding
<1> QED BY <1>1, <1>2 DEF FileInv, WriterRuns, OneHolder

\* A turn that stays open keeps its entry, whoever writes.
LEMMA OthersRun ==
    ASSUME FileInv, [Next]_vars, ~Restart, NEW c \in Calls, Actor(c), NEW t \in Calls, t # c, Writer(t), NEW th, th = call[t].th
    PROVE  disk'[th].turns[t] = "running"
<1>0. LastingInv /\ th \in Threads /\ disk[th].turns[t] = "running" /\ Holder(t)
    BY WriterStands DEF FileInv
<1>1. ~(Holder(c) /\ call[c].th = th)
    BY WriterStands
<1>2. Failed(c, th) \/ Named(c, th) \/ Ended(c, th) => Holder(c)
    BY <1>0, TurnHolds DEF Failed, Named, Ended, LastingInv, Holder, Writer, Own
<1>3. Creates(c, th) /\ call[c].th = th => FALSE
    BY <1>0, CreatorAlone DEF Creates
<1>4. Begun(c, th) /\ call[c].th = th => FALSE
    BY <1>0, StartsFree DEF Begun, Starts
<1>5. Archived(c, th) /\ call[c].th = th => disk'[th].turns[t] = "running"
    BY <1>0 DEF Archived, Archives, FileInv, HeldInv, ArchHeld, Holder
<1>6. Passes(c, th) => disk'[th].turns[t] = "running"
    BY <1>0 DEF Passes
<1> QED BY <1>0, <1>1, <1>2, <1>3, <1>4, <1>5, <1>6, FileBy

\* Once over, a turn is not its caller's any more.
LEMMA EndsOwn ==
    ASSUME TypeInv', NEW c \in Calls, call'[c].pc = "error" \/ (call[c].pc = "ok" /\ ~Open(c)' /\ UNCHANGED call)
    PROVE  ~Own(c)'
<1>1. Open(c)' => call'[c].pc = "ok"
    BY DEF TypeInv, TurnsMeant, Open, OverPC
<1> QED BY <1>1 DEF Own

LEMMA WriterRunsStep ==
    ASSUME FileInv, [Next]_vars, ~Restart, TypeInv'
    PROVE  WriterRuns'
<1> SUFFICES ASSUME NEW t \in Calls, Writer(t)'
             PROVE  disk'[call'[t].th].turns[t] = "running"
    BY DEF WriterRuns
<1>0. TypeInv /\ LocalInv
    BY DEF FileInv, LocalInv
<1>1. PICK c \in Calls : Actor(c)
    BY <1>0, SomeActor
<1>2. Holder(t)' /\ Own(t)'
    BY DEF Holder, Writer
<1>3. call'[t].th = call[t].th /\ (Writer(t) \/ (t = c /\ Handles(c) /\ call[c].pc = "save"))
    BY <1>1, <1>2, HolderKeeps
<1>4. PICK th : th = call[t].th
    OBVIOUS
<1>5. CASE t # c
    BY <1>1, <1>3, <1>4, <1>5, OthersRun
<1>6. CASE t = c /\ Handles(c) /\ call[c].pc = "save"
    <2>1. th \in Threads
        BY <1>0, <1>4, <1>6, ThreadTyped DEF Holding
    <2>2. call'[c].pc # "error"
        BY <1>2, <1>6, EndsOwn
    <2>3. Begun(c, th)
        BY <1>1, <1>4, <1>6, <2>1, <2>2, FileBy DEF Passes, Creates, Failed, Archived, Named, Ended
    <2> QED BY <1>3, <1>4, <1>6, <2>3 DEF Begun, Sets
<1>7. CASE t = c /\ Writer(c)
    <2>1. th \in Threads /\ disk[th].turns[c] = "running" /\ Past(c)
        BY <1>4, <1>7, WriterStands
    <2>2. call[c].pc \notin {"create", "save", "archsave"}
        BY <2>1 DEF Past
    <2>3. ~Failed(c, th) /\ ~Ended(c, th)
        BY <1>2, <1>7, EndsOwn DEF Failed, Ended
    <2>4. Passes(c, th) \/ Named(c, th)
        BY <1>1, <1>4, <1>7, <2>1, <2>2, <2>3, FileBy DEF Creates, Begun, Archived, Passes
    <2>5. Named(c, th) => disk'[th].turns[c] = "running"
        BY <1>7, TurnHolds DEF Named, Copies, TurnHeld, Writer
    <2> QED BY <1>3, <1>4, <1>7, <2>1, <2>4, <2>5 DEF Passes
<1> QED BY <1>3, <1>5, <1>6, <1>7

\* A turn that is not taken up has told nothing.
LEMMA UntakenUntold ==
    ASSUME FileInv, NEW c \in Calls, call[c].pc # "ok"
    PROVE  told[c] = "none"
BY DEF FileInv, LocalInv, TypeInv, TurnsMeant, ToldInv

LEMMA ClosedFits ==
    ASSUME FileInv, [Next]_vars, ~Restart, NEW c \in Calls, Actor(c), NEW old, NEW th, Fits(old, th, c), Closes(c), Passes(c, th)
    PROVE  Fits(old, th, c)'
<1>0. LocalInv /\ FinInv /\ LastingInv /\ ToldInv
    BY DEF FileInv
<1>1. /\ Past(c) => Past(c)' /\ call'[c].th = call[c].th
      /\ told'[c] = "completed" => told[c] = "completed" \/ Ephemeral(c) \/ FinishSave(c)
      /\ stuck \subseteq stuck' /\ (Ephemeral(c)' <=> Ephemeral(c))
    BY <1>0, ActorPuts
<1>2. Past(c) /\ Writer(c) /\ ((call[c].pc = "failsave" /\ FailedSave(c)) \/ (call[c].pc = "ok" /\ FinishSave(c)))
    BY <1>0, CloserIs
<1>3. CASE call[c].pc = "failsave" /\ FailedSave(c)
    <2>1. told[c] = "none" /\ ~FinishSave(c) /\ th \in stuck' /\ ~Ephemeral(c)
        <3>1. turn[c].pc = "none"
            BY <1>0, <1>3, HandlerClosed DEF LocalInv
        <3> QED BY <1>2, <1>3, <3>1, UntakenUntold DEF FinishSave, At, Passes, Writer
    <2> QED BY <1>1, <1>2, <2>1 DEF Fits
<1>4. CASE call[c].pc = "ok" /\ FinishSave(c)
    <2>1. CASE th \in stuck' /\ UNCHANGED told
        BY <1>1, <1>2, <2>1 DEF Fits
    <2>2. CASE Fares(c)
        <3>1. Own(c)'
            BY <1>2, <1>4, <2>2 DEF Fares, Writer, Own
        <3> QED BY <1>0, <2>2, <3>1, FitsStays DEF Fares
    <2> QED BY <1>4, <2>1, <2>2 DEF Passes
<1> QED BY <1>2, <1>3, <1>4

LEMMA DiskKeptStep ==
    ASSUME FileInv, [Next]_vars, ~Restart
    PROVE  DiskKept'
<1> SUFFICES ASSUME NEW th \in Threads, NEW new, new = disk'[th]
             PROVE  Kept(new, th)'
    <2>1. UNCHANGED plan
        BY PlanKept
    <2>2. Threads' = Threads
        BY <2>1 DEF Threads, Op
    <2>3. ASSUME NEW th \in Threads PROVE Kept(disk[th], th)'
        <3>1. PICK new : new = disk'[th]
            OBVIOUS
        <3> QED BY <3>1
    <2> QED BY <2>2, <2>3 DEF DiskKept
<1>0. LocalInv /\ FinInv /\ ToldInv /\ LastingInv /\ TypeInv /\ OpsInv /\ UNCHANGED plan
    BY PlanKept DEF FileInv, LocalInv
<1>1. PICK c \in Calls : Actor(c)
    BY <1>0, SomeActor DEF Threads
<1>2. PICK old : old = disk[th] /\ Kept(old, th)
    BY DEF FileInv, DiskKept
<1>3. CASE call[c].th # th /\ disk'[th] = disk[th]
    BY <1>0, <1>1, <1>2, <1>3, KeptFree
<1>4. ASSUME Handles(c) PROVE told' = told /\ call'[c].th = call[c].th /\ stuck \subseteq stuck'
    BY <1>0, <1>4, HandlerLone, HandlerGets DEF Gets
<1>5. Ephemeral(c)' <=> Ephemeral(c)
    BY <1>0 DEF Ephemeral, Op
<1>6. CASE call[c].th = th /\ Passes(c, th)
    <2>1. new = old
        BY <1>2, <1>6 DEF Passes
    <2>2. CASE ~Closes(c)
        BY <1>0, <1>1, <1>2, <2>1, <2>2, KeptFree
    <2>3. CASE Closes(c)
        <3>1. Fits(old, th, c)'
            BY <1>1, <1>2, <1>6, <2>3, ClosedFits DEF Kept
        <3> QED BY <1>0, <1>1, <1>2, <2>1, <3>1, KeptStays
    <2> QED BY <2>2, <2>3
<1>7. CASE call[c].th = th /\ Creates(c, th)
    <2>1. \A t \in Calls : new.turns[t] = "none"
        BY <1>7, FreshIs DEF Creates
    <2>2. ASSUME NEW t \in Calls, told'[t] = "completed" PROVE call'[t].th # th
        <3>1. call[t].th # th
            BY <1>4, <1>7, <2>2, CreatorAlone DEF Creates
        <3>2. t # c
            BY <1>7, <3>1
        <3> QED BY <1>0, <1>1, <3>1, <3>2, UnmovedSame DEF Actor, Lone
    <2> QED BY <2>1, <2>2 DEF Kept, Fits
<1>8. CASE call[c].th = th /\ Begun(c, th)
    <2>1. PICK rec : rec = call[c].rec
        OBVIOUS
    <2>2. Kept(rec, th) /\ told[c] = "none" /\ ~Ephemeral(c) /\ call[c].pc = "save"
        BY <1>0, <1>8, <2>1, UntakenUntold DEF Begun, FileInv, HeldInv, SaveHeld, LastingInv
    <2>3. Past(c)' /\ (th \in stuck' \/ Own(c)') /\ told' = told /\ call'[c].th = th
        BY <1>4, <1>8 DEF Begun, Past, Own
    <2>4. Fits(new, th, c)'
        BY <1>5, <2>2, <2>3 DEF Fits
    <2> QED BY <1>0, <1>1, <1>8, <2>1, <2>2, <2>4, KeptStays DEF Begun, Sets
<1>9. CASE call[c].th = th /\ Failed(c, th)
    <2>1. PICK rec : rec = call[c].rec
        OBVIOUS
    <2>2. Kept(rec, th) /\ told[c] = "none" /\ told' = told
        BY <1>4, <1>9, <2>1, UntakenUntold DEF Failed, FileInv, HeldInv, FailHeld
    <2>3. new.turns[c] = "failed"
        BY <1>9 DEF Failed, Sets
    <2>4. Fits(new, th, c)'
        BY <2>2, <2>3 DEF Fits
    <2> QED BY <1>0, <1>1, <1>9, <2>1, <2>2, <2>4, KeptStays DEF Failed, Sets
<1>10. CASE call[c].th = th /\ Archived(c, th)
    <2>1. new.archived /\ \A t \in Calls : new.turns[t] = "running" => call[t].th = th /\ Past(t) /\ ~Ephemeral(t)
        BY <1>10 DEF Archived, Archives, FileInv, HeldInv, ArchHeld
    <2>2. ASSUME NEW t \in Calls, new.turns[t] = "running" PROVE call'[t].th = th /\ Past(t)' /\ ~Ephemeral(t)'
        <3>1. t # c
            BY <1>10, <2>1, <2>2 DEF Archived, Past
        <3> QED BY <1>0, <1>1, <2>1, <2>2, <3>1, UnmovedSame DEF Actor, Lone
    <2> QED BY <2>1, <2>2 DEF Kept, Fits
<1>11. CASE call[c].th = th /\ Named(c, th)
    <2>1. PICK rec : rec = turn[c].rec
        OBVIOUS
    <2>2. Kept(rec, th) /\ new.turns = rec.turns /\ new.archived = rec.archived
        BY <1>11, <2>1 DEF Named, Copies, FileInv, HeldInv, TurnHeld
    <2>3. (Writer(c) => Own(c)') /\ (told'[c] = "completed" => told[c] = "completed" \/ Ephemeral(c))
        <3>1. ~Closes(c) /\ ~FinishSave(c)
            BY <1>11 DEF Named, Closes, FailedSave
        <3> QED BY <1>0, <1>1, <3>1, ActorPuts
    <2>4. Fits(new, th, c)
        BY <2>2 DEF Kept, Fits
    <2>5. Fits(new, th, c)'
        BY <1>0, <1>1, <2>3, <2>4, FitsStays
    <2> QED BY <1>0, <1>1, <2>2, <2>5, KeptStays
<1>12. CASE call[c].th = th /\ Ended(c, th)
    <2>1. PICK rec : rec = turn[c].rec
        OBVIOUS
    <2>2. Kept(rec, th) /\ rec.turns[c] = "running" /\ Fits(rec, th, c) /\ call'[c] = call[c]
        BY <1>12, <2>1, TurnHolds DEF Ended, TurnHeld, Writer, Kept
    <2>3. new.turns[c] = Status(c) /\ new.archived = rec.archived /\ Status(c) # "running"
        BY <1>12, <2>1 DEF Ended, Sets, Status
    <2>4. told'[c] = "completed" /\ told[c] # "completed" => Status(c) = "completed"
        BY <1>12 DEF Ended
    <2>5. Fits(new, th, c)'
        BY <1>5, <2>2, <2>3, <2>4 DEF Fits
    <2> QED BY <1>0, <1>1, <1>12, <2>1, <2>2, <2>5, KeptStays DEF Ended, Sets
<1> QED BY <1>1, <1>3, <1>6, <1>7, <1>8, <1>9, <1>10, <1>11, <1>12, FileBy

----------------------------------------------------------------------------
(* The records held *)

LEMMA TurnHeldStep ==
    ASSUME FileInv, [Next]_vars, ~Restart, DiskKept', NEW c \in Calls, Actor(c), NEW d \in Calls
    PROVE  TurnHeld(d)'
<1> SUFFICES ASSUME turn'[d].pc \in {"sdksave", "finsave"}, NEW rec, rec = turn'[d].rec, NEW th, th = call'[d].th
             PROVE  Kept(rec, th)' /\ (~Ephemeral(d)' => rec.turns[d] = "running")
    BY DEF TurnHeld
<1>0. LocalInv /\ FinInv /\ ToldInv /\ LastingInv /\ TypeInv /\ OneHolder /\ UNCHANGED plan
    BY PlanKept DEF FileInv, LocalInv
<1>1. Ephemeral(d)' <=> Ephemeral(d)
    BY <1>0 DEF Ephemeral, Op
<1>2. CASE Unmoved(d) /\ (d = c => ~TurnActs(c))
    <2>1. turn[d].pc \in {"sdksave", "finsave"} /\ rec = turn[d].rec /\ th = call[d].th
        BY <1>2 DEF Unmoved, Rests
    <2>2. Kept(rec, th) /\ (~Ephemeral(d) => rec.turns[d] = "running") /\ Holder(d) /\ call[d].pc = "ok"
        BY <2>1, TurnHolds DEF TurnHeld
    <2>3. Closes(c) => call[c].th # th
        <3>1. Closes(c) => d # c
            BY <1>2, <2>2 DEF Closes, FailedSave, TurnActs, TurnStep
        <3>2. Closes(c) => Holder(c)
            BY <1>0, CloserIs
        <3> QED BY <1>0, <2>1, <2>2, <3>1, <3>2 DEF OneHolder
    <2> QED BY <1>0, <1>1, <2>2, <2>3, KeptFree
<1>3. CASE d = c /\ TurnActs(c)
    <2>1. Takes(c) /\ UNCHANGED call
        <3>1. FinishSave(c) => Takes(c)
            BY <1>0, FinishFares DEF Takes
        <3> QED BY <1>0, <1>3, <3>1, ActFares, ActorLone DEF Fares
    <2>2. turn[c].pc \in {"sdkget", "finget"} /\ rec = disk[th] /\ UNCHANGED disk /\ th = call[c].th
        BY <1>3, <2>1 DEF Takes
    <2>3. Open(c) /\ th \in Threads
        BY <1>0, <2>2, ReadOpen DEF TypeInv, TurnsMeant, OverPC
    <2>4. ~Ephemeral(c) => rec.turns[c] = "running"
        BY <2>2, <2>3, WriterStands DEF Writer, Own
    <2>5. Kept(rec, th)'
        <3>1. Threads' = Threads
            BY <1>0 DEF Threads, Op
        <3>2. disk'[th] = rec
            BY <2>2
        <3>3. Kept(disk[th], th)'
            BY <2>3, <3>1 DEF DiskKept
        <3> QED BY <3>2, <3>3
    <2> QED BY <1>1, <1>3, <2>4, <2>5
<1>4. CASE d = c /\ (Handles(c) \/ Comes(c))
    <2>1. turn'[c].pc \in {"none", "read"}
        BY <1>0, <1>4, HandlerPC, ComerLone, HandlerClosed
    <2> QED BY <1>4, <2>1
<1> QED BY <1>2, <1>3, <1>4 DEF Actor, Lone, Still

\* Which handler a step of c moves on.
LEMMA HolderMoved ==
    ASSUME FileInv, [Next]_vars, ~Restart, NEW c \in Calls, Actor(c), NEW d \in Calls,
           call'[d].pc \in {"validate", "save", "failget", "failsave", "archsave"}
    PROVE  \/ call'[d] = call[d] /\ ~Handles(c) /\ ~FailedSave(c)
           \/ call'[d] = call[d] /\ d # c /\ call[c].pc = "replay"
           \/ d = c /\ Handles(c) /\ Gets(c) /\ ~Closes(c) /\ call[c].pc # "save"
<1>0. TypeInv /\ OpsInv /\ OneCaller /\ LocalInv /\ FinInv /\ LastingInv
    BY DEF FileInv, LocalInv
<1>1. FailedSave(c) => Handles(c)
    BY DEF Handles
<1>2. CASE d # c
    <2>1. call'[d] = call[d]
        BY <1>2 DEF Actor, Lone, Unmoved
    <2>2. Handles(c) => call[c].pc = "replay"
        <3>1. call[d].pc \in Holding
            BY <2>1 DEF Holding
        <3>2. call[c].pc \notin Holding
            BY <1>0, <1>2, <3>1 DEF OneCaller
        <3> QED BY <1>0, <3>2, HandlerPC
    <2> QED BY <1>1, <1>2, <2>1, <2>2
<1>3. CASE d = c /\ Handles(c)
    <2>1. Gets(c)
        BY <1>0, <1>3, HandlerGets
    <2>2. call[c].pc \notin {"failsave", "save"} /\ turn[c].pc = "none"
        <3>1. CallMove(c) /\ turn[c].pc = "none" /\ call[c].pc \in Holding \cup {"replay"}
            BY <1>0, <1>3, HandlerPC, StepMoves
        <3> QED BY <1>3, <2>1, <3>1 DEF Gets, CallMove, Enters, Follows, Settled, Holding
    <2> QED BY <1>3, <2>1, <2>2 DEF Closes, FailedSave, FinishSave, At
<1>4. CASE d = c /\ ~Handles(c)
    <2>1. ~Comes(c)
        <3>1. ASSUME Comes(c) PROVE FALSE
            <4>1. call[c].pc = "idle" /\ CallMove(c)
                BY <1>0, <3>1, ComerLone, StepMoves DEF LocalInv
            <4> QED BY <1>4, <4>1 DEF CallMove, Enters, Follows, Settled
        <3> QED BY <3>1
    <2>2. call'[c] = call[c]
        BY <1>0, <1>4, <2>1, ActorPuts
    <2> QED BY <1>1, <1>4, <2>2
<1> QED BY <1>2, <1>3, <1>4

LEMMA KeptNow ==
    ASSUME UNCHANGED plan, DiskKept', NEW th \in Threads, NEW rec, rec = disk'[th]
    PROVE  Kept(rec, th)'
<1>1. Threads' = Threads
    BY DEF Threads, Op
<1>2. Kept(disk[th], th)'
    BY <1>1 DEF DiskKept
<1> QED BY <1>2

LEMMA WriterNow ==
    ASSUME WriterRuns', NEW th, NEW rec, rec = disk'[th], NEW u \in Calls, Writer(u)', call'[u].th = th
    PROVE  rec.turns[u] = "running"
BY DEF WriterRuns

LEMMA WriteHere ==
    ASSUME TypeInv, NEW x \in Threads, NEW rec, disk' = [disk EXCEPT ![x] = rec]
    PROVE  disk'[x] = rec
BY DEF TypeInv, TypeOK

LEMMA ValidHeldStep ==
    ASSUME FileInv, [Next]_vars, ~Restart, DiskKept', WriterRuns', NEW c \in Calls, Actor(c), NEW d \in Calls
    PROVE  ValidHeld(d)'
<1>0. LocalInv /\ FinInv /\ ToldInv /\ LastingInv /\ TypeInv /\ UNCHANGED plan
    BY PlanKept DEF FileInv, LocalInv
<1> SUFFICES ASSUME call'[d].pc = "validate", Op[d] # "start", NEW rec, rec = call'[d].rec, NEW th, th = call'[d].th, ~Calm(rec) => FALSE
             PROVE  Kept(rec, th)' /\ \A u \in Calls : Writer(u)' => call'[u].th # th
    <2>1. Op' = Op
        BY <1>0 DEF Op
    <2>2. \A rec : Calm(rec)' <=> Calm(rec)
        BY DEF Calm
    <2> QED BY <2>1, <2>2 DEF ValidHeld
<1>1. CASE call'[d] = call[d] /\ (Handles(c) => call[c].pc = "replay") /\ ~FailedSave(c)
    <2>1. Kept(rec, th) /\ \A u \in Calls : Writer(u) => call[u].th # th
        BY <1>1 DEF FileInv, HeldInv, ValidHeld
    <2>2. Kept(rec, th)'
        <3>1. Closes(c) => Writer(c)
            BY <1>0, CloserIs
        <3> QED BY <1>0, <2>1, <3>1, KeptFree
    <2>3. ASSUME NEW u \in Calls, Writer(u)' PROVE call'[u].th # th
        <3>1. Holder(u)'
            BY <2>3 DEF Holder
        <3> QED BY <1>1, <2>1, <2>3, <3>1, HolderKeeps
    <2> QED BY <2>2, <2>3
<1>2. CASE d = c /\ Handles(c) /\ Gets(c)
    <2>1. call[c].pc = "get" /\ rec = disk'[th] /\ th \in Threads
        BY <1>0, <1>2, ThreadTyped DEF Gets, Holding
    <2>2. Kept(rec, th)'
        BY <1>0, <2>1, KeptNow
    <2> QED BY <2>1, <2>2, WriterNow DEF Calm
<1>3. FailedSave(c) => call[c].pc = "failsave"
    BY DEF FailedSave
<1> QED BY <1>1, <1>2, <1>3, HolderMoved

LEMMA SaveHeldStep ==
    ASSUME FileInv, [Next]_vars, ~Restart, DiskKept', NEW c \in Calls, Actor(c), NEW d \in Calls
    PROVE  SaveHeld(d)'
<1>0. LocalInv /\ FinInv /\ ToldInv /\ LastingInv /\ TypeInv /\ UNCHANGED plan
    BY PlanKept DEF FileInv, LocalInv
<1> SUFFICES ASSUME call'[d].pc = "save", NEW rec, rec = call'[d].rec, NEW th, th = call'[d].th
             PROVE  /\ Kept(rec, th)' /\ Calm(rec)
                    /\ \A u \in Calls : Holder(u)' => call'[u].th # th
    <2>1. \A rec : Calm(rec)' <=> Calm(rec)
        BY DEF Calm
    <2> QED BY <2>1 DEF SaveHeld
<1>1. ASSUME Kept(rec, th), \A u \in Calls : Holder(u) => call[u].th # th, Handles(c) => ~Starts(c)
      PROVE  Kept(rec, th)' /\ \A u \in Calls : Holder(u)' => call'[u].th # th
    <2>1. Kept(rec, th)'
        <3>1. Closes(c) => Holder(c)
            BY <1>0, CloserIs
        <3> QED BY <1>0, <1>1, <3>1, KeptFree
    <2>2. ASSUME NEW u \in Calls, Holder(u)' PROVE call'[u].th # th
        BY <1>1, <2>2, HolderKeeps
    <2> QED BY <2>1, <2>2
<1>2. CASE call'[d] = call[d] /\ (Handles(c) => call[c].pc = "replay")
    <2>1. Kept(rec, th) /\ Calm(rec) /\ \A u \in Calls : Holder(u) => call[u].th # th
        BY <1>2 DEF FileInv, HeldInv, SaveHeld
    <2> QED BY <1>1, <1>2, <2>1 DEF Starts
<1>3. CASE d = c /\ Handles(c) /\ Gets(c) /\ call[c].pc = "validate"
    <2>1. /\ Op[c] # "start" /\ ~Ephemeral(c) /\ ~Busy(call[c].rec, call[c].th)
          /\ rec = call[c].rec /\ th = call[c].th
        BY <1>3 DEF Gets
    <2>2. Calm(rec) /\ \A t \in active : call[t].th # th
        BY <2>1 DEF Busy, Calm
    <2>3. Kept(rec, th) /\ \A u \in Calls : Writer(u) => call[u].th # th
        BY <1>3, <2>1, <2>2 DEF FileInv, HeldInv, ValidHeld
    <2>4. \A u \in Calls : Holder(u) => call[u].th # th
        BY <2>2, <2>3 DEF Holder
    <2>5. ~Starts(c)
        BY <1>3, <2>1 DEF Starts
    <2> QED BY <1>1, <2>2, <2>3, <2>4, <2>5
<1>4. CASE d = c /\ Handles(c) /\ Gets(c) /\ call[c].pc = "create"
    <2>1. rec = Fresh /\ disk' = [disk EXCEPT ![c] = Fresh] /\ th = c /\ c \in Threads
        BY <1>4, CreatorAlone DEF Gets
    <2>2. rec = disk'[th]
        <3>1. disk'[c] = Fresh
            BY <1>0, <2>1, WriteHere
        <3> QED BY <2>1, <3>1
    <2>3. Kept(rec, th)'
        <3>1. th \in Threads
            BY <2>1
        <3> QED BY <1>0, <2>2, <3>1, KeptNow
    <2>4. Calm(rec)
        BY <2>1, FreshIs DEF Calm
    <2>5. ASSUME NEW u \in Calls, Holder(u)' PROVE call'[u].th # th
        <3>1. ~Starts(c)
            BY <1>4 DEF Starts
        <3>2. Holder(u) /\ call'[u].th = call[u].th
            BY <2>5, <3>1, HolderKeeps
        <3>3. call[u].th # c
            BY <1>4, <3>2, CreatorAlone
        <3> QED BY <2>1, <3>2, <3>3
    <2> QED BY <2>3, <2>4, <2>5
<1>5. (d = c /\ Handles(c) /\ Gets(c)) => call[c].pc \in {"validate", "create"}
    BY DEF Gets
<1> QED BY <1>2, <1>3, <1>4, <1>5, HolderMoved

LEMMA FailHeldStep ==
    ASSUME FileInv, [Next]_vars, ~Restart, DiskKept', NEW c \in Calls, Actor(c), NEW d \in Calls
    PROVE  FailHeld(d)'
<1>0. LocalInv /\ FinInv /\ ToldInv /\ LastingInv /\ TypeInv /\ UNCHANGED plan
    BY PlanKept DEF FileInv, LocalInv
<1> SUFFICES ASSUME call'[d].pc = "failsave", NEW rec, rec = call'[d].rec, NEW th, th = call'[d].th
             PROVE  Kept(rec, th)' /\ rec.turns[d] = "running"
    BY DEF FailHeld
<1>1. CASE call'[d] = call[d] /\ ~FailedSave(c)
    <2>1. Kept(rec, th) /\ rec.turns[d] = "running" /\ call[d].th = th /\ Writer(d)
        BY <1>0, <1>1 DEF FileInv, HeldInv, FailHeld, LastingInv, Writer, Own
    <2>2. Closes(c) => Holder(c) /\ call[c].pc = "ok"
        BY <1>0, <1>1, CloserIs
    <2>3. Closes(c) => call[c].th # th
        BY <1>1, <2>1, <2>2, WriterStands
    <2> QED BY <1>0, <2>1, <2>3, KeptFree
<1>2. CASE d = c /\ Handles(c) /\ Gets(c)
    <2>1. call[c].pc = "failget" /\ rec = disk[th] /\ rec = disk'[th] /\ th \in Threads /\ th = call[c].th
        BY <1>0, <1>2, ThreadTyped DEF Gets, Holding
    <2>2. Kept(rec, th)'
        BY <1>0, <2>1, KeptNow
    <2>3. Writer(c)
        BY <1>0, <2>1 DEF LastingInv, Writer, Own
    <2> QED BY <1>2, <2>1, <2>2, <2>3, WriterStands
<1>3. FailedSave(c) => call[c].pc = "failsave"
    BY DEF FailedSave
<1> QED BY <1>1, <1>2, <1>3, HolderMoved

LEMMA ArchHeldStep ==
    ASSUME FileInv, [Next]_vars, ~Restart, DiskKept', WriterRuns', NEW c \in Calls, Actor(c), NEW d \in Calls
    PROVE  ArchHeld(d)'
<1>0. LocalInv /\ FinInv /\ ToldInv /\ LastingInv /\ TypeInv /\ UNCHANGED plan
    BY PlanKept DEF FileInv, LocalInv
<1> SUFFICES ASSUME call'[d].pc = "archsave", NEW rec, rec = call'[d].rec, NEW th, th = call'[d].th
             PROVE  /\ \A u \in Calls : Writer(u)' /\ call'[u].th = th => rec.turns[u] = "running"
                    /\ \A u \in Calls : rec.turns[u] = "running" => call'[u].th = th /\ Past(u)' /\ ~Ephemeral(u)'
    BY DEF ArchHeld
<1>1. CASE call'[d] = call[d] /\ (Handles(c) => call[c].pc = "replay")
    <2>1. /\ \A u \in Calls : Writer(u) /\ call[u].th = th => rec.turns[u] = "running"
          /\ \A u \in Calls : rec.turns[u] = "running" => call[u].th = th /\ Past(u) /\ ~Ephemeral(u)
        BY <1>1 DEF FileInv, HeldInv, ArchHeld
    <2>2. ASSUME NEW u \in Calls, Writer(u)', call'[u].th = th PROVE rec.turns[u] = "running"
        <3>1. Holder(u)'
            BY <2>2 DEF Holder
        <3> QED BY <1>1, <2>1, <2>2, <3>1, HolderKeeps
    <2>3. ASSUME NEW u \in Calls, rec.turns[u] = "running" PROVE call'[u].th = th /\ Past(u)' /\ ~Ephemeral(u)'
        <3>1. CASE u = c
            BY <1>0, <2>1, <2>3, <3>1, ActorPuts
        <3>2. CASE u # c
            BY <1>0, <2>1, <2>3, <3>2, UnmovedSame DEF Actor, Lone
        <3> QED BY <3>1, <3>2
    <2> QED BY <2>2, <2>3
<1>2. CASE d = c /\ Handles(c) /\ Gets(c)
    <2>1. call[c].pc = "archget" /\ rec = disk'[th] /\ th \in Threads
        BY <1>0, <1>2, ThreadTyped DEF Gets, Holding
    <2>2. Kept(rec, th)'
        BY <1>0, <2>1, KeptNow
    <2>3. \A u \in Calls : Fits(rec, th, u)'
        BY <2>2 DEF Kept
    <2> QED BY <2>1, <2>3, WriterNow DEF Fits
<1> QED BY <1>1, <1>2, HolderMoved

LEMMA HeldStep ==
    ASSUME FileInv, [Next]_vars, ~Restart, DiskKept', WriterRuns'
    PROVE  HeldInv'
<1> SUFFICES ASSUME NEW d \in Calls
             PROVE  (TurnHeld(d) /\ ValidHeld(d) /\ SaveHeld(d) /\ FailHeld(d) /\ ArchHeld(d))'
    BY DEF HeldInv
<1>1. PICK c \in Calls : Actor(c)
    BY SomeActor DEF FileInv
<1> QED BY <1>1, TurnHeldStep, ValidHeldStep, SaveHeldStep, FailHeldStep, ArchHeldStep

LEMMA ToldStep ==
    ASSUME FileInv, [Next]_vars, ~Restart
    PROVE  ToldInv'
<1> SUFFICES ASSUME NEW t \in Calls, told'[t] # "none"
             PROVE  turn'[t].pc # "none" /\ call'[t].th \in Threads' /\ ~Born(call[t].th)'
    BY DEF ToldInv
<1>0. LocalInv /\ TypeInv /\ OpsInv /\ UNCHANGED plan
    BY PlanKept DEF FileInv, LocalInv
<1>1. PICK c \in Calls : Actor(c)
    BY <1>0, SomeActor
<1>2. ASSUME call'[t].th = call[t].th, call[t].th \in Threads, ~Born(call[t].th) PROVE call'[t].th \in Threads' /\ ~Born(call[t].th)'
    <2>1. Threads' = Threads /\ call[t].th \in Calls
        BY <1>0, <1>2, StepMoves DEF Threads
    <2>2. PICK th \in Calls : th = call[t].th
        BY <2>1
    <2>3. ~Born(th)'
        BY <1>0, <1>2, <2>2, BornBefore
    <2> QED BY <1>2, <2>1, <2>2, <2>3 DEF Born
<1>3. CASE Unmoved(t)
    <2>1. turn'[t].pc = turn[t].pc /\ call'[t] = call[t] /\ told[t] # "none"
        BY <1>3 DEF Unmoved, Rests
    <2>2. turn[t].pc # "none" /\ call[t].th \in Threads /\ ~Born(call[t].th)
        BY <2>1 DEF FileInv, ToldInv
    <2> QED BY <1>2, <2>1, <2>2
<1>4. CASE t = c /\ (Handles(c) \/ Comes(c))
    <2>1. told[c] = "none"
        <3>1. turn[c].pc = "none"
            BY <1>0, <1>4, HandlerPC, ComerLone, HandlerClosed
        <3> QED BY <3>1 DEF FileInv, ToldInv
    <2>2. told' = told
        BY <1>0, <1>4, HandlerLone, ComerLone
    <2> QED BY <1>4, <2>1, <2>2
<1>5. CASE t = c /\ TurnActs(c)
    <2>1. UNCHANGED call /\ turn[c].pc # "none" /\ turn'[c].pc # "none" /\ call[c].pc = "ok"
        BY <1>0, <1>5, ActorLone, ActsMove DEF Changed, TypeInv, TurnsMeant
    <2>2. CASE told[c] # "none"
        BY <1>2, <1>5, <2>1, <2>2 DEF FileInv, ToldInv
    <2>3. CASE told[c] = "none"
        <3>1. turn[c].pc \notin OverPC
            <4>1. ~Close(c)
                BY <1>5, <2>3 DEF Close
            <4> QED BY <1>5, <4>1 DEF TurnActs, TurnStep, SdkGet, SdkSave, Broken, Emitted, FinishGet, FinishSave, ThreadStarted,
                                     Progress, Completed, At, OverPC
        <3>2. call[c].th \in Threads /\ Uses(c)
            BY <1>0, <3>1 DEF TypeInv, TurnsMeant, Uses
        <3>3. ~Born(call[c].th)
            BY <2>1, <3>2 DEF FileInv, UseInv, Born
        <3> QED BY <1>2, <1>5, <2>1, <3>2, <3>3
    <2> QED BY <2>2, <2>3
<1> QED BY <1>1, <1>3, <1>4, <1>5 DEF Actor, Lone, Still

LEMMA LastingStep ==
    ASSUME FileInv, [Next]_vars, ~Restart
    PROVE  LastingInv'
<1> SUFFICES ASSUME NEW d \in Calls, call'[d].pc \in {"save", "failget", "failsave"}
             PROVE  ~Ephemeral(d)
    <2>1. Op' = Op
        BY PlanKept DEF FileInv, LocalInv, Op
    <2> QED BY <2>1 DEF LastingInv, Ephemeral
<1>1. PICK c \in Calls : Actor(c)
    BY SomeActor DEF FileInv
<1>2. CASE call'[d] = call[d]
    BY <1>2 DEF FileInv, LastingInv
<1>3. CASE d = c /\ Gets(c)
    <2>1. \/ ~Ephemeral(c)
          \/ call[c].pc = "create"
          \/ call[c].pc = "failget"
        BY <1>3 DEF Gets
    <2>2. call[c].pc = "create" => ~Ephemeral(c)
        BY CreatorAlone DEF Threads, Ephemeral
    <2> QED BY <1>3, <2>1, <2>2 DEF FileInv, LastingInv
<1> QED BY <1>1, <1>2, <1>3, HolderMoved

----------------------------------------------------------------------------
(* After a restart nobody writes *)

LEMMA RecoveredIs ==
    ASSUME NEW rec \in Record, NEW new, new = Recovered(rec), NEW t \in Calls
    PROVE  /\ new.archived = rec.archived /\ new.turns[t] # "running"
           /\ rec.turns[t] # "running" => new.turns[t] = rec.turns[t]
<1>1. PICK f : f = [u \in Calls |-> IF rec.turns[u] = "running" THEN "failed" ELSE rec.turns[u]]
    OBVIOUS
<1>2. new = [rec EXCEPT !.turns = f]
    BY <1>1 DEF Recovered
<1>3. new.turns = f /\ new.archived = rec.archived
    BY <1>2 DEF Record
<1> QED BY <1>1, <1>3

LEMMA RestartQuiet ==
    ASSUME TypeInv, Restart, NEW c \in Calls
    PROVE  /\ call'[c].th = call[c].th /\ call'[c].pc \in {"idle", "ok", "error"} /\ (Past(c) => Past(c)')
           /\ turn'[c].pc \in {"none", "done"} /\ (turn[c].pc # "none" => turn'[c].pc # "none")
           /\ ~Own(c)' /\ ~Holder(c)' /\ ~Writer(c)'
<1>1. call[c] \in CallState /\ call'[c] = IF Settled(c) THEN call[c] ELSE [call[c] EXCEPT !.pc = "error", !.rec = NoRecord]
    BY CallTyped DEF Restart
<1>2. call'[c].th = call[c].th /\ call'[c].pc \in {"idle", "ok", "error"} /\ (Past(c) => Past(c)')
    <2>1. CASE Settled(c)
        BY <1>1, <2>1 DEF Settled, Past
    <2>2. CASE ~Settled(c)
        <3>1. call'[c].pc = "error" /\ call'[c].th = call[c].th
            BY <1>1, <2>2 DEF CallState
        <3> QED BY <3>1 DEF Past
    <2> QED BY <2>1, <2>2
<1>3. turn'[c] = [NoTurn EXCEPT !.pc = IF turn[c].pc = "none" THEN "none" ELSE "done"]
    BY DEF Restart
<1>4. turn'[c].pc = IF turn[c].pc = "none" THEN "none" ELSE "done"
    BY <1>3 DEF NoTurn
<1>5. active' = {}
    BY DEF Restart
<1> QED BY <1>2, <1>4, <1>5 DEF Own, Open, Holder, Writer, OverPC

LEMMA RestartStep ==
    ASSUME FileInv, [Next]_vars, Restart
    PROVE  OneHolder' /\ WriterRuns' /\ DiskKept' /\ ToldInv' /\ LastingInv' /\ HeldInv'
<1>0. LocalInv /\ TypeInv /\ UNCHANGED <<plan, told>>
    BY PlanKept DEF FileInv, LocalInv, Restart
<1>1. OneHolder' /\ WriterRuns' /\ LastingInv'
    BY <1>0, RestartQuiet DEF OneHolder, WriterRuns, LastingInv
<1>2. HeldInv'
    BY <1>0, RestartQuiet DEF HeldInv, TurnHeld, ValidHeld, SaveHeld, FailHeld, ArchHeld
<1>3. Threads' = Threads /\ \A t \in Calls : Ephemeral(t)' <=> Ephemeral(t)
    BY <1>0 DEF Threads, Ephemeral, Op
<1>4. ASSUME NEW th \in Threads, NEW t \in Calls PROVE Fits(disk[th], th, t)'
    <2>1. PICK old, new : old = disk[th] /\ new = disk'[th]
        OBVIOUS
    <2>2. old \in Record /\ new = Recovered(old)
        BY <1>0, <2>1 DEF TypeInv, TypeOK, Restart
    <2>3. Fits(old, th, t)
        BY <2>1 DEF FileInv, DiskKept, Kept
    <2>4. new.archived = old.archived /\ new.turns[t] # "running" /\ (old.turns[t] # "running" => new.turns[t] = old.turns[t])
        BY <2>2, RecoveredIs
    <2>5. call'[t].th = call[t].th
        BY <1>0, RestartQuiet
    <2>6. Fits(new, th, t)'
        BY <1>0, <1>3, <2>3, <2>4, <2>5 DEF Fits
    <2> QED BY <2>1, <2>6
<1>5. DiskKept'
    BY <1>3, <1>4 DEF DiskKept, Kept
<1>6. ASSUME NEW t \in Calls, told[t] # "none" PROVE turn'[t].pc # "none" /\ call'[t].th \in Threads /\ ~Born(call[t].th)'
    <2>1. PICK th \in Calls : th = call[t].th /\ th \in Threads /\ ~Born(th)
        BY <1>6 DEF FileInv, ToldInv, Threads
    <2>2. ~Born(th)'
        BY <1>0, <2>1, BornBefore
    <2>3. turn'[t].pc # "none" /\ call'[t].th = th
        BY <1>0, <1>6, <2>1, RestartQuiet DEF FileInv, ToldInv
    <2> QED BY <2>1, <2>2, <2>3 DEF Born
<1>7. ToldInv'
    BY <1>0, <1>3, <1>6 DEF ToldInv
<1> QED BY <1>1, <1>2, <1>5, <1>7

LEMMA FileInit == Init => FileInv
<1> SUFFICES ASSUME Init PROVE FileInv
    OBVIOUS
<1>1. LocalInv /\ BornInv /\ UseInv /\ OneCaller /\ HeardInv
    BY TypeInit, OneInit, UnseenInit DEF LocalInv
<1>2. \A t \in Calls : call[t].pc = "idle" /\ turn[t] = NoTurn /\ told[t] = "none" /\ active = {}
    BY DEF Init
<1>3. \A t \in Calls : turn[t].pc = "none"
    BY <1>2, NoTurnIs
<1>4. \A t \in Calls : ~Own(t) /\ ~Holder(t) /\ ~Writer(t)
    BY <1>2, <1>3 DEF Own, Open, Holder, Writer, OverPC
<1>5. DiskKept
    BY <1>2 DEF DiskKept, Kept, Fits, Init, NoRecord
<1>6. FinInv
    BY <1>3 DEF FinInv, FinFit, OverPC
<1>7. OneHolder /\ WriterRuns /\ ToldInv /\ LastingInv
    BY <1>2, <1>4 DEF OneHolder, WriterRuns, ToldInv, LastingInv
<1>8. HeldInv
    BY <1>2, <1>3 DEF HeldInv, TurnHeld, ValidHeld, SaveHeld, FailHeld, ArchHeld
<1> QED BY <1>1, <1>5, <1>6, <1>7, <1>8 DEF FileInv

LEMMA FileStep ==
    ASSUME Serial, FileInv, [Next]_vars
    PROVE  FileInv'
<1>0. LocalInv /\ BornInv /\ UseInv /\ OneCaller /\ HeardInv /\ FinInv
    BY DEF FileInv
<1>1. LocalInv' /\ TypeInv'
    BY <1>0, TypeStep, OpsStep DEF LocalInv
<1>2. BornInv' /\ UseInv' /\ OneCaller' /\ HeardInv' /\ FinInv'
    BY <1>0, BornStep, CallerStep, HeardStep, FinStep
<1>3. CASE Restart
    BY <1>1, <1>2, <1>3, RestartStep DEF FileInv
<1>4. CASE ~Restart
    <2>1. OneHolder' /\ WriterRuns' /\ DiskKept'
        BY <1>1, <1>4, OneHolderStep, WriterRunsStep, DiskKeptStep
    <2>2. ToldInv' /\ LastingInv' /\ HeldInv'
        BY <1>4, <2>1, ToldStep, LastingStep, HeldStep
    <2> QED BY <1>1, <1>2, <2>1, <2>2 DEF FileInv
<1> QED BY <1>3, <1>4

\* The plan of a behaviour does not change.
SerialInv == LocalInv /\ (Serial => FileInv)

LEMMA SerialInit == Init => SerialInv
<1> QED BY FileInit DEF SerialInv, FileInv

LEMMA SerialStep == SerialInv /\ [Next]_vars => SerialInv'
<1> SUFFICES ASSUME SerialInv, [Next]_vars PROVE SerialInv'
    OBVIOUS
<1>1. LocalInv /\ LocalInv'
    BY TypeStep, OpsStep DEF SerialInv, LocalInv
<1>2. plan' = plan
    BY PlanKept
<1>3. Serial' => Serial
    BY <1>2 DEF Serial
<1> QED BY <1>1, <1>3, FileStep DEF SerialInv

\* The browser hears that a turn is complete only once the thread file says
\* so, and no later write takes it back while the thread is not archived:
\* not the write of another turn, nor that of a failed one, nor recovery
\* after a crash, as long as requests come one at a time.
THEOREM CompletedIsRecorded == Spec => []RecordedUnlessArchived
<1>1. SerialInv => RecordedUnlessArchived
    BY DEF SerialInv, FileInv, DiskKept, Kept, Fits, ToldInv, RecordedUnlessArchived
<1> QED BY <1>1, SerialInit, SerialStep, PTL DEF Spec

\* Who is said to run in the file is run by the service, failed writes,
\* failed clients and archived threads aside: the thread is not refused for
\* a turn that is over, as long as requests come one at a time.
THEOREM NoOrphanLeft == Spec => []NoRunningOrphan
<1>1. SerialInv => NoRunningOrphan
    BY DEF SerialInv, FileInv, DiskKept, Kept, Fits, Own, Open, OverPC, Settled, NoRunningOrphan
<1> QED BY <1>1, SerialInit, SerialStep, PTL DEF Spec
=============================================================================
