------------------------- MODULE LocalBridgeProofs -------------------------
(***************************************************************************)
(* What one run of the LocalAgentBridge keeps, for every set of tool calls *)
(* and closers, every plan of faults and every bound on repairs.           *)
(*                                                                         *)
(* Inv is inductive as a whole: its parts say when a run exists            *)
(* (StartInv), what the operation at the head of the queue is about        *)
(* (HeadInv, RepairInv), that a view on its way may be old but is never    *)
(* wrong about an end or a success (ViewsInv), what holds of each event on *)
(* the wire and in the queue and of their order (ItemsInv, OrderInv), how  *)
(* turns follow one another (TurnsInv), whom Codex may be told of          *)
(* (ToldInv), and what a bridge leaves behind (IdleInv, ClosedEndsRun,     *)
(* CalmInv).  First comes what each step of the model does to each part of *)
(* the state, then one section per part of Inv.                            *)
(***************************************************************************)
EXTENDS LocalBridge, SequenceTheorems, TLAPS

----------------------------------------------------------------------------
(* Invariants *)

LastEvents == {"completed", "failed", "cancelled"}
Waiting == {"waiting_approval", "waiting_tool"}

\* Until start() is through the bridge holds nothing.
StartInv ==
    /\ b.turn = 0 => /\ ~b.on /\ ~b.term /\ ~b.repair /\ b.pending = NoTool /\ head.pc = "ready"
                     /\ start # "done" /\ activation # "ok"
                     /\ \A c \in Closers : closer[c] \notin {"audit", "auditlate"}
    /\ b.turn # 0 => start \in {"done", "failed"}
    /\ start = "idle" => \A n \in Turns : turns[n] = "none"
    /\ start \in {"local", "undo", "audit"} => turns[1] # "none"
    /\ start \in {"idle", "local"} => run = NoView

\* What the operation at the head of the queue is about.
HeadInv ==
    /\ head.pc # "ready" => queue # <<>>
    /\ head.pc \in {"submit", "answer"} => Op.k \in {"tool", "final"}
    /\ head.pc = "deliver" => Op.k \in {"tool", "view"}
    /\ head.pc \in {"interrupt", "repair", "repaired"} => Op.k \in LastEvents /\ Op.turn = b.turn
    /\ head.pc \in {"submit", "answer"} /\ Op.k = "tool" => b.pending = Op.tool
    /\ head.pc = "submit" /\ Op.k = "tool" => outcome[Op.tool] = "none"

\* The last turn is not sent back for repair.
RepairInv ==
    /\ b.repair => b.turn < MaxTurns
    /\ head.pc \in {"repair", "repaired"} => b.turn < MaxTurns
    /\ head.pc = "answer" /\ Op.k = "final" /\ ~Over(head.view) /\ head.view.fb # "none" => b.turn < MaxTurns

\* A view may be old, but what it says of an end or of a success is so.
TrueView(v) == (Over(v) => Over(run)) /\ (v.ok /\ v.res \in Tools => outcome[v.res] = "ok")
ViewsInv == TrueView(run) /\ TrueView(head.view) /\ TrueView(refresh.view) /\ TrueView(b.view)

\* Neither a fault nor anybody who stops the run.
Calm == plan.faults = {} /\ \A c \in Closers : closer[c] = "idle"

\* What holds of an event or view on its way, and of a tool call that no
\* operation has begun to answer.
ItemOK(e) ==
    /\ e.k = "tool" => e.tool \in Tools /\ tool[e.tool] # "none"
    /\ e.k \in LastEvents => turns[e.turn] = "end"
    /\ e.k # "view" => turns[e.turn] # "none" /\ e.by = "stream"
    /\ e.by \in Closers => closer[e.by] = "accept"
    /\ TrueView(e.view)
Fresh(e) ==
    e.k = "tool" => /\ outcome[e.tool] = "none"
                    /\ Calm => tool[e.tool] = "open" /\ turns[e.turn] = "run" /\ b.pending # e.tool
ItemsInv ==
    /\ \A i \in DOMAIN queue : ItemOK(queue[i]) /\ (Fresh(queue[i]) \/ (i = 1 /\ head.pc # "ready"))
    /\ \A i \in DOMAIN wire : ItemOK(wire[i]) /\ Fresh(wire[i]) /\ wire[i].k # "view"

\* e comes before f: a tool is called once, a closer queues one view and a
\* turn's last event is its last.
Ordered(e, f) ==
    /\ e.k = "tool" /\ f.k = "tool" => e.tool # f.tool
    /\ e.by \in Closers => e.by # f.by
    /\ e.k \in LastEvents /\ f.k # "view" => e.turn # f.turn
OrderInv ==
    /\ \A i, j \in DOMAIN queue : i < j => Ordered(queue[i], queue[j])
    /\ \A i \in DOMAIN queue, j \in DOMAIN wire : Ordered(queue[i], wire[j])
    /\ \A i, j \in DOMAIN wire : i < j => Ordered(wire[i], wire[j])

\* Turns follow one another, a further one when the one before has ended.
TurnsInv ==
    /\ \A n \in Turns : n < b.turn => turns[n] = "end"
    /\ \A n \in Turns : n > b.turn /\ turns[n] # "none" => (n = b.turn + 1 /\ head.pc = "repaired") \/ (n = 1 /\ b.turn = 0)
    /\ head.pc = "repaired" => turns[b.turn + 1] # "none"
    /\ b.turn # 0 => turns[b.turn] # "none"
    /\ b.term => turns[b.turn] # "run"
    /\ \A c \in Closers : closer[c] = "audit" => turns[1] # "run"

ToldInv ==
    /\ ToldIsBackends
    /\ head.pc = "deliver" /\ head.send = "ok" /\ head.tool \in Tools => outcome[head.tool] = "ok"
    /\ run.st \in Waiting => run.tool \in Tools /\ outcome[run.tool] = "asked"
    /\ \A t \in Tools : outcome[t] # "none" => tool[t] # "none"

\* An idle bridge has nothing left to do.
IdleInv ==
    start = "done" /\ state = "idle" =>
        ~b.on /\ head.pc = "ready" /\ Over(run) /\ \A n \in Turns : turns[n] # "run"

\* How the bridge learns of the end of turn n, or has given up on it.
EndQueued(n) ==
    \/ \E i \in DOMAIN queue : queue[i].k \in LastEvents /\ queue[i].turn = n
    \/ \E i \in DOMAIN wire : wire[i].k \in LastEvents /\ wire[i].turn = n
GivenUp(n) ==
    /\ state = "failed" /\ head.pc = "ready"
    /\ \A i \in DOMAIN queue : queue[i].k # "view" => queue[i].turn # n
    /\ \A i \in DOMAIN wire : wire[i].turn # n
EndTakenUp(n) == EndQueued(n) \/ n < b.turn \/ (n = b.turn /\ (~b.on \/ GivenUp(n)))
CalmFacts ==
    /\ activation # "rejected" /\ ~disposed /\ start \notin {"undo", "failed"} /\ live
    /\ b.turn # 0 => activation = "ok"
    /\ \A n \in Turns : turns[n] # "abort"
    /\ b.pending # NoTool => tool[b.pending] = "open"
    /\ b.turn # 0 /\ turns[b.turn] = "end" => b.pending = NoTool
    /\ head.pc = "deliver" => b.pending # NoTool /\ head.tool = b.pending
    /\ \A n \in Turns : turns[n] = "end" => EndTakenUp(n)
CalmInv == Calm => CalmFacts

Inv ==
    /\ TypeOK /\ StartInv /\ HeadInv /\ RepairInv
    /\ ViewsInv /\ ItemsInv /\ OrderInv /\ TurnsInv
    /\ ToldInv /\ IdleInv /\ ClosedEndsRun /\ CalmInv

----------------------------------------------------------------------------
(* Sequences *)

LEMMA AppendFacts ==
    ASSUME NEW s \in Seq(Item), NEW e \in Item
    PROVE  LET u == Append(s, e)
           IN  /\ u \in Seq(Item) /\ u # <<>> /\ Len(s) \in Nat
               /\ DOMAIN s = 1..Len(s) /\ DOMAIN u = 1..(Len(s) + 1)
               /\ \A i \in DOMAIN s : i \in DOMAIN u /\ u[i] = s[i]
               /\ u[Len(s) + 1] = e
               /\ s # <<>> => Head(u) = Head(s)
BY AppendProperties, LenProperties, HeadTailAppend

LEMMA TailFacts ==
    ASSUME NEW s \in Seq(Item), s # <<>>
    PROVE  LET u == Tail(s)
           IN  /\ u \in Seq(Item) /\ Len(s) \in Nat \ {0}
               /\ DOMAIN s = 1..Len(s) /\ DOMAIN u = 1..(Len(s) - 1)
               /\ Head(s) \in Item /\ Head(s) = s[1] /\ 1 \in DOMAIN s
               /\ \A i \in DOMAIN u : i + 1 \in DOMAIN s /\ i + 1 > 1 /\ u[i] = s[i + 1]
               /\ \A i \in DOMAIN s : i = 1 \/ (i - 1 \in DOMAIN u /\ u[i - 1] = s[i])
<1>1. Head(s) \in Item /\ Tail(s) \in Seq(Item) /\ Len(Tail(s)) = Len(s) - 1 /\ \A i \in 1..Len(Tail(s)) : Tail(s)[i] = s[i + 1]
    BY HeadTailProperties
<1>2. Len(s) \in Nat /\ Len(s) # 0 /\ DOMAIN s = 1..Len(s) /\ DOMAIN Tail(s) = 1..Len(Tail(s))
    BY <1>1, LenProperties, EmptySeq
<1>3. Head(s) = s[1]
    OBVIOUS
<1> QED BY <1>1, <1>2, <1>3

LEMMA ConcatFacts ==
    ASSUME NEW s \in Seq(Item), NEW u \in Seq(Item)
    PROVE  LET w == s \o u
           IN  /\ w \in Seq(Item) /\ Len(s) \in Nat /\ Len(u) \in Nat
               /\ DOMAIN s = 1..Len(s) /\ DOMAIN u = 1..Len(u) /\ DOMAIN w = 1..(Len(s) + Len(u))
               /\ \A i \in DOMAIN s : i \in DOMAIN w /\ w[i] = s[i]
               /\ \A i \in DOMAIN u : Len(s) + i \in DOMAIN w /\ w[Len(s) + i] = u[i]
               /\ \A i \in DOMAIN w : i \in DOMAIN s \/ (i > Len(s) /\ i - Len(s) \in DOMAIN u /\ w[i] = u[i - Len(s)])
<1>1. s \o u \in Seq(Item) /\ Len(s \o u) = Len(s) + Len(u)
      /\ \A i \in 1..(Len(s) + Len(u)) : (s \o u)[i] = IF i <= Len(s) THEN s[i] ELSE u[i - Len(s)]
    BY ConcatProperties
<1>2. Len(s) \in Nat /\ Len(u) \in Nat /\ DOMAIN s = 1..Len(s) /\ DOMAIN u = 1..Len(u) /\ DOMAIN (s \o u) = 1..Len(s \o u)
    BY <1>1, LenProperties
<1> QED BY <1>1, <1>2

LEMMA SeqFacts ==
    ASSUME NEW s \in Seq(Item)
    PROVE  /\ Len(s) \in Nat /\ DOMAIN s = 1..Len(s)
           /\ \A i \in DOMAIN s : s[i] \in Item
           /\ s # <<>> => s[1] \in Item /\ 1 \in DOMAIN s /\ Head(s) = s[1] /\ Head(s) \in Item
BY TailFacts, LenProperties, ElementOfSeq

----------------------------------------------------------------------------
(* Views and the run *)

LEMMA NoViewTyped == NoView \in View /\ NoView.st = "none" /\ NoView.ver = 0 /\ ~NoView.ok /\ ~Over(NoView) /\ NoView.fb = "none"
BY DEF NoView, View, RunStatus, Over, Terminal

FirstView == [NoView EXCEPT !.st = "running", !.ver = 1]
LEMMA FirstViewTyped == FirstView \in View /\ FirstView.st = "running" /\ ~FirstView.ok /\ ~Over(FirstView) /\ FirstView.fb = "none"
BY DEF FirstView, NoView, View, RunStatus, Over, Terminal

LEMMA ViewTyped ==
    ASSUME NEW v \in View
    PROVE  /\ v.st \in RunStatus /\ v.ver \in Nat /\ v.tool \in Tools \cup {NoTool}
           /\ v.res \in Tools \cup {NoTool} /\ v.ok \in BOOLEAN /\ v.fb \in {"none", "decision", "delivery"}
BY DEF View

LEMMA StateTyped ==
    ASSUME TypeOK
    PROVE  /\ b.view \in View /\ b.on \in BOOLEAN /\ b.turn \in {0} \cup Turns /\ b.pending \in Tools \cup {NoTool}
           /\ b.final \in BOOLEAN /\ b.term \in BOOLEAN /\ b.repair \in BOOLEAN
           /\ head.view \in View /\ head.send \in {"ok", "failed"} /\ head.tool \in Tools \cup {NoTool}
           /\ head.pc \in HeadPC /\ head.fails \in BOOLEAN
           /\ refresh.view \in View /\ refresh.pc \in {"idle", "got", "queued"} /\ refresh.due \in BOOLEAN
           /\ run \in View /\ run.st \in RunStatus /\ run.ver \in Nat /\ run.tool \in Tools \cup {NoTool}
           /\ queue \in Seq(Item) /\ wire \in Seq(Item)
           /\ queue # <<>> => Op \in Item
           /\ wire # <<>> => Head(wire) \in Item
BY SeqFacts DEF TypeOK, View, Op

LEMMA ItemTyped ==
    ASSUME NEW e \in Item
    PROVE  /\ e.k \in {"tool", "final", "failed", "cancelled", "completed", "view"}
           /\ e.turn \in Turns /\ e.tool \in Tools \cup {NoTool} /\ e.view \in View
           /\ e.by \in Closers \cup {"hook", "stream"}
BY DEF Item

LEMMA OneTurn == 1 \in Turns /\ \A n \in Turns : n \in Nat \ {0}
BY BridgeAssumption DEF Turns

LEMMA EventTyped ==
    ASSUME NEW k \in {"tool", "final", "failed", "cancelled", "completed"}, NEW n \in Turns, NEW t \in Tools \cup {NoTool}
    PROVE  /\ Event(k, n, t) \in Item
           /\ Event(k, n, t).k = k /\ Event(k, n, t).turn = n /\ Event(k, n, t).tool = t
           /\ Event(k, n, t).view = NoView /\ Event(k, n, t).by = "stream" /\ "stream" \notin Closers
BY NoViewTyped, BridgeAssumption DEF Event, Item

LEMMA ViewItemTyped ==
    ASSUME NEW v \in View, NEW who \in Closers \cup {"hook", "stream"}
    PROVE  /\ ViewItem(v, who) \in Item
           /\ ViewItem(v, who).k = "view" /\ ViewItem(v, who).view = v /\ ViewItem(v, who).by = who
BY OneTurn DEF ViewItem, Item

\* A view of which several fields change, written out.
LEMMA ViewDecided ==
    ASSUME NEW v \in View, NEW s, NEW r, r = [v EXCEPT !.st = s, !.ver = @ + 1, !.tool = NoTool, !.res = NoTool, !.ok = FALSE, !.fb = "none"]
    PROVE  r = [st |-> s, ver |-> v.ver + 1, tool |-> NoTool, res |-> NoTool, ok |-> FALSE, fb |-> "none"]
BY DEF View

LEMMA ViewRejected ==
    ASSUME NEW v \in View, NEW f, NEW r, r = [v EXCEPT !.st = "running", !.ver = @ + 1, !.tool = NoTool, !.fb = f]
    PROVE  r = [st |-> "running", ver |-> v.ver + 1, tool |-> NoTool, res |-> v.res, ok |-> v.ok, fb |-> f]
BY DEF View

LEMMA ViewResult ==
    ASSUME NEW v \in View, NEW t, NEW good, NEW r, r = [v EXCEPT !.ver = @ + 1, !.res = t, !.ok = good]
    PROVE  r = [st |-> v.st, ver |-> v.ver + 1, tool |-> v.tool, res |-> t, ok |-> good, fb |-> v.fb]
BY DEF View

\* What each request leaves of the run.
LEMMA InterruptRunMeans ==
    ASSUME TypeOK, NEW ver, InterruptRun(ver)
    PROVE  /\ run' \in View /\ run'.st = "cancelled" /\ Over(run') /\ ~Over(run)
           /\ run'.ok = run.ok /\ run'.res = run.res
           /\ ver = run.ver
<1>1. run \in View
    BY StateTyped
<1>2. run' = [st |-> "cancelled", ver |-> run.ver + 1, tool |-> run.tool, res |-> run.res, ok |-> run.ok, fb |-> "none"]
    BY <1>1 DEF InterruptRun, View
<1>3. run' \in View
    BY <1>1, <1>2, ViewTyped DEF View, RunStatus, Terminal
<1> QED BY <1>2, <1>3 DEF InterruptRun, Over, Terminal

LEMMA DecidedTyped ==
    ASSUME TypeOK, NEW st \in RunStatus
    PROVE  /\ Decided(st) \in View /\ Decided(st).st = st /\ ~Decided(st).ok
           /\ Decided(st).fb = "none" /\ Decided(st).res = NoTool /\ Decided(st).ver = run.ver + 1
<1>1. run \in View
    BY StateTyped
<1>2. Decided(st) = [st |-> st, ver |-> run.ver + 1, tool |-> NoTool, res |-> NoTool, ok |-> FALSE, fb |-> "none"]
    BY <1>1, ViewDecided DEF Decided
<1>3. Decided(st) \in View
    BY <1>1, <1>2, ViewTyped DEF View
<1> QED BY <1>2, <1>3

LEMMA RejectedTyped ==
    ASSUME TypeOK, NEW fb \in {"decision", "delivery"}
    PROVE  /\ Rejected(fb) \in View /\ Rejected(fb).st = "running" /\ Rejected(fb).fb = fb
           /\ Rejected(fb).ok = run.ok /\ Rejected(fb).res = run.res
<1>1. run \in View
    BY StateTyped
<1>2. Rejected(fb) = [st |-> "running", ver |-> run.ver + 1, tool |-> NoTool, res |-> run.res, ok |-> run.ok, fb |-> fb]
    <2> DEFINE r == Rejected(fb)
    <2>1. r = [run EXCEPT !.st = "running", !.ver = @ + 1, !.tool = NoTool, !.fb = fb]
        BY DEF Rejected
    <2> HIDE DEF r
    <2>2. r = [st |-> "running", ver |-> run.ver + 1, tool |-> NoTool, res |-> run.res, ok |-> run.ok, fb |-> fb]
        BY <1>1, <2>1, ViewRejected
    <2> QED BY <2>2 DEF r
<1>3. Rejected(fb) \in View
    BY <1>1, <1>2, ViewTyped DEF View, RunStatus
<1> QED BY <1>2, <1>3

LEMMA RecordTyped ==
    ASSUME NEW s \in RunStatus, NEW n \in Nat, NEW t \in Tools \cup {NoTool}, NEW u \in Tools \cup {NoTool},
           NEW good \in BOOLEAN, NEW f \in {"none", "decision", "delivery"},
           NEW r, r = [st |-> s, ver |-> n, tool |-> u, res |-> t, ok |-> good, fb |-> f]
    PROVE  r \in View /\ r.st = s /\ r.res = t /\ r.ok = good /\ r.fb = f
BY DEF View

LEMMA WrittenTyped ==
    ASSUME NEW d \in View, d.st = "running", d.fb = "none", NEW t \in Tools \cup {NoTool}, NEW good \in BOOLEAN, NEW r,
           r = [st |-> d.st, ver |-> d.ver + 1, tool |-> d.tool, res |-> t, ok |-> good, fb |-> d.fb]
    PROVE  r \in View /\ r.st = "running" /\ r.res = t /\ r.ok = good /\ r.fb = "none"
<1>1. d.ver + 1 \in Nat /\ d.tool \in Tools \cup {NoTool} /\ "running" \in RunStatus
    BY ViewTyped DEF RunStatus
<1> QED BY <1>1, RecordTyped

\* The run after a tool carried out at once.
Result(t, good) == [Decided("running") EXCEPT !.ver = @ + 1, !.res = t, !.ok = good]
LEMMA ResultMeans ==
    ASSUME TypeOK, NEW t \in Tools \cup {NoTool}, NEW good \in BOOLEAN
    PROVE  Result(t, good) \in View /\ Result(t, good).st = "running" /\ Result(t, good).res = t /\ Result(t, good).ok = good
<1>1. Decided("running") \in View /\ Decided("running").st = "running" /\ Decided("running").fb = "none"
    BY DecidedTyped, "running" \in RunStatus DEF RunStatus
<1>2. Result(t, good) = [st |-> Decided("running").st, ver |-> Decided("running").ver + 1, tool |-> Decided("running").tool,
           res |-> t, ok |-> good, fb |-> Decided("running").fb]
    BY <1>1, ViewResult DEF Result
<1> QED BY <1>1, <1>2, WrittenTyped

LEMMA ResultTyped ==
    ASSUME TypeOK, NEW t \in Tools \cup {NoTool}, NEW good \in BOOLEAN
    PROVE  LET s == [Decided("running") EXCEPT !.res = t, !.ok = good]
               u == [Decided("running") EXCEPT !.res = t]
           IN  /\ s \in View /\ s.st = "running" /\ s.res = t /\ s.ok = good /\ s.fb = "none"
               /\ u \in View /\ u.st = "running" /\ u.res = t /\ ~u.ok /\ u.fb = "none"
<1> DEFINE d == Decided("running")
<1>1. d \in View /\ d.st = "running" /\ ~d.ok /\ d.fb = "none"
    BY DecidedTyped DEF RunStatus
<1> HIDE DEF d
<1>2. LET s == [d EXCEPT !.res = t, !.ok = good]
      IN  s \in View /\ s.st = "running" /\ s.res = t /\ s.ok = good /\ s.fb = "none"
    BY <1>1 DEF View
<1>3. LET u == [d EXCEPT !.res = t]
      IN  u \in View /\ u.st = "running" /\ u.res = t /\ ~u.ok /\ u.fb = "none"
    BY <1>1 DEF View
<1> QED BY <1>2, <1>3 DEF d

LEMMA AskedTyped ==
    ASSUME TypeOK, NEW t \in Tools \cup {NoTool}
    PROVE  LET r == [Decided("waiting_approval") EXCEPT !.tool = t]
           IN  r \in View /\ r.st = "waiting_approval" /\ r.tool = t /\ ~r.ok /\ r.fb = "none"
<1> DEFINE d == Decided("waiting_approval")
<1>1. d \in View /\ d.st = "waiting_approval" /\ ~d.ok /\ d.fb = "none"
    BY DecidedTyped DEF RunStatus
<1> HIDE DEF d
<1>2. LET r == [d EXCEPT !.tool = t]
      IN  r \in View /\ r.st = "waiting_approval" /\ r.tool = t /\ ~r.ok /\ r.fb = "none"
    BY <1>1 DEF View
<1> QED BY <1>2 DEF d

LEMMA DeliveryTyped ==
    ASSUME TypeOK
    PROVE  LET r == [Decided("running") EXCEPT !.fb = "delivery"]
           IN  r \in View /\ r.st = "running" /\ ~r.ok
<1> DEFINE d == Decided("running")
<1>1. d \in View /\ d.st = "running" /\ ~d.ok
    BY DecidedTyped DEF RunStatus
<1> HIDE DEF d
<1>2. LET r == [d EXCEPT !.fb = "delivery"]
      IN  r \in View /\ r.st = "running" /\ ~r.ok
    BY <1>1 DEF View
<1> QED BY <1>2 DEF d

\* The verdicts of a tool decision and of a final one.
LEMMA DecideToolMeans ==
    ASSUME TypeOK, NEW t \in Tools \cup {NoTool}, DecideTool(t)
    PROVE  /\ run' \in View /\ outcome' \in [Tools -> {"none", "asked", "ok", "bad"}]
           /\ \A u \in Tools \ {t} : outcome'[u] = outcome[u]
           /\ \/ run'.st = "running" /\ run'.res = t /\ run'.ok /\ (t \in Tools => outcome'[t] = "ok")
              \/ run'.st = "running" /\ ~run'.ok /\ (t \in Tools => outcome'[t] = "bad")
              \/ run'.st = "waiting_approval" /\ run'.tool = t /\ ~run'.ok /\ (t \in Tools => outcome'[t] = "asked")
              \/ run'.st = "running" /\ run'.ok = run.ok /\ run'.res = run.res /\ outcome' = outcome
              \/ run'.st = "failed" /\ ~run'.ok /\ outcome' = outcome
<1>0. outcome \in [Tools -> {"none", "asked", "ok", "bad"}]
    BY DEF TypeOK
<1>1. CASE \E good \in BOOLEAN :
                /\ run' = [Decided("running") EXCEPT !.ver = @ + 1, !.res = t, !.ok = good]
                /\ outcome' = [outcome EXCEPT ![t] = IF good THEN "ok" ELSE "bad"]
    <2>1. PICK good \in BOOLEAN :
                /\ run' = [Decided("running") EXCEPT !.ver = @ + 1, !.res = t, !.ok = good]
                /\ outcome' = [outcome EXCEPT ![t] = IF good THEN "ok" ELSE "bad"]
        BY <1>1
    <2>2. run' \in View /\ run'.st = "running" /\ run'.res = t /\ run'.ok = good
        <3>1. run' = Result(t, good)
            BY <2>1 DEF Result
        <3> QED BY <3>1, ResultMeans
    <2>3. outcome' \in [Tools -> {"none", "asked", "ok", "bad"}] /\ (\A u \in Tools \ {t} : outcome'[u] = outcome[u])
          /\ (t \in Tools => outcome'[t] = IF good THEN "ok" ELSE "bad")
        BY <1>0, <2>1
    <2> QED BY <2>2, <2>3
<1>2. CASE run' = [Decided("waiting_approval") EXCEPT !.tool = t] /\ outcome' = [outcome EXCEPT ![t] = "asked"]
    BY <1>0, <1>2, AskedTyped
<1>3. CASE run' = Rejected("decision") /\ UNCHANGED outcome
    BY <1>0, <1>3, RejectedTyped
<1>4. CASE run' = Decided("failed") /\ UNCHANGED outcome
    BY <1>0, <1>4, DecidedTyped DEF RunStatus, Terminal
<1> QED BY <1>1, <1>2, <1>3, <1>4 DEF DecideTool

LEMMA DecideFinalMeans ==
    ASSUME TypeOK, DecideFinal
    PROVE  /\ run' \in View /\ outcome' = outcome
           /\ run'.st \in {"succeeded", "running", "failed"}
           /\ ~run'.ok \/ (run'.ok = run.ok /\ run'.res = run.res)
           /\ run'.st = "running" => b.turn < MaxTurns
<1>1. outcome' = outcome
    BY DEF DecideFinal
<1>2. CASE run' = Decided("succeeded")
    BY <1>1, <1>2, DecidedTyped DEF RunStatus, Terminal
<1>3. CASE b.turn < MaxTurns /\ run' = Rejected("decision")
    BY <1>1, <1>3, RejectedTyped
<1>4. CASE b.turn < MaxTurns /\ run' = [Decided("running") EXCEPT !.fb = "delivery"]
    BY <1>1, <1>4, DeliveryTyped
<1>5. CASE run' = Decided("failed")
    BY <1>1, <1>5, DecidedTyped DEF RunStatus, Terminal
<1> QED BY <1>2, <1>3, <1>4, <1>5 DEF DecideFinal

----------------------------------------------------------------------------
(* How a queue moves *)

\* What is known of an item that no operation has begun.
Known(e) == ItemOK(e) /\ Fresh(e)

LEMMA KnownItems ==
    ASSUME TypeOK, ItemsInv
    PROVE  /\ \A i \in DOMAIN queue : queue[i] \in Item /\ ItemOK(queue[i]) /\ (i # 1 \/ head.pc = "ready" => Fresh(queue[i]))
           /\ \A i \in DOMAIN wire : wire[i] \in Item /\ ItemOK(wire[i]) /\ Fresh(wire[i]) /\ wire[i].k # "view"
           /\ queue # <<>> => /\ Op \in Item /\ Op = queue[1] /\ 1 \in DOMAIN queue /\ ItemOK(Op)
                              /\ head.pc = "ready" => Fresh(Op)
           /\ Len(queue) \in Nat /\ DOMAIN queue = 1..Len(queue) /\ Len(wire) \in Nat /\ DOMAIN wire = 1..Len(wire)
BY SeqFacts DEF TypeOK, ItemsInv, Op

\* What comes after the operation at the head.
LEMMA AfterOp ==
    ASSUME TypeOK, OrderInv, queue # <<>>
    PROVE  /\ \A i \in DOMAIN queue : i # 1 => Ordered(Op, queue[i])
           /\ \A i \in DOMAIN wire : Ordered(Op, wire[i])
<1>1. queue \in Seq(Item)
    BY DEF TypeOK
<1>2. 1 \in DOMAIN queue /\ Op = queue[1] /\ DOMAIN queue = 1..Len(queue) /\ Len(queue) \in Nat
    BY <1>1, SeqFacts DEF Op
<1>3. \A i \in DOMAIN queue : i # 1 => 1 < i
    BY <1>2
<1> QED BY <1>2, <1>3 DEF OrderInv

\* The operation at the head goes on, or none begins.
LEMMA QueueStays ==
    ASSUME TypeOK, ItemsInv, OrderInv,
           UNCHANGED <<queue, wire>>,
           head'.pc = head.pc \/ (queue # <<>> /\ head'.pc # "ready"),
           \A e \in Item : ItemOK(e) => ItemOK(e)',
           \A e \in Item : Known(e) /\ (queue # <<>> /\ head'.pc # "ready" => Ordered(Op, e)) => Fresh(e)'
    PROVE  ItemsInv' /\ OrderInv'
<1>1. OrderInv'
    BY DEF OrderInv
<1>2. \A i \in DOMAIN queue : (ItemOK(queue[i]) /\ (Fresh(queue[i]) \/ (i = 1 /\ head.pc # "ready")))'
    <2> SUFFICES ASSUME NEW i \in DOMAIN queue
                 PROVE  ItemOK(queue[i])' /\ (Fresh(queue[i])' \/ (i = 1 /\ head'.pc # "ready"))
        BY Zenon
    <2>1. queue[i] \in Item /\ ItemOK(queue[i]) /\ (i # 1 \/ head.pc = "ready" => Fresh(queue[i]))
        BY KnownItems
    <2>2. i # 1 /\ queue # <<>> => Ordered(Op, queue[i])
        BY AfterOp
    <2>3. ItemOK(queue[i])'
        BY <2>1
    <2>4. CASE i = 1 /\ head'.pc # "ready"
        BY <2>3, <2>4
    <2>5. CASE i # 1 \/ head'.pc = "ready"
        <3>1. Known(queue[i])
            BY <2>1, <2>5 DEF Known
        <3>2. queue # <<>> /\ head'.pc # "ready" => Ordered(Op, queue[i])
            BY <2>2, <2>5
        <3> QED BY <2>1, <2>3, <3>1, <3>2
    <2> QED BY <2>4, <2>5
<1>3. \A i \in DOMAIN wire : (ItemOK(wire[i]) /\ Fresh(wire[i]) /\ wire[i].k # "view")'
    <2> SUFFICES ASSUME NEW i \in DOMAIN wire
                 PROVE  ItemOK(wire[i])' /\ Fresh(wire[i])' /\ wire[i].k # "view"
        BY Zenon
    <2>1. wire[i] \in Item /\ ItemOK(wire[i]) /\ Fresh(wire[i]) /\ wire[i].k # "view"
        BY KnownItems
    <2>2. queue # <<>> => Ordered(Op, wire[i])
        BY AfterOp
    <2> QED BY <2>1, <2>2 DEF Known
<1> QED BY <1>1, <1>2, <1>3, Zenon DEF ItemsInv

\* The operation at the head ends.
LEMMA QueuePops ==
    ASSUME TypeOK, ItemsInv, OrderInv, queue # <<>>,
           queue' = Tail(queue), wire' = wire,
           \A e \in Item : Known(e) /\ Ordered(Op, e) => ItemOK(e)' /\ Fresh(e)'
    PROVE  ItemsInv' /\ OrderInv'
<1>1. queue \in Seq(Item)
    BY DEF TypeOK
<1>2. \A i \in DOMAIN queue' : /\ i \in Nat /\ i + 1 \in DOMAIN queue /\ i + 1 # 1 /\ queue'[i] = queue[i + 1]
    BY <1>1, TailFacts
<1>3. \A i \in DOMAIN queue' : ItemOK(queue[i])' /\ Fresh(queue[i])'
    <2> SUFFICES ASSUME NEW i \in DOMAIN queue'
                 PROVE  ItemOK(queue[i])' /\ Fresh(queue[i])'
        OBVIOUS
    <2>1. i + 1 \in DOMAIN queue /\ i + 1 # 1 /\ queue'[i] = queue[i + 1]
        BY <1>2
    <2>2. queue[i + 1] \in Item /\ Known(queue[i + 1])
        BY <2>1, KnownItems DEF Known
    <2>3. Ordered(Op, queue[i + 1])
        BY <2>1, AfterOp
    <2>4. ASSUME NEW e, e = queue[i + 1]
          PROVE  ItemOK(e)' /\ Fresh(e)'
        BY <2>2, <2>3, <2>4
    <2> QED BY <2>1, <2>4
<1>4. \A i \in DOMAIN wire' : ItemOK(wire[i])' /\ Fresh(wire[i])' /\ wire'[i].k # "view"
    <2> SUFFICES ASSUME NEW i \in DOMAIN wire
                 PROVE  ItemOK(wire[i])' /\ Fresh(wire[i])' /\ wire[i].k # "view"
        BY Zenon
    <2>1. wire[i] \in Item /\ Known(wire[i]) /\ wire[i].k # "view"
        BY KnownItems DEF Known
    <2>2. Ordered(Op, wire[i])
        BY AfterOp
    <2> QED BY <2>1, <2>2
<1>5. OrderInv'
    <2>1. \A i, j \in DOMAIN queue' : i < j => i + 1 \in DOMAIN queue /\ j + 1 \in DOMAIN queue /\ i + 1 < j + 1
        BY <1>2
    <2> QED BY <1>2, <2>1 DEF OrderInv
<1> QED BY <1>3, <1>4, <1>5 DEF ItemsInv

\* A view is queued behind what is there.
LEMMA QueueShows ==
    ASSUME TypeOK, ItemsInv, OrderInv,
           NEW e \in Item, e.k = "view", queue' = Append(queue, e), wire' = wire, head' = head,
           \A f \in Item : (ItemOK(f) => ItemOK(f)') /\ (Known(f) => Fresh(f)'),
           ItemOK(e)',
           \A f \in Item : ItemOK(f) => (f.by \in Closers => f.by # e.by)
    PROVE  ItemsInv' /\ OrderInv'
<1>1. queue \in Seq(Item)
    BY DEF TypeOK
<1>2. Len(queue) \in Nat /\ DOMAIN queue = 1..Len(queue) /\ DOMAIN queue' = 1..(Len(queue) + 1)
      /\ (\A i \in DOMAIN queue : i \in DOMAIN queue' /\ queue'[i] = queue[i]) /\ queue'[Len(queue) + 1] = e
    BY <1>1, AppendFacts
<1>3. \A i \in DOMAIN queue' : (i \in DOMAIN queue /\ queue'[i] = queue[i]) \/ (i = Len(queue) + 1 /\ queue'[i] = e)
    BY <1>2
<1>4. Fresh(e)'
    BY DEF Fresh
<1>5. \A i \in DOMAIN queue' : (ItemOK(queue[i]) /\ (Fresh(queue[i]) \/ (i = 1 /\ head.pc # "ready")))'
    <2> SUFFICES ASSUME NEW i \in DOMAIN queue'
                 PROVE  ItemOK(queue[i])' /\ (Fresh(queue[i])' \/ (i = 1 /\ head.pc # "ready"))
        BY Zenon
    <2>1. CASE i \in DOMAIN queue /\ queue'[i] = queue[i]
        <3>1. queue[i] \in Item /\ ItemOK(queue[i]) /\ (Fresh(queue[i]) \/ (i = 1 /\ head.pc # "ready"))
            BY <2>1, KnownItems
        <3>2. ASSUME NEW f, f = queue[i]
              PROVE  ItemOK(f)' /\ (Fresh(f)' \/ (i = 1 /\ head.pc # "ready"))
            BY <3>1, <3>2 DEF Known
        <3> QED BY <2>1, <3>2
    <2>2. CASE queue'[i] = e
        BY <2>2, <1>4
    <2> QED BY <1>3, <2>1, <2>2
<1>6. \A i \in DOMAIN wire : (ItemOK(wire[i]) /\ Fresh(wire[i]) /\ wire[i].k # "view")'
    BY KnownItems DEF Known
<1>7. \A f \in Item : ItemOK(f) => Ordered(f, e)
    BY DEF Ordered
<1>8. \A i \in DOMAIN wire : Ordered(e, wire[i])
    BY KnownItems, BridgeAssumption DEF Ordered, ItemOK, LastEvents
<1>9. OrderInv'
    <2>1. ASSUME NEW i \in DOMAIN queue', NEW j \in DOMAIN queue', i < j
          PROVE  Ordered(queue'[i], queue'[j])
        <3>1. CASE j \in DOMAIN queue /\ queue'[j] = queue[j]
            <4>1. i \in DOMAIN queue /\ queue'[i] = queue[i]
                BY <1>2, <2>1, <3>1
            <4> QED BY <2>1, <3>1, <4>1 DEF OrderInv
        <3>2. CASE j = Len(queue) + 1 /\ queue'[j] = e
            <4>1. i \in DOMAIN queue /\ queue'[i] = queue[i]
                BY <1>2, <2>1, <3>2
            <4>2. queue[i] \in Item /\ ItemOK(queue[i])
                BY <4>1, KnownItems
            <4> QED BY <3>2, <4>1, <4>2, <1>7
        <3> QED BY <1>3, <3>1, <3>2
    <2>2. ASSUME NEW i \in DOMAIN queue', NEW j \in DOMAIN wire
          PROVE  Ordered(queue'[i], wire[j])
        BY <1>3, <1>8 DEF OrderInv
    <2>3. \A i, j \in DOMAIN wire : i < j => Ordered(wire[i], wire[j])
        BY DEF OrderInv
    <2> QED BY <2>1, <2>2, <2>3, Zenon DEF OrderInv
<1> QED BY <1>5, <1>6, <1>9, Zenon DEF ItemsInv

\* The browser reads the next event.
LEMMA QueueReads ==
    ASSUME TypeOK, ItemsInv, OrderInv, HeadInv,
           wire # <<>>, queue' = Append(queue, Head(wire)), wire' = Tail(wire), head' = head,
           \A f \in Item : (ItemOK(f) => ItemOK(f)') /\ (Known(f) => Fresh(f)')
    PROVE  ItemsInv' /\ OrderInv'
<1> DEFINE e == wire[1]
<1>1. queue \in Seq(Item) /\ wire \in Seq(Item)
    BY DEF TypeOK
<1>2. e \in Item /\ Head(wire) = e /\ 1 \in DOMAIN wire /\ Known(e) /\ e.k # "view"
    BY <1>1, SeqFacts, KnownItems DEF Known
<1>3. /\ Len(queue) \in Nat /\ DOMAIN queue = 1..Len(queue) /\ DOMAIN queue' = 1..(Len(queue) + 1)
      /\ \A i \in DOMAIN queue : i \in DOMAIN queue' /\ queue'[i] = queue[i]
      /\ queue'[Len(queue) + 1] = e
    BY <1>1, <1>2, AppendFacts
<1>4. /\ DOMAIN wire = 1..Len(wire) /\ Len(wire) \in Nat
      /\ \A i \in DOMAIN wire' : i \in Nat /\ i + 1 \in DOMAIN wire /\ 1 < i + 1 /\ wire'[i] = wire[i + 1]
    BY <1>1, TailFacts
<1>5. \A i \in DOMAIN queue' : (i \in DOMAIN queue /\ queue'[i] = queue[i]) \/ (i = Len(queue) + 1 /\ queue'[i] = e)
    BY <1>3
<1>6. \A i \in DOMAIN queue' : (ItemOK(queue[i]) /\ (Fresh(queue[i]) \/ (i = 1 /\ head.pc # "ready")))'
    <2> SUFFICES ASSUME NEW i \in DOMAIN queue'
                 PROVE  ItemOK(queue[i])' /\ (Fresh(queue[i])' \/ (i = 1 /\ head.pc # "ready"))
        BY Zenon
    <2>1. CASE i \in DOMAIN queue /\ queue'[i] = queue[i]
        <3>1. queue[i] \in Item /\ ItemOK(queue[i]) /\ (Fresh(queue[i]) \/ (i = 1 /\ head.pc # "ready"))
            BY <2>1, KnownItems
        <3>2. ASSUME NEW f, f = queue[i]
              PROVE  ItemOK(f)' /\ (Fresh(f)' \/ (i = 1 /\ head.pc # "ready"))
            BY <3>1, <3>2 DEF Known
        <3> QED BY <2>1, <3>2
    <2>2. CASE queue'[i] = e
        <3>1. ASSUME NEW f, f = e
              PROVE  ItemOK(f)' /\ Fresh(f)'
            BY <1>2, <3>1 DEF Known
        <3> QED BY <2>2, <3>1
    <2> QED BY <1>5, <2>1, <2>2
<1>7. \A i \in DOMAIN wire' : (ItemOK(wire[i]) /\ Fresh(wire[i]) /\ wire[i].k # "view")'
    <2> SUFFICES ASSUME NEW i \in DOMAIN wire'
                 PROVE  ItemOK(wire[i])' /\ Fresh(wire[i])' /\ wire'[i].k # "view"
        BY Zenon
    <2>1. i + 1 \in DOMAIN wire /\ wire'[i] = wire[i + 1]
        BY <1>4
    <2>2. wire[i + 1] \in Item /\ Known(wire[i + 1]) /\ wire[i + 1].k # "view"
        BY <2>1, KnownItems DEF Known
    <2>3. ASSUME NEW f, f = wire[i + 1]
          PROVE  ItemOK(f)' /\ Fresh(f)'
        BY <2>2, <2>3 DEF Known
    <2> QED BY <2>1, <2>2, <2>3
<1>8. \A i \in DOMAIN wire' : Ordered(e, wire'[i])
    BY <1>2, <1>4 DEF OrderInv
<1>9. OrderInv'
    <2>1. ASSUME NEW i \in DOMAIN queue', NEW j \in DOMAIN queue', i < j
          PROVE  Ordered(queue'[i], queue'[j])
        <3>1. CASE j \in DOMAIN queue /\ queue'[j] = queue[j]
            <4>1. i \in DOMAIN queue /\ queue'[i] = queue[i]
                BY <1>3, <2>1, <3>1
            <4> QED BY <2>1, <3>1, <4>1 DEF OrderInv
        <3>2. CASE j = Len(queue) + 1 /\ queue'[j] = e
            <4>1. i \in DOMAIN queue /\ queue'[i] = queue[i]
                BY <1>3, <2>1, <3>2
            <4> QED BY <1>2, <3>2, <4>1 DEF OrderInv
        <3> QED BY <1>5, <3>1, <3>2
    <2>2. ASSUME NEW i \in DOMAIN queue', NEW j \in DOMAIN wire'
          PROVE  Ordered(queue'[i], wire'[j])
        BY <1>4, <1>5, <1>8 DEF OrderInv
    <2>3. ASSUME NEW i \in DOMAIN wire', NEW j \in DOMAIN wire', i < j
          PROVE  Ordered(wire'[i], wire'[j])
        <3>1. i + 1 \in DOMAIN wire /\ j + 1 \in DOMAIN wire /\ i + 1 < j + 1 /\ wire'[i] = wire[i + 1] /\ wire'[j] = wire[j + 1]
            BY <1>4, <2>3
        <3> QED BY <3>1 DEF OrderInv
    <2> QED BY <2>1, <2>2, <2>3, Zenon DEF OrderInv
<1> QED BY <1>6, <1>7, <1>9, Zenon DEF ItemsInv

\* The service writes further events.
LEMMA WireGrows ==
    ASSUME TypeOK, ItemsInv, OrderInv,
           NEW u \in Seq(Item), wire' = wire \o u, queue' = queue, head' = head,
           \A f \in Item : (ItemOK(f) => ItemOK(f)') /\ (Known(f) => Fresh(f)'),
           \A i \in DOMAIN u : ItemOK(u[i])' /\ Fresh(u[i])' /\ u[i].k # "view",
           \A f \in Item : ItemOK(f) => \A i \in DOMAIN u : Ordered(f, u[i]),
           \A i, j \in DOMAIN u : i < j => Ordered(u[i], u[j])
    PROVE  ItemsInv' /\ OrderInv'
<1>1. wire \in Seq(Item)
    BY DEF TypeOK
<1>2. /\ Len(wire) \in Nat /\ Len(u) \in Nat /\ DOMAIN wire = 1..Len(wire) /\ DOMAIN u = 1..Len(u)
      /\ DOMAIN wire' = 1..(Len(wire) + Len(u))
      /\ \A i \in DOMAIN wire : i \in DOMAIN wire' /\ wire'[i] = wire[i]
      /\ \A i \in DOMAIN wire' : i \in DOMAIN wire \/ (i > Len(wire) /\ i - Len(wire) \in DOMAIN u /\ wire'[i] = u[i - Len(wire)])
    BY <1>1, ConcatFacts
<1>3. \A i \in DOMAIN queue : (ItemOK(queue[i]) /\ (Fresh(queue[i]) \/ (i = 1 /\ head.pc # "ready")))'
    BY KnownItems DEF Known
<1>4. \A i \in DOMAIN wire' : (ItemOK(wire[i]) /\ Fresh(wire[i]) /\ wire[i].k # "view")'
    <2> SUFFICES ASSUME NEW i \in DOMAIN wire'
                 PROVE  ItemOK(wire[i])' /\ Fresh(wire[i])' /\ wire'[i].k # "view"
        BY Zenon
    <2>1. CASE i \in DOMAIN wire
        <3>1. wire[i] \in Item /\ Known(wire[i]) /\ wire[i].k # "view" /\ wire'[i] = wire[i]
            BY <1>2, <2>1, KnownItems DEF Known
        <3>2. ASSUME NEW f, f = wire[i]
              PROVE  ItemOK(f)' /\ Fresh(f)'
            BY <3>1, <3>2 DEF Known
        <3> QED BY <3>1, <3>2
    <2>2. CASE i - Len(wire) \in DOMAIN u /\ wire'[i] = u[i - Len(wire)]
        <3>1. ASSUME NEW f, f = u[i - Len(wire)]
              PROVE  ItemOK(f)' /\ Fresh(f)' /\ f.k # "view"
            BY <2>2, <3>1
        <3> QED BY <2>2, <3>1
    <2> QED BY <1>2, <2>1, <2>2
<1>5. OrderInv'
    <2>1. \A i, j \in DOMAIN queue : i < j => Ordered(queue[i], queue[j])
        BY DEF OrderInv
    <2>2. ASSUME NEW i \in DOMAIN queue, NEW j \in DOMAIN wire'
          PROVE  Ordered(queue[i], wire'[j])
        <3>1. queue[i] \in Item /\ ItemOK(queue[i])
            BY KnownItems
        <3> QED BY <1>2, <3>1 DEF OrderInv
    <2>3. ASSUME NEW i \in DOMAIN wire', NEW j \in DOMAIN wire', i < j
          PROVE  Ordered(wire'[i], wire'[j])
        <3>1. CASE j \in DOMAIN wire
            <4>1. i \in DOMAIN wire
                BY <1>2, <2>3, <3>1
            <4> QED BY <1>2, <2>3, <3>1, <4>1 DEF OrderInv
        <3>2. CASE i \in DOMAIN wire /\ j - Len(wire) \in DOMAIN u /\ wire'[j] = u[j - Len(wire)]
            <4>1. wire[i] \in Item /\ ItemOK(wire[i]) /\ wire'[i] = wire[i]
                BY <1>2, <3>2, KnownItems
            <4> QED BY <3>2, <4>1
        <3>3. CASE /\ i - Len(wire) \in DOMAIN u /\ wire'[i] = u[i - Len(wire)]
                   /\ j - Len(wire) \in DOMAIN u /\ wire'[j] = u[j - Len(wire)]
            <4>1. i - Len(wire) < j - Len(wire)
                BY <1>2, <2>3
            <4> QED BY <3>3, <4>1
        <3>4. j \notin DOMAIN wire => (j - Len(wire) \in DOMAIN u /\ wire'[j] = u[j - Len(wire)])
            BY <1>2
        <3>5. i \notin DOMAIN wire => (i - Len(wire) \in DOMAIN u /\ wire'[i] = u[i - Len(wire)])
            BY <1>2
        <3> QED BY <3>1, <3>2, <3>3, <3>4, <3>5
    <2> QED BY <2>1, <2>2, <2>3, Zenon DEF OrderInv
<1> QED BY <1>3, <1>4, <1>5, Zenon DEF ItemsInv

\* The stream breaks, and what was on it is gone.
LEMMA WireBreaks ==
    ASSUME TypeOK, ItemsInv, OrderInv, wire' = <<>>, queue' = queue, head' = head,
           \A f \in Item : (ItemOK(f) => ItemOK(f)') /\ (Known(f) => Fresh(f)')
    PROVE  ItemsInv' /\ OrderInv'
<1>1. DOMAIN wire' = {}
    OBVIOUS
<1>2. \A i \in DOMAIN queue : (ItemOK(queue[i]) /\ (Fresh(queue[i]) \/ (i = 1 /\ head.pc # "ready")))'
    BY KnownItems DEF Known
<1> QED BY <1>1, <1>2 DEF ItemsInv, OrderInv

----------------------------------------------------------------------------
(* Types *)

Bridge == [on : BOOLEAN, turn : {0} \cup Turns, view : View, pending : Tools \cup {NoTool},
           final : BOOLEAN, term : BOOLEAN, repair : BOOLEAN]
HeadOp == [pc : HeadPC, view : View, send : {"ok", "failed"}, tool : Tools \cup {NoTool}, fails : BOOLEAN]
CloserPC == {"idle", "accept", "cancel", "audit", "auditlate", "done", "error"}
BridgeStates == {"idle", "reasoning", "waiting_approval", "delivering_result", "failed"}

QueueTyped ==
    /\ queue \in Seq(Item) /\ head \in HeadOp /\ plan \in Plan
    /\ closer \in [Closers -> CloserPC]
    /\ refresh \in [pc : {"idle", "got", "queued"}, due : BOOLEAN, view : View]
BridgeTyped ==
    /\ start \in {"idle", "local", "undo", "audit", "done", "failed"}
    /\ b \in Bridge /\ state \in BridgeStates
    /\ activation \in {"open", "ok", "rejected"} /\ closed \in {0} \cup Turns /\ disposed \in BOOLEAN
ServiceTyped ==
    /\ cursor \in Nat /\ seen \in Nat
    /\ turns \in [Turns -> {"none", "run", "abort", "end"}]
    /\ wire \in Seq(Item) /\ live \in BOOLEAN
    /\ tool \in [Tools -> {"none", "open", "ok", "failed", "gone"}]
BackendTyped ==
    /\ run \in View
    /\ outcome \in [Tools -> {"none", "asked", "ok", "bad"}]

LEMMA TypeParts == TypeOK <=> QueueTyped /\ BridgeTyped /\ ServiceTyped /\ BackendTyped
BY Zenon DEF TypeOK, QueueTyped, BridgeTyped, ServiceTyped, BackendTyped, Bridge, HeadOp, CloserPC, BridgeStates

LEMMA TypeMade == QueueTyped' /\ BridgeTyped' /\ ServiceTyped' /\ BackendTyped' => TypeOK'
BY Zenon DEF TypeOK, QueueTyped, BridgeTyped, ServiceTyped, BackendTyped, Bridge, HeadOp, CloserPC, BridgeStates

LEMMA TypeFrames ==
    ASSUME TypeOK
    PROVE  /\ UNCHANGED <<queue, head, plan, closer, refresh>> => QueueTyped'
           /\ UNCHANGED bridge => BridgeTyped'
           /\ UNCHANGED <<cursor, seen, service>> => ServiceTyped'
           /\ UNCHANGED backend => BackendTyped'
<1>1. QueueTyped /\ BridgeTyped /\ ServiceTyped /\ BackendTyped
    BY TypeParts
<1> QED BY <1>1 DEF QueueTyped, BridgeTyped, ServiceTyped, BackendTyped, bridge, service, backend

LEMMA NoHeadTyped == NoHead \in HeadOp /\ NoHead.pc = "ready" /\ NoHead.view = NoView
BY NoViewTyped DEF NoHead, HeadOp, HeadPC

LEMMA EndsTyped ==
    ASSUME TypeOK, queue # <<>>, NEW good \in BOOLEAN, Ends(good)
    PROVE  /\ QueueTyped' /\ queue' = Tail(queue) /\ head' = NoHead /\ plan' = plan
           /\ refresh'.view = refresh.view \/ refresh'.view = NoView
           /\ \A c \in Closers : closer'[c] = closer[c] \/ (c = Op.by /\ closer'[c] \in {"cancel", "error"})
<1>1. QueueTyped /\ queue \in Seq(Item) /\ closer \in [Closers -> CloserPC]
    BY TypeParts DEF QueueTyped
<1>2. Tail(queue) \in Seq(Item)
    BY <1>1, TailFacts
<1>3. closer' \in [Closers -> CloserPC] /\ \A c \in Closers : closer'[c] = closer[c] \/ (c = Op.by /\ closer'[c] \in {"cancel", "error"})
    BY <1>1 DEF Ends, CloserPC
<1>4. refresh' \in [pc : {"idle", "got", "queued"}, due : BOOLEAN, view : View] /\ (refresh'.view = refresh.view \/ refresh'.view = NoView)
    BY <1>1, NoViewTyped DEF Ends, QueueTyped
<1> QED BY <1>1, <1>2, <1>3, <1>4, NoHeadTyped DEF Ends, QueueTyped

LEMMA GoesTyped ==
    ASSUME TypeOK, NEW pc \in HeadPC, Goes(pc)
    PROVE  QueueTyped' /\ UNCHANGED <<queue, plan, closer, refresh>> /\ head'.pc = pc /\ head'.view = head.view
<1>1. QueueTyped
    BY TypeParts
<1> QED BY <1>1 DEF Goes, Stays, QueueTyped, HeadOp

LEMMA SendsTyped ==
    ASSUME TypeOK, NEW told \in {"ok", "failed"}, NEW t \in Tools \cup {NoTool}, NEW fails \in BOOLEAN, Sends(told, t, fails)
    PROVE  /\ QueueTyped' /\ UNCHANGED <<queue, plan, closer, refresh>>
           /\ head'.pc = "deliver" /\ head'.view = head.view /\ head'.send = told /\ head'.tool = t
<1>1. QueueTyped
    BY TypeParts
<1> DEFINE h == [head EXCEPT !.pc = "deliver", !.send = told, !.tool = t, !.fails = fails]
<1>2. h \in HeadOp /\ h.pc = "deliver" /\ h.view = head.view /\ h.send = told /\ h.tool = t
    BY <1>1 DEF QueueTyped, HeadOp, HeadPC
<1>3. head' = h /\ UNCHANGED <<queue, plan, closer, refresh>>
    BY DEF Sends, Stays
<1> HIDE DEF h
<1> QED BY <1>1, <1>2, <1>3 DEF QueueTyped

\* What becomes of the operation at the head.
Pops == queue # <<>> /\ (\E good \in BOOLEAN : Ends(good))
Delivers(t, v) ==
    /\ UNCHANGED <<queue, plan, closer, refresh>>
    /\ head'.pc = "deliver" /\ head'.view = head.view /\ head'.tool = t
    /\ head'.send = "ok" => v.ok /\ v.res = t

LEMMA AcceptMeans ==
    ASSUME TypeOK, queue # <<>>, NEW v \in View, Accept(v)
    PROVE  /\ QueueTyped' /\ state' \in BridgeStates
           /\ \/ b.pending = NoTool /\ Pops /\ UNCHANGED state
              \/ b.pending # NoTool /\ Pops /\ UNCHANGED state
              \/ b.pending # NoTool /\ Pops /\ state' \in {"waiting_approval", "delivering_result"}
              \/ b.pending # NoTool /\ Delivers(b.pending, v) /\ UNCHANGED state
<1>0. b.pending \in Tools \cup {NoTool} /\ v.ok \in BOOLEAN /\ state \in BridgeStates
    BY StateTyped, ViewTyped, TypeParts DEF BridgeTyped
<1> DEFINE t == b.pending
<1>1. CASE \E good \in BOOLEAN : Ends(good) /\ (UNCHANGED state \/ (t # NoTool /\ state' \in {"waiting_approval", "delivering_result"}))
    BY <1>0, <1>1, EndsTyped, Zenon DEF Pops, BridgeStates
<1>2. CASE t # NoTool /\ v.res = t /\ Sends(IF v.ok THEN "ok" ELSE "failed", t, FALSE) /\ UNCHANGED state
    <2>1. (IF v.ok THEN "ok" ELSE "failed") \in {"ok", "failed"}
        OBVIOUS
    <2> QED BY <1>0, <1>2, <2>1, SendsTyped DEF Delivers
<1>3. CASE t # NoTool /\ (Sends("failed", t, FALSE) \/ Sends("failed", t, TRUE)) /\ UNCHANGED state
    BY <1>0, <1>3, SendsTyped DEF Delivers
<1> QED BY <1>1, <1>2, <1>3 DEF Accept

LEMMA AdoptTyped ==
    ASSUME TypeOK, NEW v \in View, Adopt(v)
    PROVE  cursor' \in Nat /\ seen' \in Nat
BY ViewTyped DEF Adopt, TypeOK

LEMMA BridgeChanges ==
    ASSUME NEW r \in Bridge, NEW v \in View, NEW p \in Tools \cup {NoTool}, NEW x \in BOOLEAN
    PROVE  /\ [r EXCEPT !.on = FALSE] \in Bridge
           /\ [r EXCEPT !.view = v] \in Bridge
           /\ [r EXCEPT !.pending = p] \in Bridge
           /\ [r EXCEPT !.term = TRUE] \in Bridge
           /\ r.turn \in {0} \cup Turns
           /\ r.view \in View
BY DEF Bridge

LEMMA CloseTyped ==
    ASSUME TypeOK, NEW s \in BridgeStates, NEW r \in Bridge, Close(s, r)
    PROVE  b' \in Bridge /\ closed' \in {0} \cup Turns /\ state' = s /\ b' = [r EXCEPT !.on = FALSE]
BY NoViewTyped, BridgeChanges DEF Close

LEMMA SettledTyped ==
    ASSUME TypeOK, AuditEnds(b.view)
    PROVE  Settled(b.view) \in View /\ Over(Settled(b.view)) /\ cursor' \in Nat /\ seen' \in Nat /\ run' \in View
<1>0. b.view \in View
    BY StateTyped
<1>1. CASE Over(b.view) /\ UNCHANGED <<run, cursor, seen>>
    BY <1>0, <1>1 DEF Settled, TypeOK
<1>2. CASE ~Over(b.view) /\ InterruptRun(b.view.ver) /\ Adopt(run')
    <2>1. run' \in View /\ Over(run')
        BY <1>2, InterruptRunMeans
    <2> QED BY <1>2, <2>1, AdoptTyped DEF Settled
<1> QED BY <1>1, <1>2 DEF AuditEnds

LEMMA TypeStart ==
    ASSUME TypeOK, Start
    PROVE  TypeOK'
<1>0. QueueTyped /\ BridgeTyped /\ ServiceTyped /\ BackendTyped /\ 1 \in Turns
    BY TypeParts, OneTurn
<1>1. CASE StartLocal
    <2>1. QueueTyped' /\ BackendTyped'
        BY <1>1, TypeFrames DEF StartLocal, hook
    <2>2. BridgeTyped'
        BY <1>0, <1>1 DEF StartLocal, BridgeTyped, Settle, BridgeStates
    <2>3. ServiceTyped'
        BY <1>0, <1>1 DEF StartLocal, ServiceTyped, hook
    <2> QED BY <2>1, <2>2, <2>3, TypeMade
<1>2. CASE StartAudit
    <2>1. QueueTyped' /\ ServiceTyped'
        BY <1>2, TypeFrames DEF StartAudit, hook
    <2>2. BridgeTyped'
        BY <1>0, <1>2 DEF StartAudit, BridgeTyped
    <2>3. BackendTyped'
        BY <1>0, <1>2, FirstViewTyped DEF StartAudit, BackendTyped, FirstView
    <2> QED BY <2>1, <2>2, <2>3, TypeMade
<1>3. CASE StartUndo
    <2>1. QueueTyped' /\ BackendTyped'
        BY <1>3, TypeFrames DEF StartUndo, hook
    <2>2. BridgeTyped'
        BY <1>0, <1>3 DEF StartUndo, BridgeTyped, Settle, BridgeStates
    <2>3. ServiceTyped'
        BY <1>0, <1>3 DEF StartUndo, ServiceTyped, hook, CancelTurn, NoCancel
    <2> QED BY <2>1, <2>2, <2>3, TypeMade
<1>4. CASE StartDone
    <2>1. BackendTyped'
        BY <1>4, TypeFrames DEF StartDone
    <2>2. QueueTyped'
        BY <1>0, <1>4 DEF StartDone, QueueTyped, CloserPC
    <2>3. b' \in Bridge
        <3>1. b \in Bridge /\ FirstView \in View /\ 1 \in Turns
            BY <1>0, FirstViewTyped DEF BridgeTyped
        <3>2. [b EXCEPT !.on = TRUE, !.turn = 1, !.view = FirstView] \in Bridge
            BY <3>1 DEF Bridge
        <3> QED BY <1>4, <3>2 DEF StartDone, FirstView
    <2>4. BridgeTyped'
        BY <1>0, <1>4, <2>3 DEF StartDone, BridgeTyped, Settle, BridgeStates
    <2>5. cursor' \in Nat /\ seen' \in Nat
        <3>1. CASE UNCHANGED <<cursor, seen>>
            BY <1>0, <3>1 DEF ServiceTyped
        <3>2. CASE Adopt(FirstView)
            BY <3>2, AdoptTyped, FirstViewTyped
        <3> QED BY <1>4, <3>1, <3>2 DEF StartDone, FirstView
    <2>6. ServiceTyped'
        BY <1>0, <1>4, <2>5 DEF StartDone, ServiceTyped, service
    <2> QED BY <2>1, <2>2, <2>4, <2>6, TypeMade
<1> QED BY <1>1, <1>2, <1>3, <1>4 DEF Start

LEMMA TypeRead ==
    ASSUME TypeOK, Read
    PROVE  TypeOK'
<1>0. QueueTyped /\ ServiceTyped
    BY TypeParts
<1>1. BridgeTyped' /\ BackendTyped'
    BY TypeFrames DEF Read
<1>2. Head(wire) \in Item /\ Tail(wire) \in Seq(Item) /\ Append(queue, Head(wire)) \in Seq(Item)
    BY <1>0, TailFacts, AppendFacts DEF Read, QueueTyped, ServiceTyped
<1>3. QueueTyped' /\ ServiceTyped'
    BY <1>0, <1>2 DEF Read, QueueTyped, ServiceTyped, hook
<1> QED BY <1>1, <1>3, TypeMade

\* The operations at the head of the queue.
LEMMA OpAt ==
    ASSUME TypeOK, NEW pc, Busy(pc)
    PROVE  queue # <<>> /\ head.pc = pc /\ Op \in Item /\ Op.tool \in Tools \cup {NoTool} /\ Op.view \in View
BY StateTyped, ItemTyped DEF Busy

LEMMA TypeToolCall ==
    ASSUME TypeOK, ToolCall
    PROVE  TypeOK'
<1>0. BridgeTyped /\ ServiceTyped /\ b \in Bridge /\ Op.tool \in Tools \cup {NoTool} /\ queue # <<>>
    BY TypeParts, OpAt DEF ToolCall, Handling, BridgeTyped
<1>1. ServiceTyped' /\ BackendTyped'
    BY TypeFrames DEF ToolCall
<1>2. QueueTyped' /\ (b' = b \/ b' = [b EXCEPT !.pending = Op.tool])
    <2>1. CASE Ends(FALSE) /\ UNCHANGED b
        BY <1>0, <2>1, EndsTyped
    <2>2. CASE Sends("failed", Op.tool, FALSE) /\ UNCHANGED b
        BY <1>0, <2>2, SendsTyped
    <2>3. CASE Goes("submit") /\ b' = [b EXCEPT !.pending = Op.tool]
        BY <2>3, GoesTyped DEF HeadPC
    <2> QED BY <2>1, <2>2, <2>3 DEF ToolCall
<1>3. b' \in Bridge
    BY <1>0, <1>2 DEF Bridge
<1>4. BridgeTyped'
    BY <1>0, <1>3 DEF ToolCall, BridgeTyped
<1> QED BY <1>1, <1>2, <1>4, TypeMade

LEMMA SubmitMeans ==
    ASSUME TypeOK, Submit
    PROVE  /\ head' = [head EXCEPT !.pc = "answer", !.view = head'.view]
           /\ head' \in HeadOp /\ head'.pc = "answer"
           /\ \/ /\ run.st = "running"
                 /\ IF Op.k = "tool" THEN DecideTool(Op.tool) ELSE DecideFinal
                 /\ head'.view = run' \/ head'.view = NoView
              \/ UNCHANGED backend /\ head'.view = NoView
           /\ run' \in View /\ outcome' \in [Tools -> {"none", "asked", "ok", "bad"}]
           /\ UNCHANGED <<bridge, queue, hook, service>>
<1>0. queue # <<>> /\ Op.tool \in Tools \cup {NoTool} /\ head \in HeadOp /\ BackendTyped
    BY OpAt, TypeParts DEF Submit, QueueTyped
<1>1. run' \in View /\ outcome' \in [Tools -> {"none", "asked", "ok", "bad"}]
    <2>1. CASE IF Op.k = "tool" THEN DecideTool(Op.tool) ELSE DecideFinal
        BY <1>0, <2>1, DecideToolMeans, DecideFinalMeans DEF BackendTyped
    <2>2. CASE UNCHANGED backend
        BY <1>0, <2>2 DEF backend, BackendTyped
    <2> QED BY <2>1, <2>2 DEF Submit
<1>2. head' = [head EXCEPT !.pc = "answer", !.view = run'] \/ head' = [head EXCEPT !.pc = "answer", !.view = NoView]
    BY DEF Submit
<1>3. ASSUME NEW v \in View, head' = [head EXCEPT !.pc = "answer", !.view = v]
      PROVE  head' \in HeadOp /\ head'.pc = "answer" /\ head'.view = v
    BY <1>0, <1>3 DEF HeadOp, HeadPC
<1>4. head' \in HeadOp /\ head'.pc = "answer" /\ head' = [head EXCEPT !.pc = "answer", !.view = head'.view]
    BY <1>1, <1>2, <1>3, NoViewTyped
<1>5. \/ /\ run.st = "running"
         /\ IF Op.k = "tool" THEN DecideTool(Op.tool) ELSE DecideFinal
         /\ head'.view = run' \/ head'.view = NoView
      \/ UNCHANGED backend /\ head'.view = NoView
    BY <1>1, <1>3, NoViewTyped DEF Submit, Acceptable
<1>6. UNCHANGED <<bridge, queue, hook, service>>
    BY DEF Submit
<1> QED BY <1>1, <1>4, <1>5, <1>6

LEMMA TypeSubmit ==
    ASSUME TypeOK, Submit
    PROVE  TypeOK'
<1>1. head' \in HeadOp /\ run' \in View /\ outcome' \in [Tools -> {"none", "asked", "ok", "bad"}] /\ UNCHANGED <<bridge, queue, hook, service>>
    BY SubmitMeans
<1>2. BridgeTyped' /\ ServiceTyped'
    BY <1>1, TypeFrames DEF hook
<1>3. QueueTyped'
    BY <1>1, TypeParts DEF QueueTyped, hook
<1>4. BackendTyped'
    BY <1>1 DEF BackendTyped
<1> QED BY <1>2, <1>3, <1>4, TypeMade

LEMMA TypeToolAnswer ==
    ASSUME TypeOK, ToolAnswer
    PROVE  TypeOK'
<1>0. /\ queue # <<>> /\ BridgeTyped /\ ServiceTyped /\ b \in Bridge /\ state \in BridgeStates /\ head.view \in View /\ Op.tool \in Tools \cup {NoTool}
    BY OpAt, TypeParts, StateTyped DEF ToolAnswer, BridgeTyped
<1>1. BackendTyped'
    BY TypeFrames DEF ToolAnswer
<1>2. CASE Sends("failed", Op.tool, TRUE) /\ UNCHANGED <<b, state, cursor, seen>>
    <2>1. QueueTyped'
        BY <1>0, <1>2, SendsTyped
    <2>2. BridgeTyped' /\ ServiceTyped'
        BY <1>2, TypeFrames DEF ToolAnswer, bridge
    <2> QED BY <1>1, <2>1, <2>2, TypeMade
<1>3. CASE Ends(FALSE) /\ UNCHANGED <<b, state, cursor, seen>>
    <2>1. QueueTyped'
        BY <1>0, <1>3, EndsTyped
    <2>2. BridgeTyped' /\ ServiceTyped'
        BY <1>3, TypeFrames DEF ToolAnswer, bridge
    <2> QED BY <1>1, <2>1, <2>2, TypeMade
<1>4. CASE b' = [b EXCEPT !.view = head.view] /\ Adopt(head.view) /\ Accept(head.view)
    <2>1. QueueTyped' /\ state' \in BridgeStates
        BY <1>0, <1>4, AcceptMeans
    <2>2. cursor' \in Nat /\ seen' \in Nat
        BY <1>0, <1>4, AdoptTyped
    <2>3. b' \in Bridge
        BY <1>0, <1>4, BridgeChanges
    <2>4. BridgeTyped'
        BY <1>0, <2>1, <2>3 DEF ToolAnswer, BridgeTyped
    <2>5. ServiceTyped'
        BY <1>0, <2>2 DEF ToolAnswer, ServiceTyped, service
    <2> QED BY <1>1, <2>1, <2>4, <2>5, TypeMade
<1> QED BY <1>2, <1>3, <1>4 DEF ToolAnswer

LEMMA TypeAcceptView ==
    ASSUME TypeOK, AcceptView
    PROVE  TypeOK'
<1>0. /\ queue # <<>> /\ BridgeTyped /\ ServiceTyped /\ b \in Bridge /\ state \in BridgeStates /\ Op.view \in View
    BY OpAt, TypeParts, StateTyped DEF AcceptView, BridgeTyped
<1>1. BackendTyped'
    BY TypeFrames DEF AcceptView
<1>3. CASE Ends(FALSE) /\ UNCHANGED <<b, state, cursor, seen>>
    <2>1. QueueTyped'
        BY <1>0, <1>3, EndsTyped
    <2>2. BridgeTyped' /\ ServiceTyped'
        BY <1>3, TypeFrames DEF AcceptView, bridge
    <2> QED BY <1>1, <2>1, <2>2, TypeMade
<1>4. CASE b' = [b EXCEPT !.view = Op.view] /\ Adopt(Op.view) /\ Accept(Op.view)
    <2>1. QueueTyped' /\ state' \in BridgeStates
        BY <1>0, <1>4, AcceptMeans
    <2>2. cursor' \in Nat /\ seen' \in Nat
        BY <1>0, <1>4, AdoptTyped
    <2>3. b' \in Bridge
        BY <1>0, <1>4, BridgeChanges
    <2>4. BridgeTyped'
        BY <1>0, <2>1, <2>3 DEF AcceptView, BridgeTyped
    <2>5. ServiceTyped'
        BY <1>0, <2>2 DEF AcceptView, ServiceTyped, service
    <2> QED BY <1>1, <2>1, <2>4, <2>5, TypeMade
<1> QED BY <1>3, <1>4 DEF AcceptView

LEMMA TypeDeliver ==
    ASSUME TypeOK, Deliver
    PROVE  TypeOK'
<1>0. /\ queue # <<>> /\ BridgeTyped /\ ServiceTyped /\ b \in Bridge /\ head.send \in {"ok", "failed"}
    BY OpAt, TypeParts, StateTyped DEF Deliver, BridgeTyped
<1>1. BackendTyped'
    BY TypeFrames DEF Deliver
<1>2. QueueTyped' /\ state' \in BridgeStates /\ (b' = b \/ b' = [b EXCEPT !.pending = NoTool])
    BY <1>0, EndsTyped, Zenon DEF Deliver, BridgeStates
<1>3. tool' = tool \/ tool' = [tool EXCEPT ![head.tool] = head.send]
    BY DEF Deliver
<1>4. tool' \in [Tools -> {"none", "open", "ok", "failed", "gone"}]
    BY <1>0, <1>3 DEF ServiceTyped
<1>5. BridgeTyped'
    <2>1. b' \in Bridge
        BY <1>0, <1>2 DEF Bridge
    <2> QED BY <1>0, <1>2, <2>1 DEF Deliver, BridgeTyped
<1>6. ServiceTyped'
    BY <1>0, <1>4 DEF Deliver, ServiceTyped
<1> QED BY <1>1, <1>2, <1>5, <1>6, TypeMade

LEMMA TypeFinal ==
    ASSUME TypeOK, Final \/ Drop
    PROVE  TypeOK'
<1>0. queue # <<>>
    BY DEF Final, Drop, Handling, Busy
<1>1. BridgeTyped' /\ BackendTyped' /\ ServiceTyped'
    BY TypeFrames DEF Final, Drop
<1>2. QueueTyped'
    <2>1. CASE Ends(FALSE) \/ Ends(TRUE)
        BY <1>0, <2>1, EndsTyped
    <2>2. CASE Goes("submit")
        BY <2>2, GoesTyped DEF HeadPC
    <2> QED BY <2>1, <2>2 DEF Final, Drop
<1> QED BY <1>1, <1>2, TypeMade

LEMMA FinalAnswerMeans ==
    ASSUME TypeOK, FinalAnswer
    PROVE  /\ queue # <<>> /\ head.pc = "answer" /\ Op.k = "final"
           /\ \/ Ends(FALSE) /\ UNCHANGED <<b, state, cursor, seen>>
              \/ /\ Ends(TRUE) /\ Adopt(head.view) /\ b' \in Bridge
                 /\ b'.on = b.on /\ b'.turn = b.turn /\ b'.view = head.view /\ b'.pending = b.pending /\ b'.term = b.term
                 /\ b'.repair => b.repair \/ (~Over(head.view) /\ head.view.fb # "none")
                 /\ state' \in {"reasoning", "failed"}
           /\ UNCHANGED <<start, activation, closed, disposed, service, backend>>
<1> DEFINE rep == b.repair \/ (~Over(head.view) /\ head.view.fb # "none")
           n == [b EXCEPT !.final = TRUE, !.view = head.view, !.repair = rep]
<1>0. b \in Bridge /\ head.view \in View /\ b.repair \in BOOLEAN
    BY TypeParts, StateTyped DEF BridgeTyped
<1>1. rep \in BOOLEAN
    BY <1>0 DEF Over
<1>2. n \in Bridge /\ n.on = b.on /\ n.turn = b.turn /\ n.view = head.view /\ n.pending = b.pending /\ n.term = b.term /\ n.repair = rep
    <2> HIDE DEF rep
    <2> QED BY <1>0, <1>1 DEF Bridge
<1>3. queue # <<>> /\ head.pc = "answer" /\ Op.k = "final" /\ UNCHANGED <<start, activation, closed, disposed, service, backend>>
    BY DEF FinalAnswer, Busy
<1>4. \/ Ends(FALSE) /\ UNCHANGED <<b, state, cursor, seen>>
      \/ Ends(TRUE) /\ Adopt(head.view) /\ b' = n /\ state' \in {"reasoning", "failed"}
    BY DEF FinalAnswer
<1> HIDE DEF n
<1> QED BY <1>2, <1>3, <1>4

LEMMA TypeFinalAnswer ==
    ASSUME TypeOK, FinalAnswer
    PROVE  TypeOK'
<1>0. BridgeTyped /\ ServiceTyped /\ head.view \in View
    BY TypeParts, StateTyped
<1>1. queue # <<>> /\ UNCHANGED <<start, activation, closed, disposed, service, backend>>
    BY FinalAnswerMeans
<1>2. BackendTyped'
    BY <1>1, TypeFrames
<1>3. CASE Ends(FALSE) /\ UNCHANGED <<b, state, cursor, seen>>
    <2>1. BridgeTyped' /\ ServiceTyped'
        BY <1>1, <1>3, TypeFrames DEF bridge
    <2> QED BY <1>1, <1>2, <1>3, <2>1, EndsTyped, TypeMade
<1>4. CASE Ends(TRUE) /\ Adopt(head.view) /\ b' \in Bridge /\ state' \in {"reasoning", "failed"}
    <2>1. BridgeTyped'
        BY <1>0, <1>1, <1>4 DEF BridgeTyped, BridgeStates
    <2>2. ServiceTyped'
        BY <1>0, <1>1, <1>4, AdoptTyped DEF ServiceTyped, service
    <2> QED BY <1>1, <1>2, <1>4, <2>1, <2>2, EndsTyped, TypeMade
<1> QED BY <1>3, <1>4, FinalAnswerMeans

LEMMA TurnOverMeans ==
    ASSUME TypeOK, TurnOver
    PROVE  /\ queue # <<>> /\ head.pc = "ready" /\ activation = "ok" /\ b.on /\ b.turn = Op.turn /\ Op.k \in LastEvents
           /\ \/ /\ b.repair /\ Goes("repair")
                 /\ b' = [b EXCEPT !.term = TRUE] /\ UNCHANGED <<closed, state>>
              \/ /\ Over(b.view) /\ Ends(TRUE)
                 /\ b' = [[b EXCEPT !.term = TRUE] EXCEPT !.on = FALSE] /\ closed' = b.turn /\ state' \in {"failed", "idle"}
              \/ /\ Goes("interrupt")
                 /\ b' = [b EXCEPT !.term = TRUE] /\ UNCHANGED <<closed, state>>
           /\ UNCHANGED <<start, activation, disposed, cursor, seen, service, backend>>
<1> DEFINE r == [b EXCEPT !.term = TRUE]
<1>1. b \in Bridge
    BY TypeParts DEF BridgeTyped
<1>2. r.turn = b.turn
    BY <1>1 DEF Bridge
<1>3. PICK k \in LastEvents :
            /\ Handling(k)
            /\ \/ b.repair /\ Goes("repair") /\ b' = r /\ UNCHANGED <<closed, state>>
               \/ Over(b.view) /\ Close(IF state = "failed" THEN "failed" ELSE "idle", r) /\ Ends(TRUE)
               \/ Goes("interrupt") /\ b' = r /\ UNCHANGED <<closed, state>>
            /\ UNCHANGED <<start, activation, disposed, cursor, seen, service, backend>>
    BY Zenon DEF TurnOver, LastEvents
<1>4. queue # <<>> /\ head.pc = "ready" /\ activation = "ok" /\ b.on /\ b.turn = Op.turn /\ Op.k \in LastEvents
    BY <1>3 DEF Handling, Busy, Mine
<1>5. ASSUME Close(IF state = "failed" THEN "failed" ELSE "idle", r)
      PROVE  b' = [r EXCEPT !.on = FALSE] /\ closed' = b.turn /\ state' \in {"failed", "idle"}
    <2> HIDE DEF r
    <2> QED BY <1>2, <1>5 DEF Close
<1> QED BY <1>3, <1>4, <1>5

LEMMA TypeTurnOver ==
    ASSUME TypeOK, TurnOver
    PROVE  TypeOK'
<1>0. BridgeTyped /\ b \in Bridge /\ queue # <<>>
    BY TypeParts, TurnOverMeans DEF BridgeTyped
<1>1. ServiceTyped' /\ BackendTyped'
    BY TurnOverMeans, TypeFrames
<1>2. [b EXCEPT !.term = TRUE] \in Bridge /\ [[b EXCEPT !.term = TRUE] EXCEPT !.on = FALSE] \in Bridge /\ b.turn \in {0} \cup Turns
    BY <1>0 DEF Bridge
<1>3. b' \in Bridge /\ closed' \in {0} \cup Turns /\ state' \in BridgeStates
    BY <1>0, <1>2, TurnOverMeans DEF BridgeTyped, BridgeStates
<1>4. BridgeTyped'
    BY <1>0, <1>3, TurnOverMeans DEF BridgeTyped
<1>5. QueueTyped'
    BY <1>0, TurnOverMeans, EndsTyped, GoesTyped DEF HeadPC
<1> QED BY <1>1, <1>4, <1>5, TypeMade

LEMMA InterruptMeans ==
    ASSUME TypeOK, Interrupt
    PROVE  /\ queue # <<>> /\ head.pc = "interrupt"
           /\ \/ /\ AuditEnds(b.view) /\ Ends(TRUE) /\ state' = "failed" /\ closed' = b.turn
                 /\ b' = [[b EXCEPT !.view = Settled(b.view)] EXCEPT !.on = FALSE]
              \/ AuditFails(b.view) /\ Ends(FALSE) /\ state' = "failed" /\ UNCHANGED <<b, closed, run, cursor, seen>>
           /\ UNCHANGED <<start, activation, disposed, service, outcome>>
<1> DEFINE r == [b EXCEPT !.view = Settled(b.view)]
<1>1. b \in Bridge
    BY TypeParts DEF BridgeTyped
<1>2. ASSUME Close("failed", r)
      PROVE  state' = "failed" /\ closed' = b.turn /\ b' = [r EXCEPT !.on = FALSE]
    <2>1. r.turn = b.turn
        BY <1>1 DEF Bridge
    <2> HIDE DEF r
    <2> QED BY <1>2, <2>1 DEF Close
<1> QED BY <1>2 DEF Interrupt, Busy, AuditFails, NoInterrupt

LEMMA TypeInterrupt ==
    ASSUME TypeOK, Interrupt
    PROVE  TypeOK'
<1>0. BridgeTyped /\ ServiceTyped /\ BackendTyped /\ b \in Bridge /\ queue # <<>>
    BY TypeParts, InterruptMeans DEF BridgeTyped
<1>1. QueueTyped'
    BY <1>0, InterruptMeans, EndsTyped
<1>2. CASE AuditEnds(b.view) /\ state' = "failed" /\ closed' = b.turn /\ b' = [[b EXCEPT !.view = Settled(b.view)] EXCEPT !.on = FALSE]
    <2>1. Settled(b.view) \in View /\ cursor' \in Nat /\ seen' \in Nat /\ run' \in View
        BY <1>2, SettledTyped
    <2>2. b' \in Bridge /\ b.turn \in {0} \cup Turns
        BY <1>0, <1>2, <2>1, BridgeChanges
    <2>3. BridgeTyped'
        BY <1>0, <1>2, <2>2, InterruptMeans DEF BridgeTyped, BridgeStates
    <2>4. ServiceTyped' /\ BackendTyped'
        BY <1>0, <2>1, InterruptMeans DEF ServiceTyped, BackendTyped, service
    <2> QED BY <1>1, <2>3, <2>4, TypeMade
<1>3. CASE state' = "failed" /\ UNCHANGED <<b, closed, run, cursor, seen>>
    <2>1. BridgeTyped' /\ ServiceTyped' /\ BackendTyped'
        BY <1>0, <1>3, InterruptMeans DEF BridgeTyped, BridgeStates, ServiceTyped, BackendTyped, service
    <2> QED BY <1>1, <2>1, TypeMade
<1> QED BY <1>2, <1>3, InterruptMeans

LEMMA TypeRepair ==
    ASSUME TypeOK, Repair
    PROVE  TypeOK'
<1>0. ServiceTyped
    BY TypeParts
<1>1. BridgeTyped' /\ BackendTyped'
    BY TypeFrames DEF Repair
<1>2. QueueTyped'
    BY GoesTyped DEF Repair, HeadPC
<1>3. turns' \in [Turns -> {"none", "run", "abort", "end"}]
    BY <1>0 DEF Repair, ServiceTyped
<1>4. ServiceTyped'
    BY <1>0, <1>3 DEF Repair, ServiceTyped
<1> QED BY <1>1, <1>2, <1>4, TypeMade

LEMMA RepairedMeans ==
    ASSUME TypeOK, Repaired, RepairInv
    PROVE  /\ queue # <<>> /\ head.pc = "repaired" /\ b' \in Bridge
           /\ b'.on = b.on /\ b'.turn = b.turn + 1 /\ b'.view = b.view /\ b'.pending = b.pending
           /\ ~b'.term /\ ~b'.repair
           /\ closed' = b.turn /\ state' = "reasoning" /\ Ends(TRUE)
           /\ UNCHANGED <<start, activation, disposed, cursor, seen, service, backend>>
<1>1. b \in Bridge /\ b.turn < MaxTurns /\ b.turn \in {0} \cup Turns /\ MaxTurns \in Nat
    BY TypeParts, StateTyped, BridgeAssumption DEF BridgeTyped, Repaired, Busy, RepairInv
<1>2. b.turn + 1 \in Turns
    BY <1>1 DEF Turns
<1> DEFINE m == b.turn + 1
<1>3. b' = [b EXCEPT !.turn = m, !.final = FALSE, !.term = FALSE, !.repair = FALSE]
    BY DEF Repaired
<1>4. m \in Turns
    BY <1>2
<1> HIDE DEF m
<1>5. b' \in Bridge /\ b'.on = b.on /\ b'.turn = m /\ b'.view = b.view /\ b'.pending = b.pending /\ ~b'.term /\ ~b'.repair
    BY <1>1, <1>3, <1>4 DEF Bridge
<1> QED BY <1>5 DEF Repaired, Busy, m

LEMMA TypeRepaired ==
    ASSUME TypeOK, Repaired, RepairInv
    PROVE  TypeOK'
<1>0. BridgeTyped /\ b.turn \in {0} \cup Turns
    BY TypeParts, StateTyped
<1>1. ServiceTyped' /\ BackendTyped'
    BY RepairedMeans, TypeFrames
<1>2. QueueTyped'
    BY RepairedMeans, EndsTyped
<1>3. BridgeTyped'
    BY <1>0, RepairedMeans DEF BridgeTyped, BridgeStates
<1> QED BY <1>1, <1>2, <1>3, TypeMade

LEMMA TypeOperation ==
    ASSUME TypeOK, RepairInv, Operation
    PROVE  TypeOK'
BY TypeFinal, TypeToolCall, TypeSubmit, TypeToolAnswer, TypeAcceptView, TypeDeliver, TypeFinalAnswer,
   TypeTurnOver, TypeInterrupt, TypeRepair, TypeRepaired DEF Operation

LEMMA CloserMoves ==
    ASSUME TypeOK, NEW c \in Closers, NEW pc \in CloserPC, CloserAt(c, pc)
    PROVE  /\ closer' \in [Closers -> CloserPC] /\ closer'[c] = pc
           /\ \A d \in Closers \ {c} : closer'[d] = closer[d]
BY TypeParts DEF QueueTyped, CloserAt

LEMMA QueueViewed ==
    ASSUME TypeOK, NEW v \in View, NEW who \in Closers \cup {"hook", "stream"}, queue' = Append(queue, ViewItem(v, who))
    PROVE  queue' \in Seq(Item)
BY ViewItemTyped, AppendFacts, TypeParts DEF QueueTyped

LEMMA TypeInterruptHook ==
    ASSUME TypeOK, NEW c \in Closers, InterruptHook(c)
    PROVE  TypeOK'
<1>0. QueueTyped /\ ServiceTyped /\ BackendTyped
    BY TypeParts
<1>1. BridgeTyped'
    BY TypeFrames DEF InterruptHook
<1>2. CASE InterruptRun(seen) /\ Adopt(run') /\ queue' = Append(queue, ViewItem(run', c)) /\ CloserAt(c, "accept")
    <2>1. run' \in View
        BY <1>2, InterruptRunMeans
    <2>2. cursor' \in Nat /\ seen' \in Nat
        BY <1>2, <2>1, AdoptTyped
    <2>3. queue' \in Seq(Item)
        BY <1>2, <2>1, QueueViewed
    <2>4. closer' \in [Closers -> CloserPC]
        BY <1>2, CloserMoves DEF CloserPC
    <2>5. QueueTyped' /\ ServiceTyped' /\ BackendTyped'
        BY <1>0, <2>1, <2>2, <2>3, <2>4 DEF InterruptHook, QueueTyped, ServiceTyped, BackendTyped, service
    <2> QED BY <1>1, <2>5, TypeMade
<1>3. CASE NoInterrupt(seen) /\ UNCHANGED <<cursor, seen, queue>> /\ CloserAt(c, "error")
    <2>1. closer' \in [Closers -> CloserPC]
        BY <1>3, CloserMoves DEF CloserPC
    <2>2. QueueTyped' /\ ServiceTyped' /\ BackendTyped'
        BY <1>0, <1>3, <2>1 DEF InterruptHook, QueueTyped, ServiceTyped, BackendTyped, service, NoInterrupt
    <2> QED BY <1>1, <2>2, TypeMade
<1> QED BY <1>2, <1>3 DEF InterruptHook

LEMMA StopTyped ==
    ASSUME TypeOK, StopTurn \/ UNCHANGED turns \/ NoCancel(b.turn)
    PROVE  turns' \in [Turns -> {"none", "run", "abort", "end"}]
BY TypeParts DEF StopTurn, CancelTurn, NoCancel, ServiceTyped

\* disconnect() and dispose() up to their second request.
StopMoves(c) ==
    /\ \E pc \in CloserPC \ {"idle", "accept", "cancel"} : CloserAt(c, pc)
    /\ closer[c] \in {"idle", "cancel"}
    /\ \/ ~b.on /\ state' = "failed" /\ UNCHANGED <<b, turns>> /\ CloserAt(c, "done")
       \/ b.on /\ StopTurn /\ b' = [b EXCEPT !.term = TRUE] /\ UNCHANGED state /\ CloserAt(c, "audit")
       \/ b.on /\ NoCancel(b.turn) /\ UNCHANGED b /\ (state' = "failed" \/ UNCHANGED state) /\ ~CloserAt(c, "audit")
    /\ Settle("rejected") \/ UNCHANGED activation
    /\ disposed' \in BOOLEAN
    /\ UNCHANGED <<start, closed, queue, head, plan, refresh, cursor, seen, wire, live, tool, backend>>

LEMMA StopMeans ==
    ASSUME TypeOK, NEW c \in Closers, Disconnect(c) \/ Dispose(c)
    PROVE  StopMoves(c)
<1>1. \A p, q \in CloserPC : CloserAt(c, p) /\ CloserAt(c, q) => p = q
    BY CloserMoves
<1>2. disposed \in BOOLEAN
    BY TypeParts DEF BridgeTyped
<1>3. {"done", "audit", "error", "auditlate"} \subseteq CloserPC \ {"idle", "accept", "cancel"}
    BY DEF CloserPC
<1>4. CASE Disconnect(c)
    BY <1>1, <1>2, <1>3, <1>4 DEF Disconnect, StopMoves
<1>5. CASE Dispose(c)
    <2>1. closer[c] \in {"idle", "cancel"} /\ disposed' = TRUE /\ Settle("rejected")
          /\ UNCHANGED <<start, closed, queue, head, plan, refresh, cursor, seen, wire, live, tool, backend>>
        BY <1>5 DEF Dispose
    <2>2. \/ ~b.on /\ state' = "failed" /\ CloserAt(c, "done") /\ UNCHANGED <<b, turns>>
          \/ b.on /\ StopTurn /\ b' = [b EXCEPT !.term = TRUE] /\ CloserAt(c, "audit") /\ UNCHANGED state
          \/ b.on /\ NoCancel(b.turn) /\ CloserAt(c, "auditlate") /\ UNCHANGED <<b, state>>
        BY <1>5 DEF Dispose
    <2>3. \E pc \in CloserPC \ {"idle", "accept", "cancel"} : CloserAt(c, pc)
        BY <1>3, <2>2
    <2>4. CloserAt(c, "auditlate") => ~CloserAt(c, "audit")
        BY <1>1, <1>3
    <2> QED BY <2>1, <2>2, <2>3, <2>4 DEF StopMoves
<1> QED BY <1>4, <1>5

LEMMA TypeStop ==
    ASSUME TypeOK, NEW c \in Closers, Disconnect(c) \/ Dispose(c)
    PROVE  TypeOK'
<1>0. QueueTyped /\ BridgeTyped /\ ServiceTyped /\ b \in Bridge /\ StopMoves(c)
    BY TypeParts, StopMeans DEF BridgeTyped
<1>1. BackendTyped'
    BY <1>0, TypeFrames DEF StopMoves
<1>2. closer' \in [Closers -> CloserPC]
    BY <1>0, CloserMoves DEF StopMoves
<1>3. turns' \in [Turns -> {"none", "run", "abort", "end"}]
    BY <1>0, StopTyped DEF StopMoves
<1>4. b' \in Bridge
    BY <1>0, BridgeChanges, NoViewTyped DEF StopMoves
<1>5. BridgeTyped'
    BY <1>0, <1>4 DEF StopMoves, BridgeTyped, BridgeStates, Settle
<1>6. QueueTyped' /\ ServiceTyped'
    BY <1>0, <1>2, <1>3 DEF StopMoves, QueueTyped, ServiceTyped
<1> QED BY <1>1, <1>5, <1>6, TypeMade

LEMMA EndAuditMeans ==
    ASSUME TypeOK, NEW c \in Closers, EndAudit(c)
    PROVE  /\ closer[c] \in {"audit", "auditlate"} /\ state' = "failed"
           /\ \/ /\ AuditEnds(b.view) /\ closed' = b.turn
                 /\ b' = [[b EXCEPT !.view = Settled(b.view)] EXCEPT !.on = FALSE]
                 /\ CloserAt(c, IF closer[c] = "audit" THEN "done" ELSE "error")
              \/ /\ AuditFails(b.view) /\ CloserAt(c, "error") /\ UNCHANGED <<run, cursor, seen>>
                 /\ \/ b' = [b EXCEPT !.on = FALSE] /\ closed' = b.turn
                    \/ UNCHANGED <<b, closed>>
           /\ Settle("rejected") \/ UNCHANGED activation
           /\ UNCHANGED <<start, disposed, queue, head, plan, refresh, service, outcome>>
<1> DEFINE r == [b EXCEPT !.view = Settled(b.view)]
<1>1. b \in Bridge
    BY TypeParts DEF BridgeTyped
<1>2. ASSUME Close("failed", r)
      PROVE  state' = "failed" /\ closed' = b.turn /\ b' = [r EXCEPT !.on = FALSE]
    <2>1. r.turn = b.turn
        BY <1>1 DEF Bridge
    <2> HIDE DEF r
    <2> QED BY <1>2, <2>1 DEF Close
<1>3. CASE AuditEnds(b.view) /\ Close("failed", r) /\ CloserAt(c, IF closer[c] = "audit" THEN "done" ELSE "error") /\ Settle("rejected")
    <2> HIDE DEF r
    <2>1. state' = "failed" /\ closed' = b.turn /\ b' = [r EXCEPT !.on = FALSE]
        BY <1>2, <1>3
    <2> QED BY <1>3, <2>1 DEF EndAudit, r
<1>4. CASE AuditFails(b.view) /\ state' = "failed" /\ CloserAt(c, "error") /\ UNCHANGED activation
           /\ (IF how[c] = "dispose" THEN b' = [b EXCEPT !.on = FALSE] /\ closed' = b.turn ELSE UNCHANGED <<b, closed>>)
    <2>1. UNCHANGED <<run, cursor, seen>>
        BY <1>4 DEF AuditFails, NoInterrupt
    <2> QED BY <1>4, <2>1 DEF EndAudit
<1> QED BY <1>3, <1>4 DEF EndAudit

LEMMA TypeEndAudit ==
    ASSUME TypeOK, NEW c \in Closers, EndAudit(c)
    PROVE  TypeOK'
<1>0. QueueTyped /\ BridgeTyped /\ ServiceTyped /\ BackendTyped /\ b \in Bridge
    BY TypeParts DEF BridgeTyped
<1>1. closer' \in [Closers -> CloserPC]
    BY EndAuditMeans, CloserMoves DEF CloserPC
<1>2. cursor' \in Nat /\ seen' \in Nat /\ run' \in View /\ b' \in Bridge /\ closed' \in {0} \cup Turns
    <2>1. CASE AuditEnds(b.view) /\ closed' = b.turn /\ b' = [[b EXCEPT !.view = Settled(b.view)] EXCEPT !.on = FALSE]
        BY <1>0, <2>1, SettledTyped, BridgeChanges
    <2>2. CASE /\ UNCHANGED <<run, cursor, seen>>
               /\ \/ b' = [b EXCEPT !.on = FALSE] /\ closed' = b.turn
                  \/ UNCHANGED <<b, closed>>
        <3>1. [b EXCEPT !.on = FALSE] \in Bridge /\ b.turn \in {0} \cup Turns
            BY <1>0, NoViewTyped, BridgeChanges
        <3> QED BY <1>0, <2>2, <3>1 DEF BridgeTyped, ServiceTyped, BackendTyped
    <2> QED BY <2>1, <2>2, EndAuditMeans
<1>3. BridgeTyped'
    BY <1>0, <1>2, EndAuditMeans DEF BridgeTyped, BridgeStates, Settle
<1>4. QueueTyped' /\ ServiceTyped' /\ BackendTyped'
    BY <1>0, <1>1, <1>2, EndAuditMeans DEF QueueTyped, ServiceTyped, BackendTyped, service
<1> QED BY <1>3, <1>4, TypeMade

LEMMA TypeHook ==
    ASSUME TypeOK, Hook
    PROVE  TypeOK'
<1>0. QueueTyped /\ ServiceTyped /\ BackendTyped /\ run \in View /\ run.ver \in Nat /\ refresh.view \in View
    BY TypeParts, StateTyped
<1>1. CASE RunEvent
    <2>1. BridgeTyped' /\ BackendTyped'
        BY <1>1, TypeFrames DEF RunEvent
    <2>2. QueueTyped' /\ ServiceTyped'
        BY <1>0, <1>1 DEF RunEvent, QueueTyped, ServiceTyped, service
    <2> QED BY <2>1, <2>2, TypeMade
<1>2. CASE RefreshGet
    <2>1. BridgeTyped' /\ BackendTyped' /\ ServiceTyped'
        BY <1>2, TypeFrames DEF RefreshGet
    <2>2. QueueTyped'
        BY <1>0, <1>2 DEF RefreshGet, QueueTyped
    <2> QED BY <2>1, <2>2, TypeMade
<1>3. CASE RefreshGot
    <2>1. BridgeTyped' /\ BackendTyped'
        BY <1>3, TypeFrames DEF RefreshGot
    <2>2. cursor' \in Nat /\ seen' \in Nat
        BY <1>0, <1>3, AdoptTyped DEF RefreshGot
    <2>3. ServiceTyped'
        BY <1>0, <1>3, <2>2 DEF RefreshGot, ServiceTyped, service
    <2>4. queue' \in Seq(Item)
        BY <1>0, <1>3, QueueViewed DEF RefreshGot, QueueTyped
    <2>5. refresh' \in [pc : {"idle", "got", "queued"}, due : BOOLEAN, view : View]
        BY <1>0, <1>3, NoViewTyped DEF RefreshGot, QueueTyped
    <2>6. QueueTyped'
        BY <1>0, <1>3, <2>4, <2>5 DEF RefreshGot, QueueTyped
    <2> QED BY <2>1, <2>3, <2>6, TypeMade
<1> QED BY <1>1, <1>2, <1>3 DEF Hook

LEMMA DecideApprovalMeans ==
    ASSUME TypeOK, DecideApproval
    PROVE  /\ run.st = "waiting_approval" /\ run' \in View
           /\ \/ /\ run'.st = "waiting_tool" /\ run'.tool = run.tool /\ run'.ok = run.ok /\ run'.res = run.res
                 /\ outcome' = outcome
              \/ run'.st = "running" /\ ~run'.ok /\ outcome' = [outcome EXCEPT ![run.tool] = "bad"]
           /\ Adopt(run') /\ queue' = Append(queue, ViewItem(run', "stream"))
           /\ UNCHANGED <<bridge, head, plan, closer, refresh, service>>
<1>1. run \in View /\ run.tool \in Tools \cup {NoTool}
    BY StateTyped
<1>2. CASE run' = [run EXCEPT !.st = "waiting_tool", !.ver = @ + 1] /\ UNCHANGED outcome
    <2>1. run' = [st |-> "waiting_tool", ver |-> run.ver + 1, tool |-> run.tool, res |-> run.res, ok |-> run.ok, fb |-> run.fb]
        BY <1>1, <1>2 DEF View
    <2>2. run' \in View
        BY <1>1, <2>1, ViewTyped DEF View, RunStatus
    <2> QED BY <1>2, <2>1, <2>2 DEF DecideApproval
<1>3. CASE run' = [Decided("running") EXCEPT !.res = run.tool] /\ outcome' = [outcome EXCEPT ![run.tool] = "bad"]
    <2>1. run' \in View /\ run'.st = "running" /\ ~run'.ok
        BY <1>1, <1>3, ResultTyped
    <2> QED BY <1>3, <2>1 DEF DecideApproval
<1> QED BY <1>2, <1>3 DEF DecideApproval

LEMMA TypeDecideApproval ==
    ASSUME TypeOK, DecideApproval
    PROVE  TypeOK'
<1>0. QueueTyped /\ ServiceTyped /\ BackendTyped
    BY TypeParts
<1>1. BridgeTyped'
    BY DecideApprovalMeans, TypeFrames
<1>2. BackendTyped'
    BY <1>0, DecideApprovalMeans DEF BackendTyped
<1>3. cursor' \in Nat /\ seen' \in Nat
    BY DecideApprovalMeans, AdoptTyped
<1>4. ServiceTyped'
    BY <1>0, <1>3, DecideApprovalMeans DEF ServiceTyped, service
<1>5. queue' \in Seq(Item)
    BY DecideApprovalMeans, QueueViewed
<1>6. QueueTyped'
    BY <1>0, <1>5, DecideApprovalMeans DEF QueueTyped
<1> QED BY <1>1, <1>2, <1>4, <1>6, TypeMade

\* The run after an approved tool's worker has ended.
Ended(t, good) == [Decided("running") EXCEPT !.res = t, !.ok = good]
LEMMA EndedTyped ==
    ASSUME TypeOK, NEW t \in Tools \cup {NoTool}, NEW good \in BOOLEAN
    PROVE  Ended(t, good) \in View /\ Ended(t, good).st = "running" /\ Ended(t, good).res = t /\ Ended(t, good).ok = good
<1> DEFINE d == Decided("running")
<1>1. d \in View
    BY DecidedTyped DEF RunStatus
<1>2. Ended(t, good) = [d EXCEPT !.res = t, !.ok = good]
    BY DEF Ended
<1>3. d.st = "running"
    BY DecidedTyped DEF RunStatus
<1> HIDE DEF d
<1> QED BY <1>1, <1>2, <1>3 DEF View

LEMMA ToolEndsMeans ==
    ASSUME TypeOK, ToolEnds
    PROVE  /\ run.st = "waiting_tool" /\ run' \in View /\ run'.st = "running"
           /\ \E good \in BOOLEAN : /\ run'.ok = good /\ run'.res = run.tool
                                    /\ outcome' = [outcome EXCEPT ![run.tool] = IF good THEN "ok" ELSE "bad"]
           /\ UNCHANGED <<bridge, queue, head, hook, service>>
<1>1. run.tool \in Tools \cup {NoTool}
    BY StateTyped
<1>2. PICK good \in BOOLEAN :
            /\ run' = Ended(run.tool, good)
            /\ outcome' = [outcome EXCEPT ![run.tool] = IF good THEN "ok" ELSE "bad"]
    BY Zenon DEF ToolEnds, Ended
<1>3. run' \in View /\ run'.st = "running" /\ run'.res = run.tool /\ run'.ok = good
    BY <1>1, <1>2, EndedTyped
<1> QED BY <1>2, <1>3 DEF ToolEnds

LEMMA TypeToolEnds ==
    ASSUME TypeOK, ToolEnds
    PROVE  TypeOK'
<1>1. QueueTyped' /\ BridgeTyped' /\ ServiceTyped'
    BY ToolEndsMeans, TypeFrames DEF hook
<1>2. BackendTyped'
    BY ToolEndsMeans, TypeParts DEF BackendTyped
<1> QED BY <1>1, <1>2, TypeMade

LEMMA CallToolMeans ==
    ASSUME TypeOK, CallTool
    PROVE  \E t \in Tools, n \in Turns :
                /\ turns[n] = "run" /\ tool[t] = "none" /\ live
                /\ tool' = [tool EXCEPT ![t] = "open"]
                /\ wire' = wire \o <<Event("tool", n, t)>>
                /\ UNCHANGED <<bridge, queue, head, hook, turns, live, backend>>
<1>1. plan.tools \subseteq Tools
    BY TypeParts DEF QueueTyped, Plan
<1> QED BY <1>1 DEF CallTool, Tell

\* What a turn's end puts on the stream.
LastWords(n) ==
    {<<Event("final", n, NoTool), Event("completed", n, NoTool)>>, <<Event("failed", n, NoTool)>>, <<Event("cancelled", n, NoTool)>>}

LEMMA EndTurnMeans ==
    ASSUME TypeOK, EndTurn
    PROVE  \E n \in Turns : \E u \in LastWords(n) :
                /\ \/ turns[n] = "run" /\ Gone = tool
                   \/ turns[n] = "run" /\ Fails("codex")
                   \/ turns[n] = "abort"
                /\ Tell(u)
                /\ turns' = [turns EXCEPT ![n] = "end"]
                /\ tool' = Gone
                /\ UNCHANGED <<bridge, queue, head, hook, live, backend>>
<1>1. PICK n \in Turns :
        /\ \/ turns[n] = "run" /\ Gone = tool /\ Tell(<<Event("final", n, NoTool), Event("completed", n, NoTool)>>)
           \/ turns[n] = "run" /\ Fails("codex") /\ Tell(<<Event("failed", n, NoTool)>>)
           \/ turns[n] = "abort" /\ Tell(<<Event("cancelled", n, NoTool)>>)
        /\ turns' = [turns EXCEPT ![n] = "end"]
        /\ tool' = Gone
        /\ UNCHANGED <<bridge, queue, head, hook, live, backend>>
    BY DEF EndTurn
<1>2. PICK u \in LastWords(n) :
        /\ \/ turns[n] = "run" /\ Gone = tool
           \/ turns[n] = "run" /\ Fails("codex")
           \/ turns[n] = "abort"
        /\ Tell(u)
    BY <1>1, Zenon DEF LastWords
<1> QED BY <1>1, <1>2

LEMMA LastWordsTyped ==
    ASSUME NEW n \in Turns, NEW u \in LastWords(n)
    PROVE  /\ u \in Seq(Item) /\ u # <<>>
           /\ \A i \in DOMAIN u : /\ u[i].k \in {"final"} \cup LastEvents /\ u[i].turn = n /\ u[i].tool = NoTool
                                  /\ u[i].view = NoView /\ u[i].by = "stream"
           /\ \A i, j \in DOMAIN u : i < j => u[i].k = "final"
           /\ \E i \in DOMAIN u : u[i].k \in LastEvents
<1> DEFINE f == Event("final", n, NoTool)
           c == Event("completed", n, NoTool)
           a == Event("failed", n, NoTool)
           x == Event("cancelled", n, NoTool)
           Good(e) == e.k \in {"final"} \cup LastEvents /\ e.turn = n /\ e.tool = NoTool /\ e.view = NoView /\ e.by = "stream"
<1>1. /\ f \in Item /\ c \in Item /\ a \in Item /\ x \in Item
      /\ Good(f) /\ Good(c) /\ Good(a) /\ Good(x)
      /\ f.k = "final" /\ c.k \in LastEvents /\ a.k \in LastEvents /\ x.k \in LastEvents
    BY EventTyped DEF LastEvents
<1>2. u = <<f, c>> \/ u = <<a>> \/ u = <<x>>
    BY DEF LastWords
<1> HIDE DEF f, c, a, x, Good
<1>3. CASE u = <<f, c>>
    <2>1. u \in Seq(Item) /\ u # <<>> /\ DOMAIN u = {1, 2} /\ u[1] = f /\ u[2] = c
        BY <1>1, <1>3
    <2>2. \A i \in DOMAIN u : Good(u[i])
        BY <1>1, <2>1
    <2>3. \A i, j \in DOMAIN u : i < j => u[i].k = "final"
        BY <1>1, <2>1
    <2>4. u[2].k \in LastEvents
        BY <1>1, <2>1
    <2> QED BY <2>1, <2>2, <2>3, <2>4 DEF Good
<1>4. CASE u = <<a>>
    <2>1. u \in Seq(Item) /\ u # <<>> /\ DOMAIN u = {1} /\ u[1] = a
        BY <1>1, <1>4
    <2>2. \A i \in DOMAIN u : Good(u[i])
        BY <1>1, <2>1
    <2>3. \A i, j \in DOMAIN u : i < j => u[i].k = "final"
        BY <2>1
    <2>4. u[1].k \in LastEvents
        BY <1>1, <2>1
    <2> QED BY <2>1, <2>2, <2>3, <2>4 DEF Good
<1>5. CASE u = <<x>>
    <2>1. u \in Seq(Item) /\ u # <<>> /\ DOMAIN u = {1} /\ u[1] = x
        BY <1>1, <1>5
    <2>2. \A i \in DOMAIN u : Good(u[i])
        BY <1>1, <2>1
    <2>3. \A i, j \in DOMAIN u : i < j => u[i].k = "final"
        BY <2>1
    <2>4. u[1].k \in LastEvents
        BY <1>1, <2>1
    <2> QED BY <2>1, <2>2, <2>3, <2>4 DEF Good
<1> QED BY <1>2, <1>3, <1>4, <1>5

\* Any step of the service on its own.
LEMMA TypeService ==
    ASSUME TypeOK, Service \/ EndTurn
    PROVE  TypeOK'
<1>0. ServiceTyped
    BY TypeParts
<1>1. QueueTyped' /\ BridgeTyped' /\ BackendTyped' /\ UNCHANGED <<cursor, seen>>
    BY TypeFrames DEF Service, EndTurn, CallTool, ToolTimeout, LoseStream, hook
<1>2. Gone \in [Tools -> {"none", "open", "ok", "failed", "gone"}]
    BY <1>0 DEF Gone, ServiceTyped
<1>6. CASE CallTool
    <2>1. PICK t \in Tools, n \in Turns :
                /\ tool' = [tool EXCEPT ![t] = "open"]
                /\ wire' = wire \o <<Event("tool", n, t)>>
                /\ UNCHANGED <<turns, live>>
        BY <1>6, CallToolMeans
    <2>2. <<Event("tool", n, t)>> \in Seq(Item)
        BY EventTyped
    <2>3. wire' \in Seq(Item)
        BY <1>0, <2>1, <2>2, ConcatFacts DEF ServiceTyped
    <2>4. ServiceTyped'
        BY <1>0, <1>1, <2>1, <2>3 DEF ServiceTyped
    <2> QED BY <1>1, <2>4, TypeMade
<1>7. CASE ToolTimeout
    <2>1. tool' \in [Tools -> {"none", "open", "ok", "failed", "gone"}]
        BY <1>0, <1>7 DEF ServiceTyped, ToolTimeout
    <2>2. ServiceTyped'
        BY <1>0, <1>1, <1>7, <2>1 DEF ServiceTyped, ToolTimeout
    <2> QED BY <1>1, <2>2, TypeMade
<1>9. CASE LoseStream
    <2>1. tool' \in [Tools -> {"none", "open", "ok", "failed", "gone"}]
        BY <1>2, <1>9 DEF LoseStream
    <2>2. turns' \in [Turns -> {"none", "run", "abort", "end"}]
        BY <1>0, <1>9 DEF ServiceTyped, LoseStream
    <2>3. wire' = <<>> /\ live' = FALSE
        BY <1>9 DEF LoseStream
    <2>4. wire' \in Seq(Item) /\ live' \in BOOLEAN
        BY <2>3, EmptySeq
    <2> QED BY <1>1, <2>1, <2>2, <2>4, TypeMade, <1>0 DEF ServiceTyped
<1>8. CASE EndTurn
    <2>1. PICK n \in Turns : \E u \in LastWords(n) :
                /\ Tell(u)
                /\ turns' = [turns EXCEPT ![n] = "end"]
                /\ tool' = Gone
                /\ UNCHANGED live
        BY <1>8, EndTurnMeans
    <2>2. wire' \in Seq(Item)
        <3>1. PICK u \in LastWords(n) : Tell(u)
            BY <2>1
        <3> QED BY <1>0, <3>1, LastWordsTyped, ConcatFacts DEF ServiceTyped, Tell
    <2>3. ServiceTyped'
        BY <1>0, <1>1, <1>2, <2>1, <2>2 DEF ServiceTyped
    <2> QED BY <1>1, <2>3, TypeMade
<1> QED BY <1>6, <1>7, <1>8, <1>9 DEF Service

LEMMA TypeStep ==
    ASSUME TypeOK, RepairInv, [Next]_vars
    PROVE  TypeOK'
<1>1. CASE UNCHANGED vars
    <2>1. QueueTyped' /\ BridgeTyped' /\ ServiceTyped' /\ BackendTyped'
        BY <1>1, TypeFrames DEF vars, hook
    <2> QED BY <2>1, TypeMade
<1>2. CASE \E c \in Closers : InterruptHook(c) \/ Disconnect(c) \/ Dispose(c) \/ EndAudit(c)
    BY <1>2, TypeInterruptHook, TypeStop, TypeEndAudit
<1> QED BY <1>1, <1>2, TypeStart, TypeRead, TypeOperation, TypeHook, TypeDecideApproval, TypeToolEnds, TypeService DEF Next

----------------------------------------------------------------------------
(* What each step does *)

\* The run of the bridge but for its view and its pending tool.
KeepsRun == b'.on = b.on /\ b'.turn = b.turn /\ b'.term = b.term /\ b'.repair = b.repair
HeadGoes(pc) == UNCHANGED <<queue, plan, closer, refresh>> /\ head'.pc = pc /\ head'.view = head.view

LEMMA PopsMeans ==
    ASSUME TypeOK, Pops
    PROVE  /\ queue # <<>> /\ queue' = Tail(queue) /\ head' = NoHead /\ head'.pc = "ready" /\ head'.view = NoView
           /\ plan' = plan
           /\ refresh'.view = refresh.view \/ refresh'.view = NoView
           /\ \A c \in Closers : closer'[c] = closer[c] \/ (c = Op.by /\ closer'[c] \in {"cancel", "error"})
BY EndsTyped, NoHeadTyped DEF Pops

LEMMA DropMeans ==
    ASSUME TypeOK, Drop
    PROVE  /\ head.pc = "ready" /\ Op.k # "view" /\ Pops
           /\ activation = "rejected" \/ (activation = "ok" /\ (Late \/ ~Mine))
           /\ UNCHANGED <<bridge, cursor, seen, service, backend>>
BY DEF Drop, Busy, Pops

LEMMA ToolCallMeans ==
    ASSUME TypeOK, ToolCall
    PROVE  /\ queue # <<>> /\ head.pc = "ready" /\ activation = "ok" /\ b.on /\ b.turn = Op.turn /\ Op.k = "tool"
           /\ KeepsRun /\ b'.view = b.view
           /\ \/ Pops /\ b' = b
              \/ /\ b.pending = NoTool /\ Fails("sync") /\ b' = b
                 /\ HeadGoes("deliver") /\ head'.send = "failed"
              \/ b.pending = NoTool /\ HeadGoes("submit") /\ b'.pending = Op.tool
           /\ UNCHANGED <<start, state, activation, closed, disposed, cursor, seen, service, backend>>
<1>0. queue # <<>> /\ head.pc = "ready" /\ activation = "ok" /\ b.on /\ b.turn = Op.turn /\ Op.k = "tool" /\ b \in Bridge
      /\ Op.tool \in Tools \cup {NoTool}
      /\ UNCHANGED <<start, state, activation, closed, disposed, cursor, seen, service, backend>>
    BY TypeParts, OpAt DEF ToolCall, Handling, Busy, Mine, BridgeTyped
<1>1. CASE Ends(FALSE) /\ UNCHANGED b
    BY <1>0, <1>1 DEF Pops, KeepsRun
<1>2. CASE b.pending = NoTool /\ Fails("sync") /\ Sends("failed", Op.tool, FALSE) /\ UNCHANGED b
    BY <1>0, <1>2, SendsTyped DEF HeadGoes, KeepsRun
<1>3. CASE b.pending = NoTool /\ Goes("submit") /\ b' = [b EXCEPT !.pending = Op.tool]
    <2>1. HeadGoes("submit")
        BY <1>3, GoesTyped DEF HeadPC, HeadGoes
    <2>2. KeepsRun /\ b'.view = b.view /\ b'.pending = Op.tool
        BY <1>0, <1>3 DEF Bridge, KeepsRun
    <2> QED BY <1>0, <1>3, <2>1, <2>2
<1> QED BY <1>1, <1>2, <1>3 DEF ToolCall

LEMMA ToolAnswerMeans ==
    ASSUME TypeOK, ToolAnswer
    PROVE  /\ queue # <<>> /\ head.pc = "answer" /\ Op.k = "tool"
           /\ KeepsRun /\ b'.pending = b.pending /\ b'.view \in {b.view, head.view}
           /\ \/ /\ HeadGoes("deliver") /\ head'.send = "failed" /\ head'.tool = Op.tool /\ state' = state
              \/ Pops /\ state' \in {state, "waiting_approval", "delivering_result"}
              \/ b.pending # NoTool /\ Delivers(b.pending, head.view) /\ state' = state
           /\ UNCHANGED <<start, activation, closed, disposed, service, backend>>
<1>0. queue # <<>> /\ head.pc = "answer" /\ Op.k = "tool" /\ b \in Bridge /\ head.view \in View /\ Op.tool \in Tools \cup {NoTool}
      /\ UNCHANGED <<start, activation, closed, disposed, service, backend>>
    BY TypeParts, OpAt, StateTyped DEF ToolAnswer, Busy, BridgeTyped
<1>1. CASE Sends("failed", Op.tool, TRUE) /\ UNCHANGED <<b, state, cursor, seen>>
    BY <1>0, <1>1, SendsTyped DEF HeadGoes, KeepsRun
<1>2. CASE Ends(FALSE) /\ UNCHANGED <<b, state, cursor, seen>>
    BY <1>0, <1>2 DEF Pops, KeepsRun
<1>3. CASE b' = [b EXCEPT !.view = head.view] /\ Adopt(head.view) /\ Accept(head.view)
    <2>1. KeepsRun /\ b'.pending = b.pending /\ b'.view = head.view
        BY <1>0, <1>3 DEF Bridge, KeepsRun
    <2> QED BY <1>0, <1>3, <2>1, AcceptMeans
<1> QED BY <1>1, <1>2, <1>3 DEF ToolAnswer

LEMMA AcceptViewMeans ==
    ASSUME TypeOK, AcceptView
    PROVE  /\ queue # <<>> /\ head.pc = "ready" /\ Op.k = "view"
           /\ KeepsRun /\ b'.pending = b.pending /\ b'.view \in {b.view, Op.view}
           /\ \/ Pops /\ (state' = state \/ (b.pending # NoTool /\ state' \in {"waiting_approval", "delivering_result"}))
              \/ b.on /\ b.pending # NoTool /\ Delivers(b.pending, Op.view) /\ state' = state
           /\ UNCHANGED <<start, activation, closed, disposed, service, backend>>
<1>0. queue # <<>> /\ head.pc = "ready" /\ Op.k = "view" /\ b \in Bridge /\ Op.view \in View
      /\ UNCHANGED <<start, activation, closed, disposed, service, backend>>
    BY TypeParts, OpAt DEF AcceptView, Busy, BridgeTyped
<1>2. CASE Ends(FALSE) /\ UNCHANGED <<b, state, cursor, seen>>
    BY <1>0, <1>2 DEF Pops, KeepsRun
<1>3. CASE b.on /\ b' = [b EXCEPT !.view = Op.view] /\ Adopt(Op.view) /\ Accept(Op.view)
    <2>1. KeepsRun /\ b'.pending = b.pending /\ b'.view = Op.view
        BY <1>0, <1>3 DEF Bridge, KeepsRun
    <2> QED BY <1>0, <1>3, <2>1, AcceptMeans
<1> QED BY <1>2, <1>3 DEF AcceptView

LEMMA DeliverMeans ==
    ASSUME TypeOK, Deliver
    PROVE  /\ head.pc = "deliver" /\ Pops
           /\ KeepsRun /\ b'.view = b.view /\ state' \in {"failed", "reasoning"}
           /\ \A t \in Tools : tool'[t] = tool[t] \/ (t = head.tool /\ tool'[t] = head.send)
           /\ \/ b'.pending = NoTool
              \/ b' = b /\ (tool[head.tool] # "open" \/ Fails("local") \/ Fails("lost"))
           /\ UNCHANGED <<start, activation, closed, disposed, turns, wire, live, backend>>
<1>0. queue # <<>> /\ head.pc = "deliver" /\ b \in Bridge /\ tool \in [Tools -> {"none", "open", "ok", "failed", "gone"}]
      /\ UNCHANGED <<start, activation, closed, disposed, turns, wire, live, backend>>
    BY TypeParts DEF Deliver, Busy, BridgeTyped, ServiceTyped
<1>1. tool' = tool \/ tool' = [tool EXCEPT ![head.tool] = head.send]
    BY DEF Deliver
<1>2. \A t \in Tools : tool'[t] = tool[t] \/ (t = head.tool /\ tool'[t] = head.send)
    BY <1>0, <1>1
<1>3. CASE b' = [b EXCEPT !.pending = NoTool] /\ state' = (IF head.fails THEN "failed" ELSE "reasoning") /\ Ends(TRUE)
    <2>1. KeepsRun /\ b'.view = b.view /\ b'.pending = NoTool
        BY <1>0, <1>3 DEF Bridge, KeepsRun
    <2> QED BY <1>0, <1>2, <1>3, <2>1 DEF Pops
<1>4. CASE (tool[head.tool] # "open" \/ Fails("local") \/ Fails("lost")) /\ state' = "failed" /\ Ends(FALSE) /\ UNCHANGED b
    BY <1>0, <1>2, <1>4 DEF Pops, KeepsRun
<1> QED BY <1>3, <1>4 DEF Deliver

LEMMA FinalMeans ==
    ASSUME TypeOK, Final
    PROVE  /\ queue # <<>> /\ head.pc = "ready" /\ activation = "ok" /\ b.on /\ b.turn = Op.turn /\ Op.k = "final"
           /\ Pops \/ (b.pending = NoTool /\ HeadGoes("submit"))
           /\ UNCHANGED <<bridge, cursor, seen, service, backend>>
BY GoesTyped DEF Final, Handling, Busy, Mine, Pops, HeadPC, HeadGoes

LEMMA RepairMeans ==
    ASSUME TypeOK, Repair
    PROVE  /\ queue # <<>> /\ head.pc = "repair"
           /\ \/ HeadGoes("repaired") /\ turns' = [turns EXCEPT ![b.turn + 1] = IF live THEN "run" ELSE "abort"]
              \/ HeadGoes("interrupt") /\ turns' = turns /\ Fails("local")
           /\ UNCHANGED <<bridge, cursor, seen, wire, live, tool, backend>>
BY GoesTyped DEF Repair, Busy, HeadPC, HeadGoes

LEMMA InterruptHookMeans ==
    ASSUME TypeOK, NEW c \in Closers, InterruptHook(c)
    PROVE  /\ closer[c] = "idle" /\ seen > 0
           /\ \/ /\ InterruptRun(seen) /\ queue' = Append(queue, ViewItem(run', c))
                 /\ run' \in View /\ closer'[c] = "accept"
              \/ run' = run /\ queue' = queue /\ closer'[c] = "error"
           /\ \A d \in Closers \ {c} : closer'[d] = closer[d]
           /\ UNCHANGED <<bridge, head, plan, refresh, service, outcome>>
<1>1. \A pc \in CloserPC : CloserAt(c, pc) => closer'[c] = pc /\ \A d \in Closers \ {c} : closer'[d] = closer[d]
    BY CloserMoves
<1>2. "accept" \in CloserPC /\ "error" \in CloserPC
    BY DEF CloserPC
<1>3. closer[c] = "idle" /\ seen > 0 /\ UNCHANGED <<bridge, head, plan, refresh, service, outcome>>
    BY DEF InterruptHook
<1>4. CASE InterruptRun(seen) /\ queue' = Append(queue, ViewItem(run', c)) /\ CloserAt(c, "accept")
    BY <1>1, <1>2, <1>3, <1>4, InterruptRunMeans
<1>5. CASE NoInterrupt(seen) /\ UNCHANGED <<cursor, seen, queue>> /\ CloserAt(c, "error")
    BY <1>1, <1>2, <1>3, <1>5 DEF NoInterrupt
<1> QED BY <1>4, <1>5 DEF InterruptHook

LEMMA HookMeans ==
    ASSUME TypeOK, Hook
    PROVE  /\ refresh'.view \in {refresh.view, run, NoView}
           /\ queue' = queue \/ queue' = Append(queue, ViewItem(refresh.view, "hook"))
           /\ UNCHANGED <<bridge, head, plan, closer, service, backend>>
<1>0. refresh \in [pc : {"idle", "got", "queued"}, due : BOOLEAN, view : View]
    BY TypeParts DEF QueueTyped
<1>1. CASE RunEvent
    BY <1>0, <1>1 DEF RunEvent
<1>2. CASE RefreshGet
    BY <1>2 DEF RefreshGet
<1>3. CASE RefreshGot
    <2>1. refresh'.view = NoView
        BY <1>0, <1>3 DEF RefreshGot
    <2> QED BY <1>3, <2>1 DEF RefreshGot
<1> QED BY <1>1, <1>2, <1>3 DEF Hook

\* StartDone: the bridge takes up its run.
LEMMA StartDoneMeans ==
    ASSUME TypeOK, StartDone
    PROVE  /\ start = "audit" /\ b'.on /\ b'.turn = 1 /\ b'.view = FirstView
           /\ b'.pending = b.pending /\ b'.term = b.term /\ b'.repair = b.repair
           /\ \/ disposed /\ start' = "failed" /\ UNCHANGED <<activation, state>>
                 /\ \A c \in Closers : closer'[c] = closer[c] \/ (closer[c] = "done" /\ closer'[c] = "cancel")
              \/ start' = "done" /\ Settle("ok") /\ state' = "reasoning" /\ UNCHANGED closer
           /\ UNCHANGED <<closed, disposed, queue, head, plan, refresh, service, backend>>
<1>0. b \in Bridge /\ closer \in [Closers -> CloserPC] /\ FirstView \in View
    BY TypeParts, FirstViewTyped DEF BridgeTyped, QueueTyped
<1>1. b' = [b EXCEPT !.on = TRUE, !.turn = 1, !.view = FirstView]
    BY DEF StartDone, FirstView
<1>2. b'.on /\ b'.turn = 1 /\ b'.view = FirstView /\ b'.pending = b.pending /\ b'.term = b.term /\ b'.repair = b.repair
    BY <1>0, <1>1 DEF Bridge
<1>3. start = "audit" /\ UNCHANGED <<closed, disposed, queue, head, plan, refresh, service, backend>>
    BY DEF StartDone
<1>4. \/ /\ disposed /\ start' = "failed" /\ UNCHANGED <<activation, state>>
         /\ closer' = [c \in Closers |-> IF how[c] = "dispose" /\ closer[c] = "done" THEN "cancel" ELSE closer[c]]
      \/ start' = "done" /\ Settle("ok") /\ state' = "reasoning" /\ UNCHANGED closer
    BY Zenon DEF StartDone
<1>5. ASSUME closer' = [c \in Closers |-> IF how[c] = "dispose" /\ closer[c] = "done" THEN "cancel" ELSE closer[c]]
      PROVE  \A c \in Closers : closer'[c] = closer[c] \/ (closer[c] = "done" /\ closer'[c] = "cancel")
    BY <1>5, Zenon
<1> QED BY <1>2, <1>3, <1>4, <1>5

\* The run of the bridge when its turn is over, stopped, or given up.
GivesUp == ~b'.on /\ b'.turn = b.turn /\ b'.repair = b.repair /\ b'.pending = b.pending

LEMMA TurnOverLeaves ==
    ASSUME TypeOK, TurnOver
    PROVE  /\ queue # <<>> /\ head.pc = "ready" /\ activation = "ok" /\ b.on /\ b.turn = Op.turn /\ Op.k \in LastEvents
           /\ b'.turn = b.turn /\ b'.view = b.view /\ b'.pending = b.pending /\ b'.repair = b.repair /\ b'.term
           /\ \/ b.repair /\ HeadGoes("repair") /\ b'.on /\ state' = state
              \/ Over(b.view) /\ Pops /\ ~b'.on /\ state' \in {"failed", "idle"}
              \/ HeadGoes("interrupt") /\ b'.on /\ state' = state
           /\ UNCHANGED <<start, activation, disposed, cursor, seen, service, backend>>
<1>0. b \in Bridge
    BY TypeParts DEF BridgeTyped
<1>1. ASSUME NEW r, r = [b EXCEPT !.term = TRUE]
      PROVE  r \in Bridge /\ r.turn = b.turn /\ r.view = b.view /\ r.pending = b.pending /\ r.repair = b.repair /\ r.term /\ r.on = b.on
    BY <1>0, <1>1 DEF Bridge
<1>2. ASSUME NEW r, r = [[b EXCEPT !.term = TRUE] EXCEPT !.on = FALSE]
      PROVE  r.turn = b.turn /\ r.view = b.view /\ r.pending = b.pending /\ r.repair = b.repair /\ r.term /\ ~r.on
    <2> DEFINE q == [b EXCEPT !.term = TRUE]
    <2>1. q \in Bridge /\ q.turn = b.turn /\ q.view = b.view /\ q.pending = b.pending /\ q.repair = b.repair /\ q.term
        BY <1>1
    <2>2. r = [q EXCEPT !.on = FALSE]
        BY <1>2
    <2> HIDE DEF q
    <2> QED BY <2>1, <2>2 DEF Bridge
<1>3. /\ queue # <<>> /\ head.pc = "ready" /\ activation = "ok" /\ b.on /\ b.turn = Op.turn /\ Op.k \in LastEvents
      /\ UNCHANGED <<start, activation, disposed, cursor, seen, service, backend>>
    BY TurnOverMeans
<1>4. CASE b.repair /\ Goes("repair") /\ b' = [b EXCEPT !.term = TRUE] /\ UNCHANGED <<closed, state>>
    <2>1. HeadGoes("repair") /\ state' = state
        BY <1>4, GoesTyped DEF HeadPC, HeadGoes
    <2>2. b.repair
        BY <1>4
    <2>3. b'.turn = b.turn /\ b'.view = b.view /\ b'.pending = b.pending /\ b'.repair = b.repair /\ b'.term /\ b'.on = b.on
        BY <1>1, <1>4
    <2> HIDE <1>4
    <2> QED BY <1>3, <2>1, <2>2, <2>3
<1>5. CASE Goes("interrupt") /\ b' = [b EXCEPT !.term = TRUE] /\ UNCHANGED <<closed, state>>
    <2>1. HeadGoes("interrupt") /\ state' = state
        BY <1>5, GoesTyped DEF HeadPC, HeadGoes
    <2>3. b'.turn = b.turn /\ b'.view = b.view /\ b'.pending = b.pending /\ b'.repair = b.repair /\ b'.term /\ b'.on = b.on
        BY <1>1, <1>5
    <2> QED BY <1>3, <2>1, <2>3
<1>6. CASE /\ Over(b.view) /\ Ends(TRUE)
           /\ b' = [[b EXCEPT !.term = TRUE] EXCEPT !.on = FALSE] /\ closed' = b.turn /\ state' \in {"failed", "idle"}
    <2>1. Over(b.view) /\ Pops /\ state' \in {"failed", "idle"}
        BY <1>3, <1>6 DEF Pops
    <2>3. b'.turn = b.turn /\ b'.view = b.view /\ b'.pending = b.pending /\ b'.repair = b.repair /\ b'.term /\ ~b'.on
        BY <1>2, <1>6
    <2> QED BY <1>3, <2>1, <2>3
<1> QED BY <1>4, <1>5, <1>6, TurnOverMeans

\* #interruptAuditRun, for whoever asks.
LEMMA SettledLeaves ==
    ASSUME TypeOK, AuditEnds(b.view), b' = [[b EXCEPT !.view = Settled(b.view)] EXCEPT !.on = FALSE]
    PROVE  /\ GivesUp /\ b'.term = b.term
           /\ \/ Over(b.view) /\ run' = run /\ b'.view = b.view
              \/ ~Over(b.view) /\ InterruptRun(b.view.ver) /\ run' \in View /\ b'.view = run'
<1>0. b \in Bridge /\ b.view \in View
    BY TypeParts, StateTyped DEF BridgeTyped
<1>1. Settled(b.view) \in View
    BY SettledTyped
<1>2. ASSUME NEW v \in View, b' = [[b EXCEPT !.view = v] EXCEPT !.on = FALSE]
      PROVE  GivesUp /\ b'.term = b.term /\ b'.view = v
    <2> DEFINE q == [b EXCEPT !.view = v]
    <2>1. q \in Bridge /\ q.turn = b.turn /\ q.view = v /\ q.pending = b.pending /\ q.repair = b.repair /\ q.term = b.term
        BY <1>0 DEF Bridge
    <2>2. b' = [q EXCEPT !.on = FALSE]
        BY <1>2
    <2> HIDE DEF q
    <2> QED BY <2>1, <2>2 DEF Bridge, GivesUp
<1>3. GivesUp /\ b'.term = b.term /\ b'.view = Settled(b.view)
    BY <1>1, <1>2
<1>4. CASE Over(b.view) /\ UNCHANGED <<run, cursor, seen>>
    BY <1>3, <1>4 DEF Settled
<1>5. CASE ~Over(b.view) /\ InterruptRun(b.view.ver) /\ Adopt(run')
    BY <1>3, <1>5, InterruptRunMeans DEF Settled
<1> QED BY <1>4, <1>5 DEF AuditEnds

LEMMA InterruptLeaves ==
    ASSUME TypeOK, Interrupt
    PROVE  /\ head.pc = "interrupt" /\ Pops /\ state' = "failed"
           /\ \/ /\ GivesUp /\ b'.term = b.term
                 /\ \/ Over(b.view) /\ run' = run /\ b'.view = b.view
                    \/ ~Over(b.view) /\ InterruptRun(b.view.ver) /\ run' \in View /\ b'.view = run'
              \/ AuditFails(b.view) /\ b' = b /\ run' = run
           /\ UNCHANGED <<start, activation, disposed, service, outcome>>
<1>1. CASE AuditEnds(b.view) /\ Ends(TRUE) /\ b' = [[b EXCEPT !.view = Settled(b.view)] EXCEPT !.on = FALSE]
    <2>1. Pops
        BY <1>1, InterruptMeans DEF Pops
    <2> QED BY <1>1, <2>1, SettledLeaves, InterruptMeans
<1>2. CASE AuditFails(b.view) /\ Ends(FALSE) /\ UNCHANGED <<b, closed, run, cursor, seen>>
    BY <1>2, InterruptMeans DEF Pops
<1> QED BY <1>1, <1>2, InterruptMeans

LEMMA EndAuditLeaves ==
    ASSUME TypeOK, NEW c \in Closers, EndAudit(c)
    PROVE  /\ closer[c] \in {"audit", "auditlate"} /\ state' = "failed"
           /\ \/ /\ GivesUp /\ b'.term = b.term
                 /\ \/ Over(b.view) /\ run' = run /\ b'.view = b.view
                    \/ ~Over(b.view) /\ InterruptRun(b.view.ver) /\ run' \in View /\ b'.view = run'
                 /\ closer'[c] = IF closer[c] = "audit" THEN "done" ELSE "error"
              \/ /\ run' = run /\ closer'[c] = "error" /\ b'.view = b.view /\ b'.term = b.term
                 /\ GivesUp \/ b' = b
           /\ \A d \in Closers \ {c} : closer'[d] = closer[d]
           /\ Settle("rejected") \/ UNCHANGED activation
           /\ UNCHANGED <<start, disposed, queue, head, plan, refresh, service, outcome>>
<1>0. b \in Bridge
    BY TypeParts DEF BridgeTyped
<1>1. \A pc \in CloserPC : CloserAt(c, pc) => closer'[c] = pc /\ \A d \in Closers \ {c} : closer'[d] = closer[d]
    BY CloserMoves
<1>2. {"done", "error"} \subseteq CloserPC
    BY DEF CloserPC
<1>3. CASE /\ AuditEnds(b.view)
           /\ b' = [[b EXCEPT !.view = Settled(b.view)] EXCEPT !.on = FALSE]
           /\ CloserAt(c, IF closer[c] = "audit" THEN "done" ELSE "error")
    <2>1. (IF closer[c] = "audit" THEN "done" ELSE "error") \in CloserPC
        BY <1>2
    <2>2. closer'[c] = (IF closer[c] = "audit" THEN "done" ELSE "error") /\ \A d \in Closers \ {c} : closer'[d] = closer[d]
        BY <1>1, <1>3, <2>1
    <2> QED BY <1>3, <2>2, SettledLeaves, EndAuditMeans
<1>4. CASE /\ CloserAt(c, "error") /\ UNCHANGED <<run, cursor, seen>>
           /\ b' = [b EXCEPT !.on = FALSE] \/ b' = b
    <2>1. closer'[c] = "error" /\ \A d \in Closers \ {c} : closer'[d] = closer[d]
        BY <1>1, <1>2, <1>4
    <2>2. b'.view = b.view /\ b'.term = b.term /\ (GivesUp \/ b' = b)
        BY <1>0, <1>4 DEF Bridge, GivesUp
    <2> QED BY <1>4, <2>1, <2>2, EndAuditMeans
<1> QED BY <1>3, <1>4, EndAuditMeans

\* disconnect() and dispose() up to their second request, once more.
LEMMA StopLeaves ==
    ASSUME TypeOK, NEW c \in Closers, Disconnect(c) \/ Dispose(c)
    PROVE  /\ closer[c] \in {"idle", "cancel"} /\ closer'[c] \notin {"idle", "accept", "cancel"}
           /\ \A d \in Closers \ {c} : closer'[d] = closer[d]
           /\ b'.on = b.on /\ b'.turn = b.turn /\ b'.view = b.view /\ b'.pending = b.pending /\ b'.repair = b.repair
           /\ state' \in {state, "failed"}
           /\ \/ ~b.on /\ UNCHANGED <<b, turns>> /\ closer'[c] = "done"
              \/ /\ b.on /\ b'.term /\ closer'[c] = "audit"
                 /\ \/ b.term /\ turns' = turns
                    \/ turns[b.turn] = "run" /\ turns' = [turns EXCEPT ![b.turn] = "abort"]
              \/ b.on /\ UNCHANGED <<b, turns>> /\ closer'[c] # "audit"
           /\ Settle("rejected") \/ UNCHANGED activation
           /\ UNCHANGED <<start, queue, head, plan, refresh, wire, live, tool, backend>>
<1>0. b \in Bridge /\ StopMoves(c)
    BY TypeParts, StopMeans DEF BridgeTyped
<1>1. \A pc \in CloserPC : CloserAt(c, pc) => closer'[c] = pc /\ \A d \in Closers \ {c} : closer'[d] = closer[d]
    BY CloserMoves
<1>2. {"done", "audit"} \subseteq CloserPC
    BY DEF CloserPC
<1>3. closer'[c] \in CloserPC \ {"idle", "accept", "cancel"} /\ (\A d \in Closers \ {c} : closer'[d] = closer[d]) /\ CloserAt(c, closer'[c])
    BY <1>0, <1>1 DEF StopMoves
<1>4. CASE ~b.on /\ state' = "failed" /\ UNCHANGED <<b, turns>> /\ CloserAt(c, "done")
    BY <1>0, <1>1, <1>2, <1>3, <1>4 DEF StopMoves
<1>5. CASE b.on /\ StopTurn /\ b' = [b EXCEPT !.term = TRUE] /\ UNCHANGED state /\ CloserAt(c, "audit")
    <2>1. b'.on = b.on /\ b'.turn = b.turn /\ b'.view = b.view /\ b'.pending = b.pending /\ b'.repair = b.repair /\ b'.term
        BY <1>0, <1>5 DEF Bridge
    <2>2. closer'[c] = "audit"
        BY <1>1, <1>2, <1>5
    <2>3. \/ b.term /\ turns' = turns
          \/ turns[b.turn] = "run" /\ turns' = [turns EXCEPT ![b.turn] = "abort"]
        BY <1>5 DEF StopTurn, CancelTurn
    <2> QED BY <1>0, <1>3, <1>5, <2>1, <2>2, <2>3 DEF StopMoves
<1>6. CASE b.on /\ NoCancel(b.turn) /\ UNCHANGED b /\ (state' = "failed" \/ UNCHANGED state) /\ ~CloserAt(c, "audit")
    <2>1. closer'[c] # "audit"
        BY <1>3, <1>6
    <2>2. turns' = turns
        BY <1>6 DEF NoCancel
    <2> QED BY <1>0, <1>3, <1>6, <2>1, <2>2 DEF StopMoves
<1> QED BY <1>0, <1>4, <1>5, <1>6 DEF StopMoves

\* What moves when nothing of the bridge does.
LEMMA ServiceMeans ==
    ASSUME TypeOK, Service \/ EndTurn
    PROVE  /\ UNCHANGED <<bridge, queue, head, hook, backend>>
           /\ \A n \in Turns : turns'[n] = turns[n] \/ (turns[n] \in {"run", "abort"} /\ turns'[n] \in {"abort", "end"})
           /\ \A t \in Tools : tool'[t] = tool[t] \/ (tool[t] = "open" /\ tool'[t] = "gone") \/ (tool[t] = "none" /\ tool'[t] = "open")
<1>0. turns \in [Turns -> {"none", "run", "abort", "end"}] /\ tool \in [Tools -> {"none", "open", "ok", "failed", "gone"}]
    BY TypeParts DEF ServiceTyped
<1>1. UNCHANGED <<bridge, queue, head, hook, backend>>
    BY DEF Service, EndTurn, CallTool, ToolTimeout, LoseStream
<1>2. \A n \in Turns : turns'[n] = turns[n] \/ (turns[n] \in {"run", "abort"} /\ turns'[n] \in {"abort", "end"})
    <2>1. CASE UNCHANGED turns
        BY <2>1
    <2>2. CASE LoseStream
        BY <1>0, <2>2 DEF LoseStream
    <2>3. CASE EndTurn
        <3>1. PICK n \in Turns : turns[n] \in {"run", "abort"} /\ turns' = [turns EXCEPT ![n] = "end"]
            BY <2>3 DEF EndTurn
        <3> QED BY <1>0, <3>1
    <2> QED BY <2>1, <2>2, <2>3 DEF Service, CallTool, ToolTimeout
<1>3. \A t \in Tools : tool'[t] = tool[t] \/ (tool[t] = "open" /\ tool'[t] = "gone") \/ (tool[t] = "none" /\ tool'[t] = "open")
    <2>1. CASE tool' = Gone
        BY <2>1 DEF Gone
    <2>2. CASE CallTool
        <3>1. PICK t \in Tools : tool[t] = "none" /\ tool' = [tool EXCEPT ![t] = "open"]
            BY <2>2, CallToolMeans
        <3> QED BY <1>0, <3>1
    <2>3. CASE ToolTimeout
        <3>1. PICK t \in Tools : tool[t] = "open" /\ tool' = [tool EXCEPT ![t] = "gone"]
            BY <2>3 DEF ToolTimeout
        <3> QED BY <1>0, <3>1
    <2> QED BY <2>1, <2>2, <2>3 DEF Service, LoseStream, EndTurn
<1> QED BY <1>1, <1>2, <1>3

----------------------------------------------------------------------------
(* What no step takes back *)

\* The steps that touch the audit run.
Cancels == ~Over(run) /\ run' \in View /\ Over(run') /\ run'.ok = run.ok /\ run'.res = run.res /\ outcome' = outcome
LEMMA RunChanges ==
    ASSUME TypeOK, StartInv, [Next]_vars
    PROVE  \/ UNCHANGED <<run, outcome>>
           \/ StartAudit /\ run = NoView /\ run' = FirstView /\ outcome' = outcome
           \/ (\E ver : InterruptRun(ver)) /\ Cancels
           \/ Submit /\ run.st = "running"
           \/ DecideApproval
           \/ ToolEnds
<1>1. CASE UNCHANGED vars
    BY <1>1 DEF vars, backend
<1>2. CASE StartLocal \/ StartUndo \/ Read
    BY <1>2 DEF StartLocal, StartUndo, Read, backend
<1>3. CASE StartAudit
    BY <1>3 DEF StartAudit, StartInv, FirstView
<1>4. CASE StartDone
    BY <1>4, StartDoneMeans DEF backend
<1>5. CASE Drop \/ ToolCall \/ ToolAnswer \/ AcceptView \/ Deliver \/ Final
    BY <1>5, DropMeans, ToolCallMeans, ToolAnswerMeans, AcceptViewMeans, DeliverMeans, FinalMeans DEF backend
<1>6. CASE FinalAnswer \/ TurnOver \/ Repair
    BY <1>6, FinalAnswerMeans, TurnOverLeaves, RepairMeans DEF backend
<1>7. CASE Repaired
    BY <1>7 DEF Repaired, backend
<1>8. CASE Submit
    BY <1>8, SubmitMeans DEF backend
<1>9. ASSUME NEW ver, InterruptRun(ver), outcome' = outcome
      PROVE  Cancels
    BY <1>9, InterruptRunMeans DEF Cancels
<1>10. CASE Interrupt
    BY <1>9, <1>10, InterruptLeaves
<1>11. ASSUME NEW c \in Closers, InterruptHook(c)
       PROVE  run' = run \/ ((\E ver : InterruptRun(ver)) /\ Cancels)
    BY <1>9, <1>11, InterruptHookMeans
<1>12. ASSUME NEW c \in Closers, EndAudit(c)
       PROVE  run' = run \/ ((\E ver : InterruptRun(ver)) /\ Cancels)
    BY <1>9, <1>12, EndAuditLeaves
<1>13. ASSUME NEW c \in Closers, Disconnect(c) \/ Dispose(c)
       PROVE  UNCHANGED <<run, outcome>>
    BY <1>13, StopLeaves DEF backend
<1>14. CASE Hook \/ Service \/ EndTurn
    BY <1>14, HookMeans, ServiceMeans DEF backend
<1>15. CASE \E c \in Closers : InterruptHook(c) \/ Disconnect(c) \/ Dispose(c) \/ EndAudit(c)
    <2>1. PICK c \in Closers : InterruptHook(c) \/ Disconnect(c) \/ Dispose(c) \/ EndAudit(c)
        BY <1>15
    <2>2. CASE InterruptHook(c)
        BY <1>11, <2>2 DEF InterruptHook
    <2>3. CASE EndAudit(c)
        BY <1>12, <2>3 DEF EndAudit
    <2> QED BY <1>13, <2>1, <2>2, <2>3
<1> QED BY <1>1, <1>2, <1>3, <1>4, <1>5, <1>6, <1>7, <1>8, <1>10, <1>14, <1>15 DEF Next, Start, Operation

\* The result of a tool call is settled once.
LEMMA OutcomeSteady ==
    ASSUME TypeOK, StartInv, HeadInv, ToldInv, [Next]_vars, NEW t \in Tools
    PROVE  \/ outcome'[t] = outcome[t]
           \/ outcome[t] = "asked" /\ outcome'[t] # "none" /\ run.st \in Waiting /\ t = run.tool
           \/ outcome[t] = "none" /\ Submit /\ Op.k = "tool" /\ t = Op.tool
<1>0. outcome \in [Tools -> {"none", "asked", "ok", "bad"}]
    BY TypeParts DEF BackendTyped
<1>1. CASE Submit
    <2>1. CASE Op.k = "tool"
        <3>1. Op.tool \in Tools \cup {NoTool} /\ outcome[Op.tool] = "none"
            BY <1>1, <2>1, OpAt DEF Submit, HeadInv, Busy
        <3> QED BY <1>1, <2>1, <3>1, SubmitMeans, DecideToolMeans DEF backend
    <2>2. CASE Op.k # "tool"
        BY <1>1, <2>2, SubmitMeans, DecideFinalMeans DEF backend
    <2> QED BY <2>1, <2>2
<1>2. CASE DecideApproval \/ ToolEnds
    <2>1. run.st \in Waiting /\ outcome[run.tool] = "asked"
        BY <1>2 DEF DecideApproval, ToolEnds, ToldInv, Waiting
    <2>2. \/ outcome' = outcome
          \/ outcome' = [outcome EXCEPT ![run.tool] = "bad"]
          \/ \E good \in BOOLEAN : outcome' = [outcome EXCEPT ![run.tool] = IF good THEN "ok" ELSE "bad"]
        BY <1>2, DecideApprovalMeans, ToolEndsMeans
    <2>3. outcome'[t] = outcome[t] \/ (t = run.tool /\ outcome'[t] \in {"ok", "bad"})
        BY <1>0, <2>2
    <2> QED BY <2>1, <2>3
<1> QED BY <1>1, <1>2, RunChanges DEF Cancels

LEMMA RunSteady ==
    ASSUME TypeOK, StartInv, [Next]_vars, Over(run)
    PROVE  run' = run
<1>1. run.st \in Terminal /\ run.st \notin {"running", "waiting_approval", "waiting_tool"} /\ run # NoView
    BY NoViewTyped DEF Over, Terminal
<1>2. CASE DecideApproval \/ ToolEnds
    BY <1>1, <1>2, DecideApprovalMeans, ToolEndsMeans
<1> QED BY <1>1, <1>2, RunChanges DEF Cancels

\* A view that was true stays true.
LEMMA ViewSteady ==
    ASSUME TypeOK, StartInv, HeadInv, ToldInv, [Next]_vars, NEW v \in View, TrueView(v)
    PROVE  TrueView(v)'
<1>1. Over(v) => Over(run')
    BY RunSteady DEF TrueView
<1>2. v.ok /\ v.res \in Tools => outcome'[v.res] = "ok"
    BY OutcomeSteady DEF TrueView
<1> QED BY <1>1, <1>2 DEF TrueView, Over

\* What the run says of itself is true.
LEMMA RunTrue ==
    ASSUME TypeOK, StartInv, HeadInv, ToldInv, ViewsInv, [Next]_vars
    PROVE  TrueView(run)'
<1>0. run \in View /\ TrueView(run)
    BY StateTyped DEF ViewsInv
<1>1. ASSUME NEW v \in View, v.ok = run.ok, v.res = run.res
      PROVE  v.ok /\ v.res \in Tools => outcome'[v.res] = "ok"
    BY <1>0, <1>1, OutcomeSteady DEF TrueView
<1>2. run' \in View
    <2>1. CASE UNCHANGED <<run, outcome>>
        BY <1>0, <2>1
    <2>2. CASE Submit
        BY <2>2, SubmitMeans
    <2> QED BY <2>1, <2>2, RunChanges, FirstViewTyped, DecideApprovalMeans, ToolEndsMeans DEF Cancels
<1>3. run'.ok /\ run'.res \in Tools => outcome'[run'.res] = "ok"
    <2>1. CASE run'.ok = run.ok /\ run'.res = run.res
        BY <1>1, <1>2, <2>1
    <2>2. CASE Submit
        <3>1. Op.tool \in Tools \cup {NoTool}
            BY <2>2, OpAt DEF Submit
        <3> QED BY <2>1, <2>2, <3>1, SubmitMeans, DecideToolMeans, DecideFinalMeans DEF backend
    <2>3. CASE DecideApproval
        BY <2>1, <2>3, DecideApprovalMeans
    <2>4. CASE ToolEnds
        <3>1. outcome \in [Tools -> {"none", "asked", "ok", "bad"}]
            BY TypeParts DEF BackendTyped
        <3>2. PICK good \in BOOLEAN : /\ run'.ok = good /\ run'.res = run.tool
                                      /\ outcome' = [outcome EXCEPT ![run.tool] = IF good THEN "ok" ELSE "bad"]
            BY <2>4, ToolEndsMeans
        <3> QED BY <3>1, <3>2
    <2> QED BY <2>1, <2>2, <2>3, <2>4, RunChanges, FirstViewTyped DEF Cancels
<1> QED BY <1>3 DEF TrueView, Over

\* Where the views come from.
LEMMA ViewsFrom ==
    ASSUME TypeOK, RepairInv, [Next]_vars
    PROVE  /\ head'.view \in {head.view, NoView, run'}
           /\ refresh'.view \in {refresh.view, NoView, run}
           /\ b'.view \in {b.view, FirstView, run'} \/ (queue # <<>> /\ b'.view \in {head.view, Op.view})
<1>1. CASE UNCHANGED vars
    BY <1>1 DEF vars, bridge, hook
<1>2. CASE StartLocal \/ StartUndo \/ StartAudit \/ Read
    BY <1>2 DEF StartLocal, StartUndo, StartAudit, Read, hook, bridge
<1>3. CASE StartDone
    BY <1>3, StartDoneMeans
<1>4. CASE Drop
    BY <1>4, DropMeans, PopsMeans DEF bridge
<1>5. CASE ToolCall
    <2>1. CASE Pops
        BY <1>5, <2>1, ToolCallMeans, PopsMeans
    <2> QED BY <1>5, <2>1, ToolCallMeans DEF HeadGoes
<1>6. CASE Submit
    BY <1>6, SubmitMeans DEF bridge, hook
<1>7. CASE ToolAnswer
    BY <1>7, ToolAnswerMeans, PopsMeans DEF HeadGoes, Delivers
<1>8. CASE AcceptView
    BY <1>8, AcceptViewMeans, PopsMeans DEF Delivers
<1>9. CASE Deliver
    BY <1>9, DeliverMeans, PopsMeans
<1>10. CASE Final
    BY <1>10, FinalMeans, PopsMeans DEF HeadGoes, bridge
<1>11. CASE FinalAnswer
    <2>1. Pops
        BY <1>11, FinalAnswerMeans DEF Pops
    <2> QED BY <1>11, <2>1, FinalAnswerMeans, PopsMeans
<1>12. CASE TurnOver
    BY <1>12, TurnOverLeaves, PopsMeans DEF HeadGoes
<1>13. CASE Interrupt
    BY <1>13, InterruptLeaves, PopsMeans
<1>14. CASE Repair
    BY <1>14, RepairMeans DEF HeadGoes, bridge
<1>15. CASE Repaired
    <2>1. Pops
        BY <1>15, RepairedMeans DEF Pops
    <2> QED BY <1>15, <2>1, RepairedMeans, PopsMeans
<1>16. CASE \E c \in Closers : InterruptHook(c) \/ Disconnect(c) \/ Dispose(c) \/ EndAudit(c)
    BY <1>16, InterruptHookMeans, StopLeaves, EndAuditLeaves DEF bridge
<1>17. CASE Hook \/ Service \/ EndTurn
    BY <1>17, HookMeans, ServiceMeans DEF bridge, hook
<1>18. CASE DecideApproval \/ ToolEnds
    BY <1>18, DecideApprovalMeans, ToolEndsMeans DEF bridge, hook
<1> QED BY <1>1, <1>2, <1>3, <1>4, <1>5, <1>6, <1>7, <1>8, <1>9, <1>10, <1>11, <1>12, <1>13, <1>14, <1>15, <1>16,
           <1>17, <1>18 DEF Next, Start, Operation

LEMMA NoViewTrue == TrueView(NoView) /\ TrueView(FirstView)
BY NoViewTyped, FirstViewTyped DEF TrueView

LEMMA ViewsStep ==
    ASSUME Inv, [Next]_vars
    PROVE  ViewsInv'
<1>0. TypeOK /\ StartInv /\ HeadInv /\ RepairInv /\ ViewsInv /\ ItemsInv /\ ToldInv
    BY DEF Inv
<1>1. /\ \A v \in {head.view, refresh.view, b.view, run, NoView, FirstView} : v \in View /\ TrueView(v)
      /\ queue # <<>> => Op.view \in View /\ TrueView(Op.view)
    BY <1>0, StateTyped, NoViewTyped, FirstViewTyped, NoViewTrue, KnownItems, ItemTyped DEF ViewsInv, ItemOK
<1>2. \A v \in View : TrueView(v) => ((Over(v) => Over(run')) /\ (v.ok /\ v.res \in Tools => outcome'[v.res] = "ok"))
    BY <1>0, ViewSteady DEF TrueView, Over
<1>3. LET v == run' IN (Over(v) => Over(run')) /\ (v.ok /\ v.res \in Tools => outcome'[v.res] = "ok")
    BY <1>0, RunTrue DEF TrueView, Over
<1>4. \A v \in {head'.view, refresh'.view, b'.view} :
          (Over(v) => Over(run')) /\ (v.ok /\ v.res \in Tools => outcome'[v.res] = "ok")
    BY <1>0, <1>1, <1>2, <1>3, ViewsFrom
<1> QED BY <1>3, <1>4 DEF ViewsInv, TrueView, Over

----------------------------------------------------------------------------
(* Items on their way *)

LEMMA ToolSteady ==
    ASSUME TypeOK, [Next]_vars, NEW t \in Tools, tool[t] # "none"
    PROVE  tool'[t] # "none"
<1>1. CASE Deliver
    BY <1>1, DeliverMeans, StateTyped
<1>2. CASE Service \/ EndTurn
    BY <1>2, ServiceMeans
<1>3. CASE StartDone \/ Submit \/ ToolAnswer \/ AcceptView \/ FinalAnswer \/ TurnOver \/ Interrupt
    BY <1>3, StartDoneMeans, SubmitMeans, ToolAnswerMeans, AcceptViewMeans, FinalAnswerMeans, TurnOverLeaves,
       InterruptLeaves DEF service
<1>4. CASE DecideApproval \/ ToolEnds \/ Hook
    BY <1>4, DecideApprovalMeans, ToolEndsMeans, HookMeans DEF service
<1>5. CASE \E c \in Closers : InterruptHook(c) \/ Disconnect(c) \/ Dispose(c) \/ EndAudit(c)
    <2>1. tool' = tool
        BY <1>5 DEF InterruptHook, Disconnect, Dispose, EndAudit, service
    <2> QED BY <2>1
<1>6. CASE StartLocal \/ StartUndo \/ StartAudit \/ Read \/ Drop \/ ToolCall \/ Final \/ Repair \/ UNCHANGED vars
    <2>1. tool' = tool
        BY <1>6 DEF StartLocal, StartUndo, StartAudit, Read, Drop, ToolCall, Final, Repair, service, vars
    <2> QED BY <2>1
<1>7. CASE Repaired
    BY <1>7 DEF Repaired, service
<1> QED BY <1>1, <1>2, <1>3, <1>4, <1>5, <1>6, <1>7 DEF Next, Start, Operation

LEMMA TurnsSteady ==
    ASSUME TypeOK, StartInv, TurnsInv, RepairInv, HeadInv, [Next]_vars, NEW n \in Turns
    PROVE  /\ turns[n] = "end" => turns'[n] = "end"
           /\ turns[n] # "none" => turns'[n] # "none"
<1>0. turns \in [Turns -> {"none", "run", "abort", "end"}]
    BY TypeParts DEF ServiceTyped
<1>1. CASE StartLocal
    BY <1>0, <1>1 DEF StartLocal, StartInv
<1>2. CASE StartUndo
    BY <1>0, <1>2 DEF StartUndo, CancelTurn, NoCancel
<1>3. CASE Service \/ EndTurn
    BY <1>3, ServiceMeans
<1>4. CASE Repair
    <2>1. b.turn < MaxTurns /\ b.turn \in {0} \cup Turns /\ b.turn # 0 /\ MaxTurns \in Nat
        BY <1>4, RepairMeans, StateTyped, BridgeAssumption DEF RepairInv, StartInv
    <2>2. b.turn + 1 \in Turns /\ b.turn + 1 > b.turn /\ b.turn \in Nat /\ head.pc # "repaired" /\ b.turn + 1 # 1
        BY <1>4, <2>1, RepairMeans DEF Turns
    <2>3. turns[b.turn + 1] = "none"
        BY <2>1, <2>2 DEF TurnsInv
    <2> QED BY <1>0, <1>4, <2>3, RepairMeans
<1>5. CASE \E c \in Closers : Disconnect(c) \/ Dispose(c)
    BY <1>0, <1>5, StopLeaves
<1>6. CASE StartDone \/ Submit \/ ToolAnswer \/ AcceptView \/ FinalAnswer \/ TurnOver \/ Interrupt \/ Deliver
    BY <1>6, StartDoneMeans, SubmitMeans, ToolAnswerMeans, AcceptViewMeans, FinalAnswerMeans, TurnOverLeaves,
       InterruptLeaves, DeliverMeans DEF service
<1>7. CASE DecideApproval \/ ToolEnds \/ Hook
    BY <1>7, DecideApprovalMeans, ToolEndsMeans, HookMeans DEF service
<1>8. CASE \E c \in Closers : InterruptHook(c) \/ EndAudit(c)
    <2>1. turns' = turns
        BY <1>8 DEF InterruptHook, EndAudit, service
    <2> QED BY <2>1
<1>9. CASE StartAudit \/ Read \/ Drop \/ ToolCall \/ Final \/ Repaired \/ UNCHANGED vars
    <2>1. turns' = turns
        BY <1>9 DEF StartAudit, Read, Drop, ToolCall, Final, Repaired, service, vars
    <2> QED BY <2>1
<1> QED BY <1>1, <1>2, <1>3, <1>4, <1>5, <1>6, <1>7, <1>8, <1>9 DEF Next, Start, Operation

\* Who moves a closer.
LEMMA CloserChanges ==
    ASSUME TypeOK, RepairInv, [Next]_vars, NEW c \in Closers
    PROVE  /\ plan' = plan
           /\ \/ closer'[c] = closer[c]
              \/ Pops /\ c = Op.by /\ closer'[c] \in {"cancel", "error"}
              \/ StartDone /\ closer[c] = "done" /\ closer'[c] = "cancel"
              \/ (Disconnect(c) \/ Dispose(c)) /\ closer[c] \in {"idle", "cancel"} /\ closer'[c] \notin {"idle", "accept", "cancel"}
              \/ InterruptHook(c) /\ closer[c] = "idle" /\ closer'[c] \in {"accept", "error"}
              \/ EndAudit(c) /\ closer[c] \in {"audit", "auditlate"} /\ closer'[c] \in {"done", "error"}
<1>1. CASE UNCHANGED vars
    BY <1>1 DEF vars, hook
<1>2. CASE StartLocal \/ StartUndo \/ StartAudit \/ Read
    BY <1>2 DEF StartLocal, StartUndo, StartAudit, Read, hook
<1>3. CASE StartDone
    BY <1>3, StartDoneMeans
<1>4. CASE Drop
    BY <1>4, DropMeans, PopsMeans
<1>5. CASE ToolCall
    <2>1. CASE Pops
        BY <2>1, PopsMeans
    <2> QED BY <1>5, <2>1, ToolCallMeans DEF HeadGoes
<1>6. CASE Submit
    BY <1>6, SubmitMeans DEF hook
<1>7. CASE ToolAnswer
    BY <1>7, ToolAnswerMeans, PopsMeans DEF HeadGoes, Delivers
<1>8. CASE AcceptView
    BY <1>8, AcceptViewMeans, PopsMeans DEF Delivers
<1>9. CASE Deliver
    BY <1>9, DeliverMeans, PopsMeans
<1>10. CASE Final
    BY <1>10, FinalMeans, PopsMeans DEF HeadGoes
<1>11. CASE FinalAnswer
    <2>1. Pops
        BY <1>11, FinalAnswerMeans DEF Pops
    <2> QED BY <2>1, PopsMeans
<1>12. CASE TurnOver
    BY <1>12, TurnOverLeaves, PopsMeans DEF HeadGoes
<1>13. CASE Interrupt
    BY <1>13, InterruptLeaves, PopsMeans
<1>14. CASE Repair
    BY <1>14, RepairMeans DEF HeadGoes
<1>15. CASE Repaired
    <2>1. Pops
        BY <1>15, RepairedMeans DEF Pops
    <2> QED BY <2>1, PopsMeans
<1>16. ASSUME NEW d \in Closers, InterruptHook(d)
       PROVE  plan' = plan /\ (closer'[c] = closer[c] \/ (c = d /\ closer[c] = "idle" /\ closer'[c] \in {"accept", "error"}))
    BY <1>16, InterruptHookMeans
<1>17. ASSUME NEW d \in Closers, Disconnect(d) \/ Dispose(d)
       PROVE  plan' = plan /\ (closer'[c] = closer[c] \/ (c = d /\ closer[c] \in {"idle", "cancel"} /\ closer'[c] \notin {"idle", "accept", "cancel"}))
    BY <1>17, StopLeaves
<1>18. ASSUME NEW d \in Closers, EndAudit(d)
       PROVE  plan' = plan /\ (closer'[c] = closer[c] \/ (c = d /\ closer[c] \in {"audit", "auditlate"} /\ closer'[c] \in {"done", "error"}))
    BY <1>18, EndAuditLeaves
<1>19. CASE \E d \in Closers : InterruptHook(d) \/ Disconnect(d) \/ Dispose(d) \/ EndAudit(d)
    <2>1. PICK d \in Closers : InterruptHook(d) \/ Disconnect(d) \/ Dispose(d) \/ EndAudit(d)
        BY <1>19
    <2>2. CASE InterruptHook(d)
        BY <1>16, <2>2
    <2>3. CASE Disconnect(d) \/ Dispose(d)
        BY <1>17, <2>3
    <2>4. CASE EndAudit(d)
        BY <1>18, <2>4
    <2> QED BY <2>1, <2>2, <2>3, <2>4
<1>20. CASE Hook \/ Service \/ EndTurn
    BY <1>20, HookMeans, ServiceMeans DEF hook
<1>21. CASE DecideApproval \/ ToolEnds
    BY <1>21, DecideApprovalMeans, ToolEndsMeans DEF hook
<1> QED BY <1>1, <1>2, <1>3, <1>4, <1>5, <1>6, <1>7, <1>8, <1>9, <1>10, <1>11, <1>12, <1>13, <1>14, <1>15, <1>19,
           <1>20, <1>21 DEF Next, Start, Operation

\* Calm is lost for good, and nobody moves in it.
LEMMA PlanStays ==
    ASSUME TypeOK, RepairInv, [Next]_vars
    PROVE  plan' = plan
<1>1. CASE \E c \in Closers : TRUE
    BY <1>1, CloserChanges
<1>2. CASE Closers = {}
    <2>1. CASE UNCHANGED vars
        BY <2>1 DEF vars, hook
    <2>2. CASE StartLocal \/ StartUndo \/ StartAudit \/ Read
        BY <2>2 DEF StartLocal, StartUndo, StartAudit, Read, hook
    <2>3. CASE StartDone \/ Submit \/ Repair
        BY <2>3, StartDoneMeans, SubmitMeans, RepairMeans DEF hook, HeadGoes
    <2>4. CASE Pops
        BY <2>4, PopsMeans
    <2>5. CASE Drop \/ ToolCall \/ ToolAnswer \/ AcceptView \/ Deliver
        BY <2>4, <2>5, DropMeans, ToolCallMeans, ToolAnswerMeans, AcceptViewMeans, DeliverMeans DEF HeadGoes, Delivers
    <2>6. CASE Final \/ FinalAnswer \/ TurnOver \/ Interrupt
        BY <2>4, <2>6, FinalMeans, FinalAnswerMeans, TurnOverLeaves, InterruptLeaves DEF HeadGoes, Pops
    <2>7. CASE Repaired
        BY <2>4, <2>7, RepairedMeans DEF Pops
    <2>8. CASE Hook \/ Service \/ EndTurn
        BY <2>8, HookMeans, ServiceMeans DEF hook
    <2>9. CASE DecideApproval \/ ToolEnds
        BY <2>9, DecideApprovalMeans, ToolEndsMeans DEF hook
    <2> QED BY <1>2, <2>1, <2>2, <2>3, <2>5, <2>6, <2>7, <2>8, <2>9 DEF Next, Start, Operation
<1> QED BY <1>1, <1>2

LEMMA CalmStep ==
    ASSUME TypeOK, RepairInv, [Next]_vars, Calm'
    PROVE  /\ Calm /\ plan' = plan /\ \A c \in Closers : closer[c] = "idle" /\ closer'[c] = "idle"
           /\ \A f : ~Fails(f)
           /\ \A c \in Closers : ~Disconnect(c) /\ ~Dispose(c) /\ ~EndAudit(c) /\ ~InterruptHook(c)
<1>1. plan' = plan /\ plan.faults = {} /\ \A c \in Closers : closer'[c] = "idle"
    BY PlanStays DEF Calm
<1>2. \A c \in Closers : closer[c] = "idle"
    BY <1>1, CloserChanges
<1>3. ASSUME NEW c \in Closers
      PROVE  ~Disconnect(c) /\ ~Dispose(c) /\ ~EndAudit(c) /\ ~InterruptHook(c)
    BY <1>1, <1>2, StopLeaves, EndAuditLeaves, InterruptHookMeans
<1> QED BY <1>1, <1>2, <1>3 DEF Calm, Fails

\* An item stays what it is; a view whose closer is answered is behind no other.
LEMMA ItemSteady ==
    ASSUME Inv, [Next]_vars, NEW e \in Item, ItemOK(e), Pops => Ordered(Op, e)
    PROVE  ItemOK(e)'
<1>0. TypeOK /\ StartInv /\ HeadInv /\ RepairInv /\ ViewsInv /\ ToldInv /\ TurnsInv
    BY DEF Inv
<1>1. e.turn \in Turns /\ e.view \in View
    BY ItemTyped
<1>2. TrueView(e.view)'
    BY <1>0, <1>1, ViewSteady DEF ItemOK
<1>3. e.k = "tool" => e.tool \in Tools /\ tool'[e.tool] # "none"
    BY <1>0, ToolSteady DEF ItemOK
<1>4. e.k \in LastEvents => turns'[e.turn] = "end"
    BY <1>0, <1>1, TurnsSteady DEF ItemOK
<1>5. e.k # "view" => turns'[e.turn] # "none" /\ e.by = "stream"
    BY <1>0, <1>1, TurnsSteady DEF ItemOK
<1>6. e.by \in Closers => closer'[e.by] = "accept"
    <2>1. SUFFICES ASSUME e.by \in Closers
                   PROVE  closer'[e.by] = "accept"
        OBVIOUS
    <2>2. closer[e.by] = "accept"
        BY <2>1 DEF ItemOK
    <2>3. ~(Pops /\ e.by = Op.by)
        BY <2>1 DEF Ordered
    <2> QED BY <1>0, <2>1, <2>2, <2>3, CloserChanges
<1> QED BY <1>2, <1>3, <1>4, <1>5, <1>6 DEF ItemOK

\* Who moves the pending tool.
LEMMA PendingFrom ==
    ASSUME TypeOK, RepairInv, [Next]_vars
    PROVE  \/ b'.pending = b.pending
           \/ Deliver /\ b'.pending = NoTool
           \/ /\ ToolCall /\ queue # <<>> /\ Op.k = "tool" /\ HeadGoes("submit")
              /\ b.pending = NoTool /\ b'.pending = Op.tool
<1>1. CASE UNCHANGED vars
    BY <1>1 DEF vars, bridge
<1>2. CASE StartLocal \/ StartUndo \/ StartAudit \/ Read
    BY <1>2 DEF StartLocal, StartUndo, StartAudit, Read, bridge
<1>3. CASE StartDone \/ ToolAnswer \/ AcceptView \/ FinalAnswer \/ TurnOver \/ Repaired
    BY <1>3, StartDoneMeans, ToolAnswerMeans, AcceptViewMeans, FinalAnswerMeans, TurnOverLeaves, RepairedMeans
<1>4. CASE Drop \/ Submit \/ Final \/ Repair \/ Interrupt
    BY <1>4, DropMeans, SubmitMeans, FinalMeans, RepairMeans, InterruptLeaves DEF bridge, GivesUp
<1>5. CASE ToolCall
    BY <1>5, ToolCallMeans
<1>6. CASE Deliver
    BY <1>6, DeliverMeans
<1>7. CASE \E c \in Closers : InterruptHook(c) \/ Disconnect(c) \/ Dispose(c) \/ EndAudit(c)
    BY <1>7, InterruptHookMeans, StopLeaves, EndAuditLeaves DEF bridge, GivesUp
<1>8. CASE Hook \/ Service \/ EndTurn \/ DecideApproval \/ ToolEnds
    BY <1>8, HookMeans, ServiceMeans, DecideApprovalMeans, ToolEndsMeans DEF bridge
<1> QED BY <1>1, <1>2, <1>3, <1>4, <1>5, <1>6, <1>7, <1>8 DEF Next, Start, Operation

\* In the calm a turn ends when no tool call is open.
LEMMA CalmEnd ==
    ASSUME TypeOK, Calm, CalmInv, EndTurn
    PROVE  /\ \A t \in Tools : tool[t] # "open" /\ tool'[t] = tool[t]
           /\ live /\ live' = live
           /\ \E n \in Turns : /\ turns[n] = "run" /\ turns' = [turns EXCEPT ![n] = "end"]
                               /\ wire' = wire \o <<Event("final", n, NoTool), Event("completed", n, NoTool)>>
<1>1. CalmFacts /\ ~Fails("codex")
    BY DEF CalmInv, Calm, Fails
<1>2. PICK n \in Turns :
        /\ turns[n] = "run" /\ Gone = tool /\ Tell(<<Event("final", n, NoTool), Event("completed", n, NoTool)>>)
        /\ turns' = [turns EXCEPT ![n] = "end"] /\ tool' = Gone /\ live' = live
    BY <1>1 DEF EndTurn, CalmFacts
<1>3. \A t \in Tools : tool[t] # "open"
    BY <1>2 DEF Gone
<1> QED BY <1>1, <1>2, <1>3 DEF CalmFacts, Tell

\* A tool call nobody has begun to answer stays one.
LEMMA FreshSteady ==
    ASSUME Inv, [Next]_vars, NEW e \in Item, Known(e),
           (Submit \/ ToolCall) /\ queue # <<>> /\ head'.pc # "ready" => Ordered(Op, e)
    PROVE  Fresh(e)'
<1>0. TypeOK /\ StartInv /\ HeadInv /\ RepairInv /\ ToldInv /\ TurnsInv /\ CalmInv
    BY DEF Inv
<1> SUFFICES ASSUME e.k = "tool"
             PROVE  /\ outcome'[e.tool] = "none"
                    /\ Calm' => tool'[e.tool] = "open" /\ turns'[e.turn] = "run" /\ b'.pending # e.tool
    BY DEF Fresh, Calm
<1>1. e.tool \in Tools /\ e.turn \in Turns /\ outcome[e.tool] = "none"
      /\ (Calm => tool[e.tool] = "open" /\ turns[e.turn] = "run" /\ b.pending # e.tool)
    BY ItemTyped DEF Known, ItemOK, Fresh
<1>2. outcome'[e.tool] = "none"
    <2>1. Submit /\ Op.k = "tool" => Op.tool # e.tool
        <3>1. Submit => queue # <<>> /\ head'.pc = "answer"
            BY <1>0, SubmitMeans DEF Submit, Busy
        <3> QED BY <3>1 DEF Ordered
    <2> QED BY <1>0, <1>1, <2>1, OutcomeSteady
<1>3. ASSUME Calm'
      PROVE  tool'[e.tool] = "open" /\ turns'[e.turn] = "run" /\ b'.pending # e.tool
    <2>1. /\ Calm /\ (\A f : ~Fails(f))
          /\ \A c \in Closers : ~Disconnect(c) /\ ~Dispose(c) /\ ~EndAudit(c) /\ ~InterruptHook(c)
        BY <1>0, <1>3, CalmStep
    <2>2. CalmFacts /\ tool[e.tool] = "open" /\ turns[e.turn] = "run" /\ b.pending # e.tool
        BY <1>0, <1>1, <2>1 DEF CalmInv
    <2>3. b'.pending # e.tool
        <3>1. NoTool # e.tool
            BY <1>1, BridgeAssumption
        <3>2. CASE ToolCall /\ Op.k = "tool" /\ queue # <<>> /\ HeadGoes("submit") /\ b'.pending = Op.tool
            BY <3>2 DEF HeadGoes, Ordered
        <3> QED BY <1>0, <2>2, <3>1, <3>2, PendingFrom
    <2>4. ~EndTurn
        BY <1>0, <1>1, <2>1, <2>2, CalmEnd
    <2>5. tool'[e.tool] = "open"
        <3>1. CASE Deliver
            <4>1. head.tool # e.tool
                BY <2>2, <3>1, <1>0, DeliverMeans DEF CalmFacts
            <4> QED BY <1>0, <1>1, <2>2, <3>1, <4>1, DeliverMeans
        <3>2. CASE Service
            <4>1. CallTool
                BY <2>1, <3>2 DEF Service, ToolTimeout, LoseStream
            <4>2. PICK t \in Tools : tool[t] = "none" /\ tool' = [tool EXCEPT ![t] = "open"]
                BY <1>0, <4>1, CallToolMeans
            <4> QED BY <1>0, <1>1, <2>2, <4>2 DEF TypeOK
        <3>3. CASE StartDone \/ Submit \/ ToolAnswer \/ AcceptView \/ FinalAnswer \/ TurnOver \/ Interrupt
            BY <1>0, <2>2, <3>3, StartDoneMeans, SubmitMeans, ToolAnswerMeans, AcceptViewMeans, FinalAnswerMeans,
               TurnOverLeaves, InterruptLeaves DEF service
        <3>4. CASE DecideApproval \/ ToolEnds \/ Hook
            BY <1>0, <2>2, <3>4, DecideApprovalMeans, ToolEndsMeans, HookMeans DEF service
        <3>5. CASE StartLocal \/ StartUndo \/ StartAudit \/ Read \/ Drop \/ ToolCall \/ Final \/ Repair \/ Repaired \/ UNCHANGED vars
            <4>1. tool' = tool
                BY <3>5 DEF StartLocal, StartUndo, StartAudit, Read, Drop, ToolCall, Final, Repair, Repaired, service, vars
            <4> QED BY <2>2, <4>1
        <3> QED BY <2>1, <2>4, <3>1, <3>2, <3>3, <3>4, <3>5 DEF Next, Start, Operation
    <2>6. turns'[e.turn] = "run"
        <3>0. turns \in [Turns -> {"none", "run", "abort", "end"}]
            BY <1>0, TypeParts DEF ServiceTyped
        <3>1. CASE StartLocal
            BY <1>1, <2>1, <2>2, <3>0, <3>1 DEF StartLocal
        <3>2. CASE Service
            <4>1. CallTool
                BY <2>1, <3>2 DEF Service, ToolTimeout, LoseStream
            <4> QED BY <2>2, <4>1 DEF CallTool
        <3>3. CASE StartDone \/ Submit \/ ToolAnswer \/ AcceptView \/ FinalAnswer \/ TurnOver \/ Interrupt \/ Deliver
            BY <1>0, <2>2, <3>3, StartDoneMeans, SubmitMeans, ToolAnswerMeans, AcceptViewMeans, FinalAnswerMeans,
               TurnOverLeaves, InterruptLeaves, DeliverMeans DEF service
        <3>4. CASE DecideApproval \/ ToolEnds \/ Hook
            BY <1>0, <2>2, <3>4, DecideApprovalMeans, ToolEndsMeans, HookMeans DEF service
        <3>5. CASE StartAudit \/ Read \/ Drop \/ ToolCall \/ Final \/ Repaired \/ UNCHANGED vars
            <4>1. turns' = turns
                BY <3>5 DEF StartAudit, Read, Drop, ToolCall, Final, Repaired, service, vars
            <4> QED BY <2>2, <4>1
        <3>6. CASE Repair
            <4>1. live
                BY <2>2 DEF CalmFacts
            <4> QED BY <1>0, <1>1, <2>2, <3>0, <3>6, <4>1, RepairMeans
        <3>7. ~StartUndo
            BY <2>2 DEF CalmFacts, StartUndo
        <3> QED BY <2>1, <2>4, <3>1, <3>2, <3>3, <3>4, <3>5, <3>6, <3>7 DEF Next, Start, Operation
    <2> QED BY <2>3, <2>5, <2>6
<1> QED BY <1>2, <1>3

LEMMA NotPops ==
    ASSUME TypeOK
    PROVE  /\ queue' = queue => ~Pops
           /\ \A e \in Item : queue' = Append(queue, e) => ~Pops
<1>1. queue \in Seq(Item)
    BY DEF TypeOK
<1>2. ASSUME Pops
      PROVE  Len(queue') = Len(queue) - 1 /\ Len(queue) \in Nat
    <2>1. queue # <<>> /\ queue' = Tail(queue)
        BY <1>2, PopsMeans
    <2> QED BY <1>1, <2>1, HeadTailProperties, LenProperties
<1>3. ASSUME NEW e \in Item
      PROVE  Len(Append(queue, e)) = Len(queue) + 1
    BY <1>1, AppendProperties
<1> QED BY <1>2, <1>3

\* The four ways the queue moves.
LEMMA StaysStep ==
    ASSUME Inv, [Next]_vars, UNCHANGED <<queue, wire>>,
           head'.pc = head.pc \/ (queue # <<>> /\ head'.pc # "ready")
    PROVE  ItemsInv' /\ OrderInv'
<1>0. TypeOK /\ ItemsInv /\ OrderInv /\ ~Pops
    BY NotPops DEF Inv
<1>1. \A e \in Item : ItemOK(e) => ItemOK(e)'
    BY <1>0, ItemSteady
<1>2. \A e \in Item : Known(e) /\ (queue # <<>> /\ head'.pc # "ready" => Ordered(Op, e)) => Fresh(e)'
    BY FreshSteady
<1> QED BY <1>0, <1>1, <1>2, QueueStays

LEMMA PopsStep ==
    ASSUME Inv, [Next]_vars, Pops, wire' = wire
    PROVE  ItemsInv' /\ OrderInv'
<1>0. TypeOK /\ ItemsInv /\ OrderInv /\ queue # <<>> /\ queue' = Tail(queue)
    BY PopsMeans DEF Inv
<1>1. \A e \in Item : Known(e) /\ Ordered(Op, e) => ItemOK(e)' /\ Fresh(e)'
    BY ItemSteady, FreshSteady DEF Known
<1> QED BY <1>0, <1>1, QueuePops

LEMMA HeadStill ==
    ASSUME Inv, head' = head
    PROVE  (Submit \/ ToolCall) => head'.pc = "ready"
BY SubmitMeans, ToolCallMeans DEF Inv, Submit, Busy

LEMMA ShowsStep ==
    ASSUME Inv, [Next]_vars, NEW v \in View, NEW who \in Closers \cup {"hook", "stream"},
           queue' = Append(queue, ViewItem(v, who)), wire' = wire, head' = head,
           (Over(v) => Over(run')) /\ (v.ok /\ v.res \in Tools => outcome'[v.res] = "ok"),
           who \in Closers => closer[who] = "idle" /\ closer'[who] = "accept"
    PROVE  ItemsInv' /\ OrderInv'
<1>0. TypeOK /\ ItemsInv /\ OrderInv
    BY DEF Inv
<1> DEFINE e == ViewItem(v, who)
<1>1. e \in Item /\ e.k = "view" /\ e.view = v /\ e.by = who
    BY ViewItemTyped
<1>2. ~Pops
    BY <1>0, <1>1, NotPops
<1>3. \A f \in Item : (ItemOK(f) => ItemOK(f)') /\ (Known(f) => Fresh(f)')
    BY <1>2, ItemSteady, FreshSteady, HeadStill
<1>4. ASSUME NEW f, f = e
      PROVE  ItemOK(f)'
    BY <1>1, <1>4 DEF ItemOK, TrueView, LastEvents, Over
<1>5. \A f \in Item : ItemOK(f) => (f.by \in Closers => f.by # e.by)
    BY <1>1 DEF ItemOK
<1>6. queue' = Append(queue, e)
    OBVIOUS
<1> HIDE DEF e
<1>7. ASSUME NEW f \in Item, f = e
      PROVE  ItemsInv' /\ OrderInv'
    <2>1. f.k = "view" /\ queue' = Append(queue, f) /\ ItemOK(f)' /\ \A g \in Item : ItemOK(g) => (g.by \in Closers => g.by # f.by)
        BY <1>1, <1>4, <1>5, <1>6, <1>7
    <2> QED BY <1>0, <1>3, <2>1, QueueShows
<1> QED BY <1>1, <1>7

LEMMA ReadStep ==
    ASSUME Inv, [Next]_vars, Read
    PROVE  ItemsInv' /\ OrderInv'
<1>0. TypeOK /\ ItemsInv /\ OrderInv /\ HeadInv
    BY DEF Inv
<1>1. wire # <<>> /\ queue' = Append(queue, Head(wire)) /\ wire' = Tail(wire) /\ head' = head
    BY DEF Read
<1>2. ~Pops
    BY <1>0, <1>1, NotPops, StateTyped
<1>3. \A f \in Item : (ItemOK(f) => ItemOK(f)') /\ (Known(f) => Fresh(f)')
    BY <1>1, <1>2, ItemSteady, FreshSteady, HeadStill
<1> QED BY <1>0, <1>1, <1>3, QueueReads

LEMMA CallStep ==
    ASSUME Inv, [Next]_vars, CallTool
    PROVE  ItemsInv' /\ OrderInv'
<1>0. TypeOK /\ ItemsInv /\ OrderInv /\ ToldInv /\ CalmInv /\ RepairInv
    BY DEF Inv
<1>1. PICK t \in Tools, n \in Turns :
                /\ turns[n] = "run" /\ tool[t] = "none" /\ live
                /\ tool' = [tool EXCEPT ![t] = "open"]
                /\ wire' = wire \o <<Event("tool", n, t)>>
                /\ UNCHANGED <<bridge, queue, head, hook, turns, live, backend>>
    BY <1>0, CallToolMeans
<1>2. PICK e \in Item : /\ e = Event("tool", n, t) /\ e.k = "tool" /\ e.turn = n /\ e.tool = t
                        /\ e.view = NoView /\ e.by = "stream" /\ "stream" \notin Closers
    BY EventTyped
<1>3. PICK u \in Seq(Item) : u = <<e>> /\ DOMAIN u = {1} /\ u[1] = e
    <2>1. <<e>> \in Seq(Item) /\ DOMAIN <<e>> = {1} /\ <<e>>[1] = e
        OBVIOUS
    <2> QED BY <2>1
<1>4. wire' = wire \o u /\ queue' = queue /\ head' = head /\ b' = b /\ outcome' = outcome /\ turns' = turns
    BY <1>1, <1>2, <1>3 DEF bridge, backend
<1>5. \A f \in Item : (ItemOK(f) => ItemOK(f)') /\ (Known(f) => Fresh(f)')
    BY <1>0, <1>4, NotPops, ItemSteady, FreshSteady, HeadStill
<1>6. tool'[t] = "open" /\ outcome[t] = "none"
    BY <1>0, <1>1 DEF TypeOK, ToldInv
<1>7. Calm' => b.pending # t
    <2> SUFFICES ASSUME Calm' PROVE b.pending # t
        OBVIOUS
    <2>1. CalmFacts
        BY <1>0, CalmStep DEF CalmInv
    <2>2. b.pending # NoTool => tool[b.pending] = "open"
        BY <2>1 DEF CalmFacts
    <2> QED BY <1>1, <2>2, BridgeAssumption
<1>8. ItemOK(e)' /\ Fresh(e)'
    <2>1. TrueView(e.view)'
        BY <1>2, NoViewTyped DEF TrueView, Over
    <2>2. ItemOK(e)'
        BY <1>1, <1>2, <1>4, <1>6, <2>1 DEF ItemOK, LastEvents
    <2>3. Fresh(e)'
        BY <1>1, <1>2, <1>4, <1>6, <1>7 DEF Fresh, Calm
    <2> QED BY <2>2, <2>3
<1>9. \A i \in DOMAIN u : ItemOK(u[i])' /\ Fresh(u[i])' /\ u[i].k # "view"
    BY <1>2, <1>3, <1>8
<1>10. \A f \in Item : ItemOK(f) => \A i \in DOMAIN u : Ordered(f, u[i])
    BY <1>1, <1>2, <1>3 DEF ItemOK, Ordered
<1>11. \A i, j \in DOMAIN u : i < j => Ordered(u[i], u[j])
    BY <1>3
<1> QED BY <1>0, <1>4, <1>5, <1>9, <1>10, <1>11, WireGrows

LEMMA EndStep ==
    ASSUME Inv, [Next]_vars, EndTurn
    PROVE  ItemsInv' /\ OrderInv'
<1>0. TypeOK /\ ItemsInv /\ OrderInv
    BY DEF Inv
<1>1. PICK n \in Turns : \E u \in LastWords(n) :
                /\ turns[n] \in {"run", "abort"} /\ Tell(u)
                /\ turns' = [turns EXCEPT ![n] = "end"]
                /\ UNCHANGED <<bridge, queue, head, hook, live, backend>>
    BY <1>0, EndTurnMeans
<1>2. PICK u \in LastWords(n) : Tell(u)
    BY <1>1
<1>3. CASE live
    <2>0. u \in Seq(Item) /\ "stream" \notin Closers
        BY LastWordsTyped, BridgeAssumption
    <2>1. wire' = wire \o u /\ queue' = queue /\ head' = head /\ turns'[n] = "end"
        BY <1>0, <1>1, <1>2, <1>3 DEF Tell, TypeOK
    <2>2. \A f \in Item : (ItemOK(f) => ItemOK(f)') /\ (Known(f) => Fresh(f)')
        BY <1>0, <2>1, NotPops, ItemSteady, FreshSteady, HeadStill
    <2>3. ASSUME NEW f, f.k \in {"final"} \cup LastEvents, f.turn = n, f.view = NoView, f.by = "stream"
          PROVE  ItemOK(f)' /\ Fresh(f)' /\ f.k # "view"
        <3>1. TrueView(f.view)'
            BY <2>3, NoViewTyped DEF TrueView, Over
        <3>2. f.k # "view" /\ f.k # "tool"
            BY <2>3 DEF LastEvents
        <3> QED BY <2>0, <2>1, <2>3, <3>1, <3>2 DEF ItemOK, Fresh
    <2>4. \A i \in DOMAIN u : ItemOK(u[i])' /\ Fresh(u[i])' /\ u[i].k # "view"
        <3> SUFFICES ASSUME NEW i \in DOMAIN u
                     PROVE  ItemOK(u[i])' /\ Fresh(u[i])' /\ u[i].k # "view"
            OBVIOUS
        <3>1. u[i].k \in {"final"} \cup LastEvents /\ u[i].turn = n /\ u[i].view = NoView /\ u[i].by = "stream"
            BY LastWordsTyped
        <3> QED BY <2>3, <3>1
    <2>5. \A f \in Item : ItemOK(f) => \A i \in DOMAIN u : Ordered(f, u[i])
        BY <1>1, <2>0, LastWordsTyped DEF ItemOK, Ordered, LastEvents
    <2>6. \A i, j \in DOMAIN u : i < j => Ordered(u[i], u[j])
        BY <2>0, LastWordsTyped DEF Ordered, LastEvents
    <2> QED BY <1>0, <2>0, <2>1, <2>2, <2>4, <2>5, <2>6, WireGrows
<1>4. CASE ~live
    <2>1. UNCHANGED <<queue, wire, head>>
        BY <1>1, <1>2, <1>4 DEF Tell
    <2> QED BY <2>1, StaysStep
<1> QED BY <1>3, <1>4

LEMMA LoseStep ==
    ASSUME Inv, [Next]_vars, LoseStream
    PROVE  ItemsInv' /\ OrderInv'
<1>0. TypeOK /\ ItemsInv /\ OrderInv
    BY DEF Inv
<1>1. wire' = <<>> /\ queue' = queue /\ head' = head
    BY DEF LoseStream
<1>2. \A f \in Item : (ItemOK(f) => ItemOK(f)') /\ (Known(f) => Fresh(f)')
    BY <1>0, <1>1, NotPops, ItemSteady, FreshSteady, HeadStill
<1> QED BY <1>0, <1>1, <1>2, WireBreaks

LEMMA ItemsStep ==
    ASSUME Inv, [Next]_vars
    PROVE  ItemsInv' /\ OrderInv'
<1>0. TypeOK /\ StartInv /\ HeadInv /\ RepairInv /\ ViewsInv /\ ToldInv
    BY DEF Inv
<1>1. CASE StartLocal \/ StartUndo \/ StartAudit \/ UNCHANGED vars
    <2>1. UNCHANGED <<queue, wire, head>>
        BY <1>1 DEF StartLocal, StartUndo, StartAudit, vars, service
    <2> QED BY <2>1, StaysStep
<1>2. CASE StartDone
    <2>1. UNCHANGED <<queue, wire, head>>
        BY <1>0, <1>2, StartDoneMeans DEF service
    <2> QED BY <2>1, StaysStep
<1>3. CASE Drop \/ Deliver \/ FinalAnswer \/ Interrupt \/ Repaired
    <2>1. Pops /\ wire' = wire
        BY <1>0, <1>3, DropMeans, DeliverMeans, FinalAnswerMeans, InterruptLeaves, RepairedMeans DEF service, Pops
    <2> QED BY <2>1, PopsStep
<1>4. CASE ToolCall \/ Final \/ TurnOver
    <2>1. /\ wire' = wire
          /\ Pops \/ (queue # <<>> /\ queue' = queue /\ head'.pc # "ready")
        BY <1>0, <1>4, ToolCallMeans, FinalMeans, TurnOverLeaves DEF service, HeadGoes
    <2> QED BY <2>1, PopsStep, StaysStep
<1>5. CASE ToolAnswer \/ AcceptView
    <2>1. /\ wire' = wire
          /\ Pops \/ (queue # <<>> /\ queue' = queue /\ head'.pc # "ready")
        BY <1>0, <1>5, ToolAnswerMeans, AcceptViewMeans DEF service, HeadGoes, Delivers
    <2> QED BY <2>1, PopsStep, StaysStep
<1>6. CASE Submit \/ Repair
    <2>1. wire' = wire /\ queue # <<>> /\ queue' = queue /\ head'.pc # "ready"
        BY <1>0, <1>6, SubmitMeans, RepairMeans DEF service, HeadGoes, Submit, Busy
    <2> QED BY <2>1, StaysStep
<1>7. ASSUME NEW c \in Closers, InterruptHook(c)
      PROVE  ItemsInv' /\ OrderInv'
    <2>1. UNCHANGED <<head, wire>> /\ closer[c] = "idle"
        BY <1>0, <1>7, InterruptHookMeans DEF service
    <2>2. CASE queue' = queue
        BY <2>1, <2>2, StaysStep
    <2>3. CASE run' \in View /\ queue' = Append(queue, ViewItem(run', c)) /\ closer'[c] = "accept"
        <3>1. ASSUME NEW v \in View, v = run'
              PROVE  ItemsInv' /\ OrderInv'
            <4>1. (Over(v) => Over(run')) /\ (v.ok /\ v.res \in Tools => outcome'[v.res] = "ok")
                BY <1>0, <3>1, RunTrue DEF TrueView, Over
            <4>2. queue' = Append(queue, ViewItem(v, c))
                BY <2>3, <3>1
            <4> QED BY <2>1, <2>3, <4>1, <4>2, ShowsStep
        <3> QED BY <2>3, <3>1
    <2> QED BY <1>0, <1>7, <2>2, <2>3, InterruptHookMeans
<1>8. CASE \E c \in Closers : InterruptHook(c) \/ Disconnect(c) \/ Dispose(c) \/ EndAudit(c)
    <2>1. PICK c \in Closers : InterruptHook(c) \/ Disconnect(c) \/ Dispose(c) \/ EndAudit(c)
        BY <1>8
    <2>2. CASE Disconnect(c) \/ Dispose(c) \/ EndAudit(c)
        <3>1. UNCHANGED <<queue, wire, head>>
            BY <2>2 DEF Disconnect, Dispose, EndAudit, service
        <3> QED BY <3>1, StaysStep
    <2> QED BY <1>7, <2>1, <2>2
<1>9. CASE Hook
    <2>1. UNCHANGED <<head, wire>> /\ refresh.view \in View /\ TrueView(refresh.view)
        BY <1>0, <1>9, HookMeans, StateTyped DEF service, ViewsInv
    <2>2. CASE queue' = queue
        BY <2>1, <2>2, StaysStep
    <2>3. CASE queue' = Append(queue, ViewItem(refresh.view, "hook"))
        <3>1. ASSUME NEW v \in View, v = refresh.view
              PROVE  ItemsInv' /\ OrderInv'
            <4>1. (Over(v) => Over(run')) /\ (v.ok /\ v.res \in Tools => outcome'[v.res] = "ok")
                BY <1>0, <2>1, <3>1, ViewSteady DEF TrueView, Over
            <4>2. queue' = Append(queue, ViewItem(v, "hook"))
                BY <2>3, <3>1
            <4> QED BY <2>1, <4>1, <4>2, ShowsStep, BridgeAssumption
        <3> QED BY <2>1, <3>1
    <2> QED BY <1>0, <1>9, <2>2, <2>3, HookMeans
<1>10. CASE DecideApproval
    <2>1. UNCHANGED <<head, wire>> /\ run' \in View /\ queue' = Append(queue, ViewItem(run', "stream"))
        BY <1>0, <1>10, DecideApprovalMeans DEF service
    <2>2. ASSUME NEW v \in View, v = run'
          PROVE  ItemsInv' /\ OrderInv'
        <3>1. (Over(v) => Over(run')) /\ (v.ok /\ v.res \in Tools => outcome'[v.res] = "ok")
            BY <1>0, <2>2, RunTrue DEF TrueView, Over
        <3>2. queue' = Append(queue, ViewItem(v, "stream"))
            BY <2>1, <2>2
        <3> QED BY <2>1, <3>1, <3>2, ShowsStep, BridgeAssumption
    <2> QED BY <2>1, <2>2
<1>11. CASE ToolEnds \/ ToolTimeout
    <2>1. UNCHANGED <<queue, wire, head>>
        BY <1>11 DEF ToolEnds, ToolTimeout, service
    <2> QED BY <2>1, StaysStep
<1>12. CASE Read \/ CallTool \/ EndTurn \/ LoseStream
    BY <1>12, ReadStep, CallStep, EndStep, LoseStep
<1> QED BY <1>1, <1>2, <1>3, <1>4, <1>5, <1>6, <1>8, <1>9, <1>10, <1>11, <1>12 DEF Next, Start, Operation, Service

----------------------------------------------------------------------------
(* The start, the operation at the head and the repairs *)

LEMMA StartHolds ==
    ASSUME TypeOK, StartInv, start' = start,
           b.turn # 0 => b'.turn # 0,
           b.turn = 0 => /\ b' = b /\ head'.pc = "ready" /\ activation' # "ok"
                         /\ \A c \in Closers : closer'[c] \notin {"audit", "auditlate"},
           start = "idle" => \A n \in Turns : turns'[n] = "none",
           start \in {"local", "undo", "audit"} => turns'[1] # "none",
           start \in {"idle", "local"} => run' = NoView
    PROVE  StartInv'
<1>1. b.turn # 0 => start \in {"done", "failed"}
    BY DEF StartInv
<1>2. CASE b.turn = 0
    BY <1>2 DEF StartInv
<1>3. CASE b.turn # 0
    BY <1>1, <1>3 DEF StartInv
<1> QED BY <1>2, <1>3

LEMMA Begun ==
    ASSUME TypeOK, StartInv
    PROVE  /\ b.on \/ head.pc # "ready" \/ b.term \/ b.repair \/ b.pending # NoTool \/ activation = "ok" => b.turn # 0
           /\ b.turn # 0 => start \in {"done", "failed"} /\ b.turn \in Turns /\ b.turn \in Nat
           /\ \A c \in Closers : closer[c] \in {"audit", "auditlate"} => b.turn # 0
BY StateTyped, OneTurn DEF StartInv

LEMMA OperationBegun ==
    ASSUME TypeOK, StartInv, RepairInv, Operation
    PROVE  /\ start' = start
           /\ \/ b.turn # 0 /\ b'.turn \in {b.turn, b.turn + 1}
              \/ b.turn = 0 /\ b' = b /\ Pops /\ UNCHANGED <<activation, run, turns>>
<1>0. b.on \/ head.pc # "ready" => b.turn # 0
    BY Begun
<1>1. CASE Drop
    BY <1>1, DropMeans DEF bridge, backend, service
<1>2. CASE AcceptView
    <2>1. UNCHANGED <<start, activation, run, turns>>
        BY <1>2, AcceptViewMeans DEF backend, service
    <2>2. CASE b.turn = 0
        <3>1. ~b.on
            BY <1>0, <2>2
        <3>2. Busy("ready") /\ Ends(FALSE) /\ b' = b
            BY <1>2, <3>1 DEF AcceptView
        <3> QED BY <2>1, <2>2, <3>2 DEF Pops, Busy
    <2> QED BY <1>2, <2>1, <2>2, AcceptViewMeans DEF KeepsRun
<1>3. CASE ToolCall \/ ToolAnswer \/ Deliver \/ FinalAnswer \/ TurnOver
    BY <1>0, <1>3, ToolCallMeans, ToolAnswerMeans, DeliverMeans, FinalAnswerMeans, TurnOverLeaves DEF KeepsRun
<1>4. CASE Submit \/ Final \/ Repair
    BY <1>0, <1>4, SubmitMeans, FinalMeans, RepairMeans DEF bridge, Submit, Busy
<1>5. CASE Interrupt \/ Repaired
    BY <1>0, <1>5, InterruptLeaves, RepairedMeans DEF GivesUp
<1> QED BY <1>1, <1>2, <1>3, <1>4, <1>5 DEF Operation

LEMMA StartStep ==
    ASSUME Inv, [Next]_vars
    PROVE  StartInv'
<1>0. TypeOK /\ StartInv /\ HeadInv /\ RepairInv /\ TurnsInv /\ turns \in [Turns -> {"none", "run", "abort", "end"}]
    BY DEF Inv, TypeOK
<1>1. CASE UNCHANGED vars
    BY <1>0, <1>1 DEF StartInv, vars, bridge, hook, service, backend
<1>2. CASE Read
    BY <1>0, <1>2 DEF StartInv, Read, bridge, hook, backend
<1>3. CASE StartLocal
    <2>1. b.turn = 0 /\ 1 \in Turns /\ start = "idle"
        BY <1>0, <1>3, OneTurn DEF StartInv, StartLocal
    <2> QED BY <1>0, <1>3, <2>1 DEF StartInv, StartLocal, Settle, hook, backend
<1>4. CASE StartAudit
    <2>1. b.turn = 0 /\ start = "local" /\ start' \in {"undo", "audit"}
        BY <1>0, <1>4 DEF StartInv, StartAudit
    <2>2. UNCHANGED <<b, head, activation, closer, turns>>
        BY <1>4 DEF StartAudit, hook, service
    <2> QED BY <1>0, <2>1, <2>2 DEF StartInv
<1>5. CASE StartUndo
    <2>1. b.turn = 0 /\ start' = "failed"
        BY <1>0, <1>5 DEF StartInv, StartUndo
    <2>2. UNCHANGED <<b, head, closer>> /\ activation' # "ok"
        BY <1>0, <1>5, <2>1 DEF StartUndo, hook, Settle, StartInv
    <2> QED BY <1>0, <2>1, <2>2 DEF StartInv
<1>6. CASE StartDone
    <2>1. b'.turn = 1 /\ start' \in {"done", "failed"}
        BY <1>0, <1>6, StartDoneMeans
    <2> QED BY <2>1 DEF StartInv
<1>7. CASE Operation
    <2>1. start' = start
        BY <1>0, <1>7, OperationBegun
    <2>2. CASE b.turn # 0 /\ b'.turn \in {b.turn, b.turn + 1}
        <3>1. b'.turn # 0 /\ start \in {"done", "failed"}
            BY <1>0, <2>2, Begun
        <3> QED BY <1>0, <2>1, <2>2, <3>1, StartHolds
    <2>3. CASE b.turn = 0 /\ b' = b /\ Pops /\ UNCHANGED <<activation, run, turns>>
        <3>1. head'.pc = "ready" /\ \A c \in Closers : closer'[c] \notin {"audit", "auditlate"}
            BY <1>0, <2>3, PopsMeans DEF StartInv
        <3> QED BY <1>0, <2>1, <2>3, <3>1, StartHolds DEF StartInv
    <2> QED BY <1>0, <1>7, <2>2, <2>3, OperationBegun
<1>8. ASSUME NEW c \in Closers, InterruptHook(c)
      PROVE  StartInv'
    <2>1. UNCHANGED <<start, b, head, activation, turns>>
        BY <1>8 DEF InterruptHook, bridge, service
    <2>2. \A d \in Closers : closer'[d] = closer[d] \/ closer'[d] \in {"accept", "error"}
        BY <1>0, <1>8, InterruptHookMeans
    <2>3. start \in {"idle", "local"} => run' = NoView
        <3>1. run' = run \/ (InterruptRun(seen) /\ seen > 0 /\ seen \in Nat)
            BY <1>0, <1>8, InterruptHookMeans DEF TypeOK
        <3>2. CASE InterruptRun(seen) /\ seen > 0 /\ seen \in Nat
            <4>1. run.ver = seen
                BY <1>0, <3>2, InterruptRunMeans
            <4>2. NoView.ver = 0
                BY NoViewTyped
            <4> QED BY <1>0, <3>2, <4>1, <4>2 DEF StartInv
        <3> QED BY <1>0, <3>1, <3>2 DEF StartInv
    <2>4. b.turn = 0 => /\ head'.pc = "ready" /\ activation' # "ok"
                        /\ \A d \in Closers : closer'[d] \notin {"audit", "auditlate"}
        BY <1>0, <2>1, <2>2 DEF StartInv
    <2> QED BY <1>0, <2>1, <2>3, <2>4, StartHolds DEF StartInv
<1>9. ASSUME NEW c \in Closers, Disconnect(c) \/ Dispose(c)
      PROVE  StartInv'
    <2>1. UNCHANGED <<start, head, run>> /\ b'.turn = b.turn
        BY <1>0, <1>9, StopLeaves DEF backend
    <2>2. b.turn = 0 => ~b.on
        BY <1>0 DEF StartInv
    <2>3. ~b.on => UNCHANGED <<b, turns>> /\ closer'[c] = "done"
        BY <1>0, <1>9, StopLeaves
    <2>4. \A d \in Closers \ {c} : closer'[d] = closer[d]
        BY <1>0, <1>9, StopLeaves
    <2>5. activation' = activation \/ activation' = "rejected"
        BY <1>0, <1>9, StopLeaves DEF Settle
    <2>6. CASE b.turn = 0
        <3>1. b' = b /\ head'.pc = "ready" /\ activation' # "ok" /\ \A d \in Closers : closer'[d] \notin {"audit", "auditlate"}
            BY <1>0, <2>1, <2>2, <2>3, <2>4, <2>5, <2>6 DEF StartInv
        <3>2. turns' = turns
            BY <2>2, <2>3, <2>6
        <3> QED BY <1>0, <2>1, <2>6, <3>1, <3>2, StartHolds DEF StartInv
    <2>7. CASE b.turn # 0
        BY <1>0, <2>1, <2>7, StartHolds, Begun
    <2> QED BY <2>6, <2>7
<1>10. ASSUME NEW c \in Closers, EndAudit(c)
       PROVE  StartInv'
    <2>1. start' = start /\ b'.turn = b.turn /\ closer[c] \in {"audit", "auditlate"}
        BY <1>0, <1>10, EndAuditLeaves DEF GivesUp
    <2>2. b.turn # 0
        BY <1>0, <2>1, Begun
    <2> QED BY <1>0, <2>1, <2>2, StartHolds, Begun
<1>11. CASE Hook
    BY <1>0, <1>11, HookMeans DEF StartInv, bridge, service, backend
<1>12. CASE DecideApproval \/ ToolEnds
    <2>1. UNCHANGED <<start, b, head, activation, closer, turns>> /\ run.st # "none"
        BY <1>0, <1>12, DecideApprovalMeans, ToolEndsMeans DEF bridge, hook, service
    <2>2. run # NoView
        BY <2>1, NoViewTyped
    <2> QED BY <1>0, <2>1, <2>2 DEF StartInv
<1>13. CASE Service \/ EndTurn
    <2>1. UNCHANGED <<start, b, head, activation, closer, run>>
        BY <1>0, <1>13, ServiceMeans DEF bridge, hook, backend
    <2>2. \A n \in Turns : (turns[n] = "none") = (turns'[n] = "none")
        BY <1>0, <1>13, ServiceMeans
    <2> QED BY <1>0, <2>1, <2>2, OneTurn DEF StartInv
<1> QED BY <1>1, <1>2, <1>3, <1>4, <1>5, <1>6, <1>7, <1>8, <1>9, <1>10, <1>11, <1>12, <1>13 DEF Next, Start

LEMMA OpStays ==
    ASSUME TypeOK, queue # <<>>, queue' = queue \/ \E e \in Item : queue' = Append(queue, e)
    PROVE  queue' # <<>> /\ Op' = Op
<1>1. ASSUME NEW e \in Item, queue' = Append(queue, e)
      PROVE  queue' # <<>> /\ Head(queue') = Head(queue)
    BY <1>1, AppendFacts DEF TypeOK
<1> QED BY <1>1 DEF Op

\* The steps that leave the operation at the head alone.
Aside == head' = head /\ (queue' = queue \/ \E e \in Item : queue' = Append(queue, e))
LEMMA AsideSteps ==
    ASSUME TypeOK, [Next]_vars, ~Operation
    PROVE  /\ Aside
           /\ b'.pending = b.pending /\ b'.repair = b.repair
           /\ StartDone \/ b'.turn = b.turn
<1>1. CASE UNCHANGED vars \/ StartLocal \/ StartUndo \/ StartAudit
    BY <1>1 DEF vars, bridge, hook, StartLocal, StartUndo, StartAudit, Aside
<1>2. CASE StartDone
    BY <1>2, StartDoneMeans DEF Aside
<1>3. CASE Read
    BY <1>3, StateTyped DEF Read, Aside, bridge
<1>4. ASSUME NEW c \in Closers, InterruptHook(c)
      PROVE  Aside /\ b' = b
    <2>1. run' \in View => ViewItem(run', c) \in Item
        BY ViewItemTyped
    <2> QED BY <1>4, <2>1, InterruptHookMeans DEF Aside, bridge
<1>5. CASE \E c \in Closers : InterruptHook(c) \/ Disconnect(c) \/ Dispose(c) \/ EndAudit(c)
    BY <1>4, <1>5, StopLeaves, EndAuditLeaves DEF Aside, GivesUp
<1>6. CASE Hook
    <2>1. ViewItem(refresh.view, "hook") \in Item
        BY ViewItemTyped, StateTyped
    <2> QED BY <1>6, <2>1, HookMeans DEF Aside, bridge
<1>7. CASE DecideApproval
    <2>1. run' \in View => ViewItem(run', "stream") \in Item
        BY ViewItemTyped
    <2> QED BY <1>7, <2>1, DecideApprovalMeans DEF Aside, bridge
<1>8. CASE ToolEnds \/ Service \/ EndTurn
    BY <1>8, ToolEndsMeans, ServiceMeans DEF Aside, bridge
<1> QED BY <1>1, <1>2, <1>3, <1>5, <1>6, <1>7, <1>8 DEF Next, Start

LEMMA AsideOp ==
    ASSUME TypeOK, HeadInv, Aside, head.pc # "ready"
    PROVE  queue # <<>> /\ queue' # <<>> /\ Op' = Op
BY OpStays DEF Aside, HeadInv

LEMMA OpKnown ==
    ASSUME Inv, queue # <<>>
    PROVE  /\ Op \in Item /\ ItemOK(Op)
           /\ Op.k = "tool" => Op.tool \in Tools /\ tool[Op.tool] # "none"
           /\ Op.k \in LastEvents => turns[Op.turn] = "end"
           /\ head.pc = "ready" /\ Op.k = "tool" => outcome[Op.tool] = "none"
<1>1. Op \in Item /\ ItemOK(Op) /\ (head.pc = "ready" => Fresh(Op))
    BY KnownItems DEF Inv
<1> QED BY <1>1 DEF ItemOK, Fresh

LEMMA HeadStep ==
    ASSUME Inv, [Next]_vars
    PROVE  HeadInv'
<1>0. TypeOK /\ StartInv /\ HeadInv /\ RepairInv /\ ToldInv
    BY DEF Inv
<1>1. CASE head'.pc = "ready"
    BY <1>1 DEF HeadInv
<1>2. CASE Pops
    BY <1>0, <1>1, <1>2, PopsMeans
<1>3. ASSUME NEW pc, queue # <<>>, HeadGoes(pc), pc \in {"interrupt", "repair", "repaired"}, Op.k \in LastEvents, Op.turn = b'.turn
      PROVE  HeadInv'
    BY <1>3 DEF HeadInv, HeadGoes, Op
<1>4. ASSUME queue # <<>>, UNCHANGED queue, head'.pc = "deliver", Op.k \in {"tool", "view"}
      PROVE  HeadInv'
    BY <1>4 DEF HeadInv, Op
<1>5. CASE ~Operation
    <2>1. CASE head.pc = "ready"
        BY <1>0, <1>1, <1>5, <2>1, AsideSteps DEF Aside
    <2>2. CASE head.pc # "ready"
        <3>1. Aside /\ b'.pending = b.pending /\ (StartDone \/ b'.turn = b.turn)
            BY <1>0, <1>5, AsideSteps
        <3>2. ~StartDone
            BY <1>0, <2>2, Begun DEF StartDone
        <3>3. queue' # <<>> /\ Op' = Op /\ head' = head
            BY <1>0, <2>2, <3>1, AsideOp DEF Aside
        <3>4. head.pc = "submit" /\ Op.k = "tool" => outcome'[Op.tool] = "none"
            <4> SUFFICES ASSUME head.pc = "submit" /\ Op.k = "tool"
                         PROVE  outcome'[Op.tool] = "none"
                OBVIOUS
            <4>1. ~Submit
                BY <1>5 DEF Operation
            <4>2. outcome[Op.tool] = "none" /\ Op.tool \in Tools
                BY <1>0, OpKnown DEF HeadInv
            <4> QED BY <1>0, <4>1, <4>2, OutcomeSteady
        <3> QED BY <1>0, <3>1, <3>2, <3>3, <3>4 DEF HeadInv
    <2> QED BY <2>1, <2>2
<1>6. CASE ToolCall
    <2>1. CASE HeadGoes("deliver")
        BY <1>0, <1>4, <1>6, <2>1, ToolCallMeans DEF HeadGoes
    <2>2. CASE HeadGoes("submit") /\ b'.pending = Op.tool
        <3>1. outcome[Op.tool] = "none" /\ outcome' = outcome /\ queue # <<>> /\ Op.k = "tool"
            BY <1>0, <1>6, ToolCallMeans, OpKnown DEF backend
        <3> QED BY <2>2, <3>1 DEF HeadInv, HeadGoes, Op
    <2> QED BY <1>0, <1>2, <1>6, <2>1, <2>2, ToolCallMeans
<1>7. CASE Submit
    <2>1. queue # <<>> /\ UNCHANGED <<queue, b>> /\ head'.pc = "answer" /\ head.pc = "submit"
        BY <1>0, <1>7, SubmitMeans DEF bridge, Submit, Busy
    <2> QED BY <1>0, <2>1 DEF HeadInv, Op
<1>8. CASE ToolAnswer
    <2>1. CASE HeadGoes("deliver") \/ Delivers(b.pending, head.view)
        BY <1>0, <1>4, <1>8, <2>1, ToolAnswerMeans DEF HeadGoes, Delivers
    <2> QED BY <1>0, <1>2, <1>8, <2>1, ToolAnswerMeans
<1>9. CASE AcceptView
    <2>1. CASE Delivers(b.pending, Op.view)
        BY <1>0, <1>4, <1>9, <2>1, AcceptViewMeans DEF Delivers
    <2> QED BY <1>0, <1>2, <1>9, <2>1, AcceptViewMeans
<1>10. CASE Final
    <2>1. CASE HeadGoes("submit")
        <3>1. queue # <<>> /\ Op.k = "final"
            BY <1>0, <1>10, FinalMeans
        <3> QED BY <2>1, <3>1 DEF HeadInv, HeadGoes, Op
    <2> QED BY <1>0, <1>2, <1>10, <2>1, FinalMeans
<1>11. CASE TurnOver
    <2>1. queue # <<>> /\ Op.k \in LastEvents /\ b'.turn = b.turn /\ Op.turn = b.turn
        BY <1>0, <1>11, TurnOverLeaves
    <2> QED BY <1>0, <1>2, <1>3, <1>11, <2>1, TurnOverLeaves
<1>12. CASE Repair
    <2>1. queue # <<>> /\ Op.k \in LastEvents /\ b'.turn = b.turn /\ Op.turn = b.turn
        BY <1>0, <1>12, RepairMeans DEF HeadInv, bridge
    <2> QED BY <1>0, <1>3, <1>12, <2>1, RepairMeans
<1>13. CASE Drop \/ Deliver \/ FinalAnswer \/ Interrupt \/ Repaired
    BY <1>0, <1>2, <1>13, DropMeans, DeliverMeans, FinalAnswerMeans, InterruptLeaves, RepairedMeans DEF Pops
<1> QED BY <1>5, <1>6, <1>7, <1>8, <1>9, <1>10, <1>11, <1>12, <1>13 DEF Operation

LEMMA RepairStep ==
    ASSUME Inv, [Next]_vars
    PROVE  RepairInv'
<1>0. TypeOK /\ StartInv /\ HeadInv /\ RepairInv
    BY DEF Inv
<1>1. CASE (b'.repair => b'.turn < MaxTurns) /\ head'.pc \notin {"repair", "repaired", "answer"}
    BY <1>1 DEF RepairInv
<1>2. CASE ~Operation
    <2>1. Aside /\ b'.repair = b.repair /\ (StartDone \/ b'.turn = b.turn)
        BY <1>0, <1>2, AsideSteps
    <2>2. CASE StartDone
        <3>1. b.turn = 0
            BY <1>0, <2>2, Begun DEF StartDone
        <3> QED BY <1>0, <1>1, <2>1, <3>1 DEF StartInv, Aside
    <2>3. CASE b'.turn = b.turn
        <3>1. head.pc = "answer" => Op' = Op
            BY <1>0, <2>1, AsideOp
        <3> QED BY <1>0, <2>1, <2>3, <3>1 DEF RepairInv, Aside, Over
    <2> QED BY <2>1, <2>2, <2>3
<1>3. CASE Drop \/ ToolCall \/ ToolAnswer \/ AcceptView \/ Deliver \/ Final
    <2>1. b'.repair = b.repair /\ b'.turn = b.turn
        BY <1>0, <1>3, DropMeans, ToolCallMeans, ToolAnswerMeans, AcceptViewMeans, DeliverMeans, FinalMeans DEF KeepsRun, bridge
    <2>2. head'.pc \in {"ready", "deliver", "submit"}
        BY <1>0, <1>3, DropMeans, ToolCallMeans, ToolAnswerMeans, AcceptViewMeans, DeliverMeans, FinalMeans, PopsMeans DEF HeadGoes, Delivers
    <2> QED BY <1>0, <1>1, <2>1, <2>2 DEF RepairInv
<1>4. CASE Submit
    <2>1. b' = b /\ head'.pc = "answer" /\ Op' = Op
        BY <1>0, <1>4, SubmitMeans DEF bridge, Op
    <2>2. Op.k = "final" /\ ~Over(head'.view) /\ head'.view.fb # "none" => b.turn < MaxTurns
        <3> SUFFICES ASSUME Op.k = "final", ~Over(head'.view), head'.view.fb # "none"
                     PROVE  b.turn < MaxTurns
            OBVIOUS
        <3>1. DecideFinal /\ head'.view = run'
            BY <1>0, <1>4, SubmitMeans, NoViewTyped
        <3> QED BY <1>0, <3>1, DecideFinalMeans DEF Over, Terminal
    <2> QED BY <1>0, <2>1, <2>2 DEF RepairInv, Over
<1>5. CASE FinalAnswer
    <2>1. head.pc = "answer" /\ Op.k = "final" /\ Pops /\ b'.turn = b.turn
          /\ (b'.repair => b.repair \/ (~Over(head.view) /\ head.view.fb # "none"))
        BY <1>0, <1>5, FinalAnswerMeans DEF Pops
    <2> QED BY <1>0, <1>1, <2>1, PopsMeans DEF RepairInv
<1>6. CASE TurnOver
    <2>1. b'.repair = b.repair /\ b'.turn = b.turn /\ (b.repair \/ head'.pc # "repair") /\ head'.pc \in {"ready", "repair", "interrupt"}
        BY <1>0, <1>6, TurnOverLeaves, PopsMeans DEF HeadGoes
    <2> QED BY <1>0, <2>1 DEF RepairInv
<1>7. CASE Interrupt
    <2>1. b'.repair = b.repair /\ b'.turn = b.turn /\ head'.pc = "ready"
        BY <1>0, <1>7, InterruptLeaves, PopsMeans DEF GivesUp
    <2> QED BY <1>0, <2>1 DEF RepairInv
<1>8. CASE Repair
    <2>1. b' = b /\ head.pc = "repair" /\ head'.pc \in {"repaired", "interrupt"}
        BY <1>0, <1>8, RepairMeans DEF HeadGoes, bridge
    <2> QED BY <1>0, <2>1 DEF RepairInv
<1>9. CASE Repaired
    <2>1. ~b'.repair /\ head'.pc = "ready"
        BY <1>0, <1>9, RepairedMeans, PopsMeans DEF Pops
    <2> QED BY <2>1 DEF RepairInv
<1> QED BY <1>2, <1>3, <1>4, <1>5, <1>6, <1>7, <1>8, <1>9 DEF Operation

----------------------------------------------------------------------------
(* Turns *)

LEMMA TurnsHold ==
    ASSUME TypeOK, TurnsInv, b'.turn = b.turn,
           head.pc = "repaired" <=> head'.pc = "repaired",
           b'.term => b.term \/ turns'[b.turn] # "run",
           \A n \in Turns : /\ turns[n] = "end" => turns'[n] = "end"
                            /\ turns[n] = "none" <=> turns'[n] = "none"
                            /\ turns[n] # "run" => turns'[n] # "run",
           \A c \in Closers : closer'[c] = "audit" => closer[c] = "audit" \/ turns'[1] # "run",
           b.turn # 0 => b.turn \in Turns,
           head.pc = "repaired" => b.turn + 1 \in Turns,
           b.term => b.turn \in Turns
    PROVE  TurnsInv'
<1>1. 1 \in Turns
    BY OneTurn
<1> QED BY <1>1 DEF TurnsInv

LEMMA HeadOfTurn ==
    ASSUME Inv
    PROVE  /\ b.turn # 0 => b.turn \in Turns
           /\ b.term => b.turn \in Turns
           /\ head.pc \in {"repair", "repaired"} => b.turn + 1 \in Turns /\ b.turn \in Turns /\ b.turn # 0
           /\ head.pc \in {"repair", "repaired", "interrupt"} => turns[b.turn] = "end" /\ b.turn \in Turns
<1>0. TypeOK /\ StartInv /\ HeadInv /\ RepairInv
    BY DEF Inv
<1>1. (b.turn # 0 => b.turn \in Turns) /\ (b.term => b.turn # 0) /\ (head.pc # "ready" => b.turn # 0)
    BY <1>0, Begun
<1>2. head.pc \in {"repair", "repaired"} => b.turn < MaxTurns
    BY <1>0 DEF RepairInv
<1>3. head.pc \in {"repair", "repaired"} => b.turn + 1 \in Turns
    BY <1>1, <1>2, BridgeAssumption DEF Turns
<1>4. head.pc \in {"repair", "repaired", "interrupt"} => turns[b.turn] = "end"
    BY <1>0, OpKnown DEF HeadInv
<1> QED BY <1>1, <1>3, <1>4

\* The first turn, once another has followed it.
LEMMA FirstTurn ==
    ASSUME Inv, b.turn # 0, turns[b.turn] # "run"
    PROVE  turns[1] # "run"
<1>1. b.turn \in Turns /\ b.turn \in Nat /\ 1 \in Turns
    BY Begun, OneTurn DEF Inv
<1>2. b.turn = 1 \/ 1 < b.turn
    BY <1>1
<1> QED BY <1>1, <1>2 DEF Inv, TurnsInv

LEMMA TurnsStep ==
    ASSUME Inv, [Next]_vars
    PROVE  TurnsInv'
<1>0. TypeOK /\ StartInv /\ HeadInv /\ RepairInv /\ TurnsInv /\ turns \in [Turns -> {"none", "run", "abort", "end"}]
    BY DEF Inv, TypeOK
<1>t. /\ b.turn # 0 => b.turn \in Turns
      /\ head.pc = "repaired" => b.turn + 1 \in Turns
      /\ b.term => b.turn \in Turns
    BY HeadOfTurn
<1>1. ASSUME b'.turn = b.turn, turns' = turns, head.pc = "repaired" <=> head'.pc = "repaired", b'.term => b.term,
             \A c \in Closers : closer'[c] = "audit" => closer[c] = "audit"
      PROVE  TurnsInv'
    BY <1>0, <1>1, <1>t, TurnsHold
<1>2. \A c \in Closers : closer'[c] = "audit" => closer[c] = "audit" \/ Disconnect(c) \/ Dispose(c)
    BY <1>0, CloserChanges
<1>3. CASE UNCHANGED vars \/ StartAudit \/ Read
    <2>1. UNCHANGED <<b, turns, head, closer>>
        BY <1>3 DEF vars, bridge, service, hook, StartAudit, Read
    <2> QED BY <1>1, <2>1
<1>4. CASE StartLocal
    <2>1. /\ b.turn = 0 /\ 1 \in Turns /\ ~b.term
          /\ \A c \in Closers : closer[c] # "audit"
        BY <1>0, <1>4, Begun, OneTurn DEF StartLocal
    <2>2. UNCHANGED <<b, head, closer>> /\ (turns' = turns \/ turns' = [turns EXCEPT ![1] = "run"])
        BY <1>4 DEF StartLocal, hook
    <2>3. \A n \in Turns : turns'[n] = turns[n] \/ n = 1
        BY <1>0, <2>2
    <2>4. head.pc # "repaired" /\ \A n \in Turns : n \in Nat
        BY <1>0, <2>1, OneTurn DEF StartInv
    <2> QED BY <1>0, <2>1, <2>2, <2>3, <2>4 DEF TurnsInv
<1>5. CASE StartUndo
    <2>1. UNCHANGED <<b, head, closer>> /\ (turns' = turns \/ (turns[1] = "run" /\ turns' = [turns EXCEPT ![1] = "abort"]))
        BY <1>5 DEF StartUndo, hook, CancelTurn, NoCancel
    <2>2. \A n \in Turns : turns'[n] = turns[n] \/ (turns[n] = "run" /\ turns'[n] = "abort")
        BY <1>0, <2>1
    <2> QED BY <1>0, <1>t, <2>1, <2>2, TurnsHold
<1>6. CASE StartDone
    <2>1. b.turn = 0 /\ turns[1] # "none" /\ ~b.term /\ head.pc = "ready" /\ \A c \in Closers : closer[c] # "audit"
        BY <1>0, <1>6, Begun DEF StartDone, StartInv
    <2>2. b'.turn = 1 /\ ~b'.term /\ UNCHANGED <<head, turns>> /\ \A c \in Closers : closer'[c] # "audit"
        BY <1>0, <1>6, <2>1, StartDoneMeans DEF service
    <2>3. \A n \in Turns : n \in Nat \ {0} /\ (n > 1 => turns[n] = "none")
        BY <1>0, <2>1, OneTurn DEF TurnsInv
    <2> QED BY <2>1, <2>2, <2>3 DEF TurnsInv
<1>7. CASE Drop \/ ToolCall \/ Submit \/ ToolAnswer \/ AcceptView \/ Deliver \/ Final \/ FinalAnswer
    <2>1. b'.turn = b.turn /\ b'.term = b.term /\ turns' = turns /\ head.pc # "repaired"
        BY <1>0, <1>7, DropMeans, ToolCallMeans, SubmitMeans, ToolAnswerMeans, AcceptViewMeans, DeliverMeans, FinalMeans,
           FinalAnswerMeans DEF bridge, service, KeepsRun, Submit, Busy
    <2>2. head'.pc # "repaired"
        BY <1>0, <1>7, DropMeans, ToolCallMeans, SubmitMeans, ToolAnswerMeans, AcceptViewMeans, DeliverMeans, FinalMeans,
           FinalAnswerMeans, PopsMeans DEF HeadGoes, Delivers, Pops
    <2>3. \A c \in Closers : closer'[c] = "audit" => closer[c] = "audit"
        <3>1. ~(\E c \in Closers : Disconnect(c) \/ Dispose(c)) \/ UNCHANGED queue
            BY <1>0, StopLeaves
        <3>2. Pops \/ UNCHANGED closer
            BY <1>0, <1>7, DropMeans, ToolCallMeans, SubmitMeans, ToolAnswerMeans, AcceptViewMeans, DeliverMeans, FinalMeans,
               FinalAnswerMeans DEF HeadGoes, Delivers, Pops, hook
        <3>3. ~(Pops /\ UNCHANGED queue)
            BY <1>0, NotPops
        <3> QED BY <1>2, <3>1, <3>2, <3>3
    <2> QED BY <1>1, <2>1, <2>2, <2>3
<1>8. ASSUME Pops \/ UNCHANGED closer
      PROVE  \A c \in Closers : closer'[c] = "audit" => closer[c] = "audit"
    BY <1>0, <1>8, PopsMeans
<1>9. CASE TurnOver
    <2>1. /\ b'.turn = b.turn /\ turns' = turns /\ head.pc # "repaired" /\ head'.pc # "repaired"
          /\ Pops \/ UNCHANGED closer
        BY <1>0, <1>9, TurnOverLeaves, PopsMeans DEF service, HeadGoes
    <2>2. turns[b.turn] = "end"
        BY <1>0, <1>9, TurnOverLeaves, OpKnown
    <2> QED BY <1>0, <1>t, <1>8, <2>1, <2>2, TurnsHold
<1>10. CASE Interrupt
    <2>1. /\ b'.turn = b.turn /\ turns' = turns /\ head.pc # "repaired" /\ head'.pc # "repaired" /\ b'.term = b.term /\ Pops
        BY <1>0, <1>10, InterruptLeaves, PopsMeans DEF service, GivesUp
    <2> QED BY <1>1, <1>8, <2>1
<1>11. CASE Repair
    <2>1. /\ UNCHANGED <<b, closer>> /\ head.pc = "repair"
          /\ \/ head'.pc = "repaired" /\ turns' = [turns EXCEPT ![b.turn + 1] = IF live THEN "run" ELSE "abort"]
             \/ head'.pc = "interrupt" /\ turns' = turns
        BY <1>0, <1>11, RepairMeans DEF HeadGoes, bridge
    <2>2. CASE turns' = turns /\ head'.pc = "interrupt"
        BY <1>1, <2>1, <2>2
    <2>3. CASE head'.pc = "repaired" /\ turns' = [turns EXCEPT ![b.turn + 1] = IF live THEN "run" ELSE "abort"]
        <3>1. b.turn + 1 \in Turns /\ b.turn \in Turns /\ b.turn \in Nat \ {0} /\ turns[b.turn] = "end"
            BY <2>1, HeadOfTurn, OneTurn
        <3>2. \A n \in Turns : n # b.turn + 1 => turns'[n] = turns[n]
            BY <1>0, <2>3
        <3>3. turns'[b.turn + 1] # "none"
            BY <1>0, <2>3, <3>1
        <3>4. 1 \in Turns /\ 1 # b.turn + 1 /\ b.turn # b.turn + 1 /\ \A n \in Turns : n \in Nat
            BY <3>1, OneTurn
        <3> QED BY <1>0, <2>1, <2>3, <3>1, <3>2, <3>3, <3>4 DEF TurnsInv
    <2> QED BY <2>1, <2>2, <2>3
<1>12. CASE Repaired
    <2>1. b'.turn = b.turn + 1 /\ ~b'.term /\ turns' = turns /\ head.pc = "repaired" /\ head'.pc = "ready" /\ Pops
        BY <1>0, <1>12, RepairedMeans, PopsMeans DEF service, Pops
    <2>2. b.turn + 1 \in Turns /\ b.turn \in Turns /\ b.turn \in Nat \ {0} /\ turns[b.turn] = "end" /\ turns[b.turn + 1] # "none"
        BY <1>0, <2>1, HeadOfTurn, OneTurn DEF TurnsInv
    <2>3. \A n \in Turns : n \in Nat /\ (n < b.turn + 1 => n < b.turn \/ n = b.turn) /\ (n > b.turn + 1 => turns[n] = "none")
        BY <1>0, <2>2, OneTurn DEF TurnsInv
    <2> QED BY <1>0, <1>8, <2>1, <2>2, <2>3 DEF TurnsInv
<1>13. ASSUME NEW c \in Closers, Disconnect(c) \/ Dispose(c)
       PROVE  TurnsInv'
    <2>1. /\ b'.turn = b.turn /\ head' = head /\ b'.on = b.on
          /\ \A d \in Closers \ {c} : closer'[d] = closer[d]
        BY <1>0, <1>13, StopLeaves
    <2>2. CASE UNCHANGED <<b, turns>> /\ closer'[c] # "audit"
        BY <1>1, <2>1, <2>2
    <2>3. CASE /\ b.on /\ b'.term /\ closer'[c] = "audit"
               /\ \/ b.term /\ turns' = turns
                  \/ turns[b.turn] = "run" /\ turns' = [turns EXCEPT ![b.turn] = "abort"]
        <3>1. b.turn \in Turns /\ b.turn # 0 /\ b.turn \in Nat
            BY <1>0, <2>3, Begun
        <3>2. turns'[b.turn] # "run" /\ \A n \in Turns : turns'[n] = turns[n] \/ (turns[n] = "run" /\ turns'[n] = "abort")
            BY <1>0, <2>3, <3>1 DEF TurnsInv
        <3>3. turns'[1] # "run"
            <4>1. 1 \in Turns /\ (b.turn = 1 \/ 1 < b.turn)
                BY <3>1, OneTurn
            <4> QED BY <1>0, <3>2, <4>1 DEF TurnsInv
        <3> QED BY <1>0, <1>t, <2>1, <3>2, <3>3, TurnsHold
    <2> QED BY <1>0, <1>13, <2>2, <2>3, StopLeaves
<1>14. ASSUME NEW c \in Closers, InterruptHook(c)
       PROVE  TurnsInv'
    <2>1. UNCHANGED <<b, head, turns>> /\ \A d \in Closers : closer'[d] = "audit" => closer[d] = "audit"
        BY <1>0, <1>14, InterruptHookMeans DEF bridge, service
    <2> QED BY <1>1, <2>1
<1>15. ASSUME NEW c \in Closers, EndAudit(c)
       PROVE  TurnsInv'
    <2>1. b'.turn = b.turn /\ head' = head /\ b'.term = b.term /\ \A d \in Closers : closer'[d] = "audit" => closer[d] = "audit"
        BY <1>0, <1>15, EndAuditLeaves DEF GivesUp
    <2>2. turns' = turns
        BY <1>0, <1>15, EndAuditLeaves DEF service
    <2> QED BY <1>1, <2>1, <2>2
<1>16. CASE Hook \/ DecideApproval \/ ToolEnds
    <2>1. UNCHANGED <<b, head, turns, closer>>
        BY <1>0, <1>16, HookMeans, DecideApprovalMeans, ToolEndsMeans DEF bridge, service, hook
    <2> QED BY <1>1, <2>1
<1>17. CASE Service \/ EndTurn
    <2>1. UNCHANGED <<b, head, closer>>
        BY <1>0, <1>17, ServiceMeans DEF bridge, hook
    <2>2. \A n \in Turns : turns'[n] = turns[n] \/ (turns[n] \in {"run", "abort"} /\ turns'[n] \in {"abort", "end"})
        BY <1>0, <1>17, ServiceMeans
    <2> QED BY <1>0, <1>t, <2>1, <2>2, TurnsHold
<1> QED BY <1>3, <1>4, <1>5, <1>6, <1>7, <1>9, <1>10, <1>11, <1>12, <1>13, <1>14, <1>15, <1>16, <1>17 DEF Next, Start, Operation

----------------------------------------------------------------------------
(* What Codex is told *)

\* Whom a result is sent for, and what vouches for it.
LEMMA SentFrom ==
    ASSUME TypeOK, RepairInv, [Next]_vars, head'.pc = "deliver"
    PROVE  \/ head' = head
           \/ head'.send = "failed"
           \/ \E v \in View : /\ v = head.view \/ (queue # <<>> /\ v = Op.view)
                              /\ (head'.send = "ok" => v.ok /\ v.res = head'.tool)
                              /\ outcome' = outcome
<1>1. CASE ~Operation
    BY <1>1, AsideSteps DEF Aside
<1>2. ~Pops
    BY PopsMeans
<1>3. CASE ToolCall
    BY <1>2, <1>3, ToolCallMeans DEF HeadGoes
<1>4. CASE ToolAnswer
    <2>1. head.view \in View
        BY StateTyped
    <2> QED BY <1>2, <1>4, <2>1, ToolAnswerMeans DEF Delivers, backend
<1>5. CASE AcceptView
    <2>1. queue # <<>> /\ Op.view \in View
        BY <1>5, OpAt DEF AcceptView
    <2> QED BY <1>2, <1>5, <2>1, AcceptViewMeans DEF Delivers, backend
<1>6. CASE Drop \/ Deliver \/ FinalAnswer \/ Interrupt \/ Repaired
    BY <1>2, <1>6, DropMeans, DeliverMeans, FinalAnswerMeans, InterruptLeaves, RepairedMeans DEF Pops
<1>7. CASE Submit \/ Final \/ TurnOver \/ Repair
    BY <1>2, <1>7, SubmitMeans, FinalMeans, TurnOverLeaves, RepairMeans DEF HeadGoes
<1> QED BY <1>1, <1>3, <1>4, <1>5, <1>6, <1>7 DEF Operation

\* What an approved tool leaves to ask.
LEMMA AskedFrom ==
    ASSUME Inv, [Next]_vars, run'.st \in Waiting
    PROVE  run'.tool \in Tools /\ outcome'[run'.tool] = "asked"
<1>0. TypeOK /\ StartInv /\ HeadInv /\ ToldInv /\ run \in View
    BY StateTyped DEF Inv
<1>1. CASE UNCHANGED <<run, outcome>>
    BY <1>0, <1>1 DEF ToldInv
<1>2. CASE run' = FirstView \/ Cancels
    BY <1>2, FirstViewTyped DEF Waiting, Cancels, Over, Terminal
<1>3. CASE Submit
    <2>1. queue # <<>> /\ head.pc = "submit"
        BY <1>3 DEF Submit, Busy
    <2>2. CASE Op.k = "tool" /\ DecideTool(Op.tool)
        <3>1. Op.tool \in Tools
            BY <2>1, <2>2, OpKnown
        <3> QED BY <1>0, <2>2, <3>1, DecideToolMeans DEF Waiting
    <2>3. CASE DecideFinal
        BY <1>0, <2>3, DecideFinalMeans DEF Waiting
    <2>4. CASE UNCHANGED backend
        BY <1>1, <2>4 DEF backend
    <2> QED BY <1>0, <1>3, <2>2, <2>3, <2>4, SubmitMeans
<1>4. CASE DecideApproval
    <2>1. run.st \in Waiting
        BY <1>0, <1>4, DecideApprovalMeans DEF Waiting
    <2> QED BY <1>0, <1>4, <2>1, DecideApprovalMeans DEF ToldInv, Waiting
<1>5. CASE ToolEnds
    BY <1>0, <1>5, ToolEndsMeans DEF Waiting
<1> QED BY <1>0, <1>1, <1>2, <1>3, <1>4, <1>5, RunChanges

LEMMA ToldStep ==
    ASSUME Inv, [Next]_vars
    PROVE  ToldInv'
<1>0. TypeOK /\ StartInv /\ HeadInv /\ RepairInv /\ ViewsInv /\ ToldInv
    BY DEF Inv
<1>1. \A t \in Tools : outcome[t] = "ok" => outcome'[t] = "ok"
    BY <1>0, OutcomeSteady
<1>2. ToldIsBackends'
    <2>1. ASSUME NEW t \in Tools, tool'[t] = "ok"
          PROVE  outcome'[t] = "ok"
        <3>1. CASE tool[t] = "ok"
            BY <1>0, <1>1, <3>1 DEF ToldInv, ToldIsBackends
        <3>2. CASE Deliver /\ t = head.tool /\ head.send = "ok"
            BY <1>0, <1>1, <3>2, DeliverMeans DEF ToldInv
        <3>3. CASE Deliver
            BY <1>0, <2>1, <3>1, <3>2, <3>3, DeliverMeans
        <3>4. CASE Service \/ EndTurn
            BY <1>0, <2>1, <3>1, <3>4, ServiceMeans
        <3>5. CASE tool' = tool
            BY <2>1, <3>1, <3>5
        <3>6. CASE StartDone \/ Submit \/ ToolAnswer \/ AcceptView \/ FinalAnswer \/ TurnOver \/ Interrupt
            BY <1>0, <3>5, <3>6, StartDoneMeans, SubmitMeans, ToolAnswerMeans, AcceptViewMeans, FinalAnswerMeans, TurnOverLeaves,
               InterruptLeaves DEF service
        <3>7. CASE DecideApproval \/ ToolEnds \/ Hook
            BY <1>0, <3>5, <3>7, DecideApprovalMeans, ToolEndsMeans, HookMeans DEF service
        <3>8. CASE \E c \in Closers : InterruptHook(c) \/ Disconnect(c) \/ Dispose(c) \/ EndAudit(c)
            BY <3>5, <3>8 DEF InterruptHook, Disconnect, Dispose, EndAudit, service
        <3>9. CASE StartLocal \/ StartUndo \/ StartAudit \/ Read \/ Drop \/ ToolCall \/ Final \/ Repair \/ UNCHANGED vars
            BY <3>5, <3>9 DEF StartLocal, StartUndo, StartAudit, Read, Drop, ToolCall, Final, Repair, service, vars
        <3>10. CASE Repaired
            BY <3>5, <3>10 DEF Repaired, service
        <3> QED BY <3>3, <3>4, <3>6, <3>7, <3>8, <3>9, <3>10 DEF Next, Start, Operation
    <2> QED BY <2>1 DEF ToldIsBackends
<1>3. head'.pc = "deliver" /\ head'.send = "ok" /\ head'.tool \in Tools => outcome'[head'.tool] = "ok"
    <2> SUFFICES ASSUME head'.pc = "deliver", head'.send = "ok", head'.tool \in Tools
                 PROVE  outcome'[head'.tool] = "ok"
        OBVIOUS
    <2>1. CASE head' = head
        BY <1>0, <1>1, <2>1 DEF ToldInv
    <2>2. ASSUME NEW v \in View, v = head.view \/ (queue # <<>> /\ v = Op.view), v.ok, v.res = head'.tool
          PROVE  outcome'[head'.tool] = "ok"
        <3>1. TrueView(v)
            BY <1>0, <2>2, OpKnown DEF ViewsInv, ItemOK
        <3> QED BY <1>1, <2>2, <3>1 DEF TrueView
    <2> QED BY <1>0, <2>1, <2>2, SentFrom
<1>4. \A t \in Tools : outcome'[t] # "none" => tool'[t] # "none"
    <2> SUFFICES ASSUME NEW t \in Tools, outcome'[t] # "none"
                 PROVE  tool'[t] # "none"
        OBVIOUS
    <2>1. tool[t] # "none"
        <3>1. CASE outcome[t] # "none"
            BY <1>0, <3>1 DEF ToldInv
        <3>2. CASE Submit /\ Op.k = "tool" /\ t = Op.tool
            BY <3>2, OpKnown DEF Submit, Busy
        <3> QED BY <1>0, <3>1, <3>2, OutcomeSteady
    <2> QED BY <1>0, <2>1, ToolSteady
<1> QED BY <1>2, <1>3, <1>4, AskedFrom DEF ToldInv

----------------------------------------------------------------------------
(* An idle bridge and a bridge that gave up its run *)

\* How a turn changes.
LEMMA TurnChanges ==
    ASSUME Inv, [Next]_vars, NEW n \in Turns
    PROVE  \/ turns'[n] = turns[n]
           \/ StartLocal /\ start = "idle" /\ n = 1 /\ turns'[n] = "run"
           \/ Repair /\ head.pc = "repair" /\ HeadGoes("repaired") /\ n = b.turn + 1 /\ turns'[n] = IF live THEN "run" ELSE "abort"
           \/ turns[n] = "run" /\ turns'[n] = "abort" /\ (StartUndo \/ LoseStream \/ \E c \in Closers : Disconnect(c) \/ Dispose(c))
           \/ EndTurn /\ turns[n] \in {"run", "abort"} /\ turns'[n] = "end"
<1>0. TypeOK /\ StartInv /\ RepairInv /\ turns \in [Turns -> {"none", "run", "abort", "end"}]
    BY DEF Inv, TypeOK
<1>1. CASE UNCHANGED vars \/ StartAudit \/ Read \/ Drop \/ ToolCall \/ Submit \/ ToolAnswer \/ AcceptView \/ Deliver \/ Final \/ FinalAnswer
    <2>1. turns' = turns
        BY <1>0, <1>1, DropMeans, ToolCallMeans, SubmitMeans, ToolAnswerMeans, AcceptViewMeans, DeliverMeans, FinalMeans,
           FinalAnswerMeans DEF vars, service, StartAudit, Read
    <2> QED BY <2>1
<1>2. CASE StartDone \/ TurnOver \/ Interrupt \/ Repaired \/ Hook \/ DecideApproval \/ ToolEnds
    <2>1. turns' = turns
        BY <1>0, <1>2, StartDoneMeans, TurnOverLeaves, InterruptLeaves, RepairedMeans, HookMeans, DecideApprovalMeans,
           ToolEndsMeans DEF service
    <2> QED BY <2>1
<1>3. CASE \E c \in Closers : InterruptHook(c) \/ EndAudit(c)
    <2>1. turns' = turns
        BY <1>0, <1>3, InterruptHookMeans, EndAuditLeaves DEF service
    <2> QED BY <2>1
<1>4. CASE StartLocal
    <2>1. start = "idle" /\ (turns' = turns \/ turns' = [turns EXCEPT ![1] = "run"])
        BY <1>4 DEF StartLocal
    <2> QED BY <1>0, <1>4, <2>1
<1>5. CASE StartUndo
    <2>1. turns' = turns \/ (turns[1] = "run" /\ turns' = [turns EXCEPT ![1] = "abort"])
        BY <1>5 DEF StartUndo, CancelTurn, NoCancel
    <2> QED BY <1>0, <1>5, <2>1
<1>6. CASE Repair
    <2>1. head.pc = "repair" /\ (turns' = turns \/ (HeadGoes("repaired") /\ turns' = [turns EXCEPT ![b.turn + 1] = IF live THEN "run" ELSE "abort"]))
        BY <1>0, <1>6, RepairMeans
    <2> QED BY <1>0, <1>6, <2>1
<1>7. ASSUME NEW c \in Closers, Disconnect(c) \/ Dispose(c)
      PROVE  turns'[n] = turns[n] \/ (turns[n] = "run" /\ turns'[n] = "abort")
    <2>1. turns' = turns \/ (turns[b.turn] = "run" /\ turns' = [turns EXCEPT ![b.turn] = "abort"])
        BY <1>0, <1>7, StopLeaves
    <2> QED BY <1>0, <2>1
<1>8. CASE CallTool \/ ToolTimeout
    <2>1. turns' = turns
        BY <1>8 DEF CallTool, ToolTimeout
    <2> QED BY <2>1
<1>9. CASE LoseStream
    <2>1. turns'[n] = IF turns[n] = "run" THEN "abort" ELSE turns[n]
        BY <1>9 DEF LoseStream
    <2> QED BY <1>9, <2>1
<1>10. CASE EndTurn
    <2>1. PICK m \in Turns : turns[m] \in {"run", "abort"} /\ turns' = [turns EXCEPT ![m] = "end"]
        BY <1>10 DEF EndTurn
    <2> QED BY <1>0, <1>10, <2>1
<1> QED BY <1>1, <1>2, <1>3, <1>4, <1>5, <1>6, <1>7, <1>8, <1>9, <1>10 DEF Next, Start, Operation, Service

\* How the bridge takes up its run and gives it up.
LEMMA OnSteady ==
    ASSUME TypeOK, RepairInv, [Next]_vars
    PROVE  /\ start' = "done" => start = "done" \/ (StartDone /\ state' = "reasoning")
           /\ \/ b'.on = b.on
              \/ StartDone /\ start = "audit" /\ b'.on
              \/ b.on /\ TurnOver /\ Over(b.view) /\ Pops
              \/ b.on /\ Interrupt /\ (Over(b.view) \/ InterruptRun(b.view.ver))
              \/ b.on /\ \E c \in Closers : EndAudit(c)
<1>1. CASE StartDone
    BY <1>1, StartDoneMeans
<1>2. CASE UNCHANGED vars \/ StartLocal \/ StartAudit \/ StartUndo \/ Read \/ Drop \/ ToolCall \/ Submit \/ ToolAnswer \/ AcceptView \/ Deliver
    BY <1>2, DropMeans, ToolCallMeans, SubmitMeans, ToolAnswerMeans, AcceptViewMeans, DeliverMeans
    DEF vars, bridge, StartLocal, StartAudit, StartUndo, Read, KeepsRun
<1>3. CASE Final \/ FinalAnswer \/ Repair \/ Repaired \/ Hook \/ DecideApproval \/ ToolEnds \/ Service \/ EndTurn
    BY <1>3, FinalMeans, FinalAnswerMeans, RepairMeans, RepairedMeans, HookMeans, DecideApprovalMeans, ToolEndsMeans,
       ServiceMeans DEF bridge
<1>4. CASE TurnOver
    BY <1>4, TurnOverLeaves
<1>5. CASE Interrupt
    <2>1. start' = start
        BY <1>5, InterruptLeaves
    <2>2. b' = b \/ (b'.on = FALSE /\ (Over(b.view) \/ InterruptRun(b.view.ver)))
        BY <1>5, InterruptLeaves DEF GivesUp
    <2>3. b.on \in BOOLEAN
        BY StateTyped
    <2> QED BY <1>5, <2>1, <2>2, <2>3
<1>6. ASSUME NEW c \in Closers, InterruptHook(c) \/ Disconnect(c) \/ Dispose(c)
      PROVE  start' = start /\ b'.on = b.on
    BY <1>6, InterruptHookMeans, StopLeaves DEF bridge
<1>7. ASSUME NEW c \in Closers, EndAudit(c)
      PROVE  start' = start /\ (b'.on = b.on \/ b.on)
    <2>1. start' = start /\ (b' = b \/ b'.on = FALSE)
        BY <1>7, EndAuditLeaves DEF GivesUp
    <2>2. b.on \in BOOLEAN
        BY StateTyped
    <2> QED BY <2>1, <2>2
<1> QED BY <1>1, <1>2, <1>3, <1>4, <1>5, <1>6, <1>7 DEF Next, Start, Operation

\* How a bridge becomes idle.
LEMMA IdleFrom ==
    ASSUME TypeOK, RepairInv, [Next]_vars, start' = "done", state' = "idle"
    PROVE  start = "done" /\ (state = "idle" \/ (TurnOver /\ Over(b.view) /\ Pops /\ ~b'.on))
<1>1. start = "done" /\ ~StartDone
    BY OnSteady, StartDoneMeans
<1>2. CASE UNCHANGED vars \/ StartLocal \/ StartAudit \/ StartUndo \/ Read \/ Drop \/ ToolCall \/ Submit \/ ToolAnswer \/ AcceptView \/ Deliver
    BY <1>1, <1>2, DropMeans, ToolCallMeans, SubmitMeans, ToolAnswerMeans, AcceptViewMeans, DeliverMeans
    DEF vars, bridge, StartLocal, StartAudit, StartUndo, Read
<1>3. CASE Final \/ FinalAnswer \/ Repair \/ Repaired \/ Hook \/ DecideApproval \/ ToolEnds \/ Service \/ EndTurn
    BY <1>1, <1>3, FinalMeans, FinalAnswerMeans, RepairMeans, RepairedMeans, HookMeans, DecideApprovalMeans, ToolEndsMeans,
       ServiceMeans DEF bridge
<1>4. CASE TurnOver \/ Interrupt
    BY <1>1, <1>4, TurnOverLeaves, InterruptLeaves
<1>5. ASSUME NEW c \in Closers, InterruptHook(c) \/ Disconnect(c) \/ Dispose(c) \/ EndAudit(c)
      PROVE  state = "idle"
    BY <1>5, InterruptHookMeans, StopLeaves, EndAuditLeaves DEF bridge
<1> QED BY <1>1, <1>2, <1>3, <1>4, <1>5 DEF Next, Start, Operation

\* Without a run the operation at the head stays where it was or ends.
LEMMA OffHead ==
    ASSUME TypeOK, RepairInv, [Next]_vars, ~b.on, head.pc = "ready"
    PROVE  head'.pc = "ready"
<1>1. CASE ~Operation
    BY <1>1, AsideSteps DEF Aside
<1>2. CASE Operation
    BY <1>2, DropMeans, ToolCallMeans, SubmitMeans, ToolAnswerMeans, AcceptViewMeans, DeliverMeans, FinalMeans, FinalAnswerMeans,
       TurnOverLeaves, InterruptLeaves, RepairMeans, RepairedMeans, PopsMeans DEF Operation, Submit, Busy
<1> QED BY <1>1, <1>2

\* No turn works on once the bridge took up the end of its own.
LEMMA TurnsOver ==
    ASSUME Inv, b.turn # 0, head.pc = "ready", turns[b.turn] = "end", NEW n \in Turns
    PROVE  turns[n] # "run"
<1>1. b.turn \in Turns /\ b.turn \in Nat /\ n \in Nat
    BY HeadOfTurn, OneTurn
<1>2. n < b.turn \/ n = b.turn \/ n > b.turn
    BY <1>1
<1> QED BY <1>2 DEF Inv, TurnsInv

LEMMA IdleStep ==
    ASSUME Inv, [Next]_vars
    PROVE  IdleInv'
<1>0. TypeOK /\ StartInv /\ RepairInv /\ ViewsInv /\ IdleInv
    BY DEF Inv
<1> SUFFICES ASSUME start' = "done", state' = "idle"
             PROVE  ~b'.on /\ head'.pc = "ready" /\ Over(run') /\ \A n \in Turns : turns'[n] # "run"
    BY DEF IdleInv, Over
<1>1. CASE start = "done" /\ state = "idle"
    <2>1. ~b.on /\ head.pc = "ready" /\ Over(run) /\ \A n \in Turns : turns[n] # "run"
        BY <1>0, <1>1 DEF IdleInv
    <2>2. run' = run
        BY <1>0, <2>1, RunSteady
    <2>3. ~b'.on
        BY <1>0, <1>1, <2>1, OnSteady
    <2>4. \A n \in Turns : turns'[n] # "run"
        BY <1>1, <2>1, TurnChanges
    <2> QED BY <1>0, <2>1, <2>2, <2>3, <2>4, OffHead
<1>2. CASE TurnOver /\ Over(b.view) /\ Pops /\ ~b'.on
    <2>1. Over(run)
        BY <1>0, <1>2 DEF ViewsInv, TrueView
    <2>2. run' = run
        BY <1>0, <2>1, RunSteady
    <2>3. b.on /\ head.pc = "ready" /\ turns[b.turn] = "end" /\ turns' = turns
        BY <1>0, <1>2, TurnOverLeaves, OpKnown DEF service
    <2>4. b.turn # 0
        BY <1>0, <2>3, Begun
    <2> QED BY <1>0, <1>2, <2>1, <2>2, <2>3, <2>4, TurnsOver, PopsMeans
<1> QED BY <1>0, <1>1, <1>2, IdleFrom

LEMMA ClosedStep ==
    ASSUME Inv, [Next]_vars
    PROVE  ClosedEndsRun'
<1>0. TypeOK /\ StartInv /\ RepairInv /\ ViewsInv /\ TurnsInv /\ ClosedEndsRun
    BY DEF Inv
<1> SUFFICES ASSUME start' = "done", ~b'.on, \A c \in Closers : closer'[c] # "error"
             PROVE  Over(run') /\ turns'[1] # "run"
    BY DEF ClosedEndsRun, Over
<1>1. start = "done" /\ ~StartDone
    BY <1>0, OnSteady, StartDoneMeans
<1>2. \A c \in Closers : closer[c] # "error"
    <2> SUFFICES ASSUME NEW c \in Closers, closer[c] = "error"
                 PROVE  FALSE
        OBVIOUS
    <2>1. Pops /\ c = Op.by
        BY <1>0, CloserChanges
    <2>2. closer[c] = "accept"
        BY <1>0, <2>1, OpKnown DEF ItemOK, Pops
    <2> QED BY <2>2
<1>3. 1 \in Turns
    BY OneTurn
<1>4. ASSUME turns[1] # "run"
      PROVE  turns'[1] # "run"
    <2>1. head.pc = "repair" => 1 # b.turn + 1
        BY HeadOfTurn, OneTurn
    <2> QED BY <1>1, <1>3, <1>4, <2>1, TurnChanges
<1>5. ASSUME Over(run) \/ InterruptRun(b.view.ver)
      PROVE  Over(run')
    BY <1>0, <1>5, RunSteady, InterruptRunMeans DEF Over
<1>6. Over(b.view) => Over(run)
    BY <1>0 DEF ViewsInv, TrueView
<1>7. CASE ~b.on
    BY <1>0, <1>1, <1>2, <1>4, <1>5, <1>7 DEF ClosedEndsRun
<1>8. ASSUME NEW c \in Closers, EndAudit(c)
      PROVE  Over(run') /\ turns'[1] # "run"
    <2>1. closer'[c] # "error"
        OBVIOUS
    <2>2. closer[c] = "audit" /\ (Over(b.view) \/ InterruptRun(b.view.ver))
        BY <1>0, <1>8, <2>1, EndAuditLeaves
    <2> QED BY <1>0, <1>4, <1>5, <1>6, <2>2 DEF TurnsInv
<1>9. ASSUME b.on, (TurnOver /\ Over(b.view)) \/ (Interrupt /\ (Over(b.view) \/ InterruptRun(b.view.ver)))
      PROVE  Over(run') /\ turns'[1] # "run"
    <2>1. turns[b.turn] = "end" /\ b.turn # 0
        BY <1>0, <1>9, TurnOverLeaves, InterruptLeaves, OpKnown, HeadOfTurn, Begun
    <2>2. turns[1] # "run"
        BY <2>1, FirstTurn
    <2> QED BY <1>4, <1>5, <1>6, <1>9, <2>2
<1>10. b.on \in BOOLEAN
    BY <1>0, StateTyped
<1> QED BY <1>0, <1>1, <1>7, <1>8, <1>9, <1>10, OnSteady

----------------------------------------------------------------------------
(* The calm: neither a fault nor anybody who stops the run *)

\* Only an operation ends the operation at the head.
LEMMA PopsOperation ==
    ASSUME TypeOK, [Next]_vars, Pops
    PROVE  Operation
BY AsideSteps, NotPops DEF Aside

\* How the queue and the wire change.
LEMMA QueueChanges ==
    ASSUME TypeOK, RepairInv, [Next]_vars
    PROVE  \/ wire' = wire /\ queue' = queue
           \/ wire' = wire /\ \E e \in Item : e.k = "view" /\ queue' = Append(queue, e)
           \/ wire' = wire /\ Pops
           \/ wire # <<>> /\ queue' = Append(queue, Head(wire)) /\ wire' = Tail(wire)
           \/ queue' = queue /\ \E n \in Turns : \E u \in Seq(Item) : /\ turns[n] \in {"run", "abort"} /\ wire' \in {wire, wire \o u}
                                                                     /\ \A i \in DOMAIN u : u[i].turn = n
           \/ queue' = queue /\ LoseStream /\ wire' = <<>>
<1>1. CASE StartLocal \/ StartUndo \/ StartAudit \/ UNCHANGED vars \/ ToolEnds \/ ToolTimeout
    BY <1>1 DEF StartLocal, StartUndo, StartAudit, ToolEnds, ToolTimeout, vars, service
<1>2. CASE StartDone \/ Submit \/ Repair
    BY <1>2, StartDoneMeans, SubmitMeans, RepairMeans DEF service, HeadGoes
<1>3. CASE Drop \/ Deliver \/ FinalAnswer \/ Interrupt \/ Repaired
    BY <1>3, DropMeans, DeliverMeans, FinalAnswerMeans, InterruptLeaves, RepairedMeans DEF service, Pops
<1>4. CASE ToolCall \/ Final \/ TurnOver \/ ToolAnswer \/ AcceptView
    BY <1>4, ToolCallMeans, FinalMeans, TurnOverLeaves, ToolAnswerMeans, AcceptViewMeans DEF service, HeadGoes, Delivers
<1>5. ASSUME NEW c \in Closers, InterruptHook(c)
      PROVE  wire' = wire /\ (queue' = queue \/ \E e \in Item : e.k = "view" /\ queue' = Append(queue, e))
    <2>1. run' \in View => ViewItem(run', c) \in Item /\ ViewItem(run', c).k = "view"
        BY ViewItemTyped
    <2> QED BY <1>5, <2>1, InterruptHookMeans DEF service
<1>6. ASSUME NEW c \in Closers, Disconnect(c) \/ Dispose(c) \/ EndAudit(c)
      PROVE  wire' = wire /\ queue' = queue
    BY <1>6 DEF Disconnect, Dispose, EndAudit, service
<1>7. CASE Hook
    <2>1. ViewItem(refresh.view, "hook") \in Item /\ ViewItem(refresh.view, "hook").k = "view"
        BY ViewItemTyped, StateTyped
    <2> QED BY <1>7, <2>1, HookMeans DEF service
<1>8. CASE DecideApproval
    <2>1. run' \in View => ViewItem(run', "stream") \in Item /\ ViewItem(run', "stream").k = "view"
        BY ViewItemTyped
    <2> QED BY <1>8, <2>1, DecideApprovalMeans DEF service
<1>9. CASE Read \/ LoseStream
    BY <1>9 DEF Read, LoseStream
<1>10. CASE CallTool
    <2>1. PICK t \in Tools, n \in Turns : turns[n] = "run" /\ wire' = wire \o <<Event("tool", n, t)>> /\ queue' = queue
        BY <1>10, CallToolMeans
    <2>2. PICK e \in Item : e = Event("tool", n, t) /\ e.turn = n
        BY EventTyped
    <2>3. <<e>> \in Seq(Item) /\ \A i \in DOMAIN <<e>> : <<e>>[i].turn = n
        BY <2>2
    <2> QED BY <2>1, <2>2, <2>3
<1>11. CASE EndTurn
    <2>1. PICK n \in Turns : \E u \in LastWords(n) : turns[n] \in {"run", "abort"} /\ Tell(u) /\ queue' = queue
        BY <1>11, EndTurnMeans
    <2>2. PICK u \in LastWords(n) : Tell(u)
        BY <2>1
    <2>3. u \in Seq(Item) /\ \A i \in DOMAIN u : u[i].turn = n
        BY LastWordsTyped
    <2> QED BY <2>1, <2>2, <2>3 DEF Tell
<1> QED BY <1>1, <1>2, <1>3, <1>4, <1>5, <1>6, <1>7, <1>8, <1>9, <1>10, <1>11 DEF Next, Start, Operation, Service

\* The end of a turn stays on its way until the bridge has dealt with it.
LEMMA EndQueuedStays ==
    ASSUME TypeOK, RepairInv, [Next]_vars, ~LoseStream, NEW n \in Turns, EndQueued(n)
    PROVE  EndQueued(n)' \/ (Pops /\ Op.k \in LastEvents /\ Op.turn = n)
<1>1. queue \in Seq(Item) /\ wire \in Seq(Item)
    BY StateTyped
<1>2. ASSUME UNCHANGED <<queue, wire>>
      PROVE  EndQueued(n)'
    BY <1>2 DEF EndQueued
<1>3. ASSUME NEW e \in Item, queue' = Append(queue, e), wire' = wire
      PROVE  EndQueued(n)'
    BY <1>1, <1>3, AppendFacts DEF EndQueued
<1>4. ASSUME Pops, wire' = wire
      PROVE  EndQueued(n)' \/ (Op.k \in LastEvents /\ Op.turn = n)
    <2>1. queue # <<>> /\ queue' = Tail(queue)
        BY <1>4, PopsMeans
    <2>2. \A i \in DOMAIN queue : queue[i] = Op \/ (i - 1 \in DOMAIN queue' /\ queue'[i - 1] = queue[i])
        BY <1>1, <2>1, TailFacts DEF Op
    <2> QED BY <1>4, <2>2 DEF EndQueued
<1>5. ASSUME wire # <<>>, queue' = Append(queue, Head(wire)), wire' = Tail(wire)
      PROVE  EndQueued(n)'
    <2>1. PICK e \in Item : e = Head(wire)
        BY <1>5, StateTyped
    <2>2. \A i \in DOMAIN wire : wire[i] = e \/ (i - 1 \in DOMAIN wire' /\ wire'[i - 1] = wire[i])
        BY <1>1, <1>5, <2>1, TailFacts
    <2>3. /\ \A i \in DOMAIN queue : i \in DOMAIN queue' /\ queue'[i] = queue[i]
          /\ Len(queue) + 1 \in DOMAIN queue' /\ queue'[Len(queue) + 1] = e
        BY <1>1, <1>5, <2>1, AppendFacts
    <2> QED BY <2>2, <2>3 DEF EndQueued
<1>6. ASSUME NEW u \in Seq(Item), wire' = wire \o u, queue' = queue
      PROVE  EndQueued(n)'
    BY <1>1, <1>6, ConcatFacts DEF EndQueued
<1> QED BY <1>2, <1>3, <1>4, <1>5, <1>6, QueueChanges

\* A turn that has ended sends nothing more.
NoneLeft(n) ==
    /\ \A i \in DOMAIN queue : queue[i].k # "view" => queue[i].turn # n
    /\ \A i \in DOMAIN wire : wire[i].turn # n
LEMMA NoneLeftStays ==
    ASSUME TypeOK, RepairInv, [Next]_vars, NEW n \in Turns, turns[n] = "end", NoneLeft(n)
    PROVE  NoneLeft(n)'
<1>1. queue \in Seq(Item) /\ wire \in Seq(Item)
    BY StateTyped
<1>2. ASSUME UNCHANGED <<queue, wire>>
      PROVE  NoneLeft(n)'
    BY <1>2 DEF NoneLeft
<1>3. ASSUME NEW e \in Item, e.k = "view" \/ e.turn # n, queue' = Append(queue, e)
      PROVE  \A i \in DOMAIN queue' : queue'[i].k # "view" => queue'[i].turn # n
    <2>1. \A i \in DOMAIN queue' : queue'[i] = e \/ (i \in DOMAIN queue /\ queue'[i] = queue[i])
        BY <1>1, <1>3, AppendFacts
    <2> QED BY <1>3, <2>1 DEF NoneLeft
<1>4. ASSUME Pops, wire' = wire
      PROVE  NoneLeft(n)'
    <2>1. queue # <<>> /\ queue' = Tail(queue)
        BY <1>4, PopsMeans
    <2>2. \A i \in DOMAIN queue' : i + 1 \in DOMAIN queue /\ queue'[i] = queue[i + 1]
        BY <1>1, <2>1, TailFacts
    <2> QED BY <1>4, <2>2 DEF NoneLeft
<1>5. ASSUME wire # <<>>, queue' = Append(queue, Head(wire)), wire' = Tail(wire)
      PROVE  NoneLeft(n)'
    <2>1. PICK e \in Item : e = Head(wire)
        BY <1>5, StateTyped
    <2>2. /\ \A i \in DOMAIN wire' : i + 1 \in DOMAIN wire /\ wire'[i] = wire[i + 1]
          /\ 1 \in DOMAIN wire /\ e = wire[1]
        BY <1>1, <1>5, <2>1, TailFacts
    <2>3. e.turn # n
        BY <2>2 DEF NoneLeft
    <2> QED BY <1>3, <1>5, <2>1, <2>2, <2>3 DEF NoneLeft
<1>6. ASSUME NEW m \in Turns, NEW u \in Seq(Item), turns[m] \in {"run", "abort"}, wire' = wire \o u, queue' = queue,
             \A i \in DOMAIN u : u[i].turn = m
      PROVE  NoneLeft(n)'
    <2>1. m # n
        BY <1>6
    <2>2. \A i \in DOMAIN wire' : (i \in DOMAIN wire /\ wire'[i] = wire[i]) \/ \E j \in DOMAIN u : wire'[i] = u[j]
        BY <1>1, <1>6, ConcatFacts
    <2> QED BY <1>6, <2>1, <2>2 DEF NoneLeft
<1>7. ASSUME queue' = queue, wire' = <<>>
      PROVE  NoneLeft(n)'
    <2>1. DOMAIN wire' = {}
        BY <1>7
    <2> QED BY <1>7, <2>1 DEF NoneLeft
<1> QED BY <1>2, <1>3, <1>4, <1>5, <1>6, <1>7, QueueChanges DEF NoneLeft

\* In the calm nothing rejects, disposes, breaks or aborts.
LEMMA CalmStands ==
    ASSUME Inv, [Next]_vars, Calm'
    PROVE  /\ activation' # "rejected" /\ ~disposed' /\ start' \notin {"undo", "failed"} /\ live'
           /\ b'.turn # 0 => activation' = "ok"
           /\ \A n \in Turns : turns'[n] # "abort"
<1>0. TypeOK /\ StartInv /\ RepairInv /\ CalmInv /\ activation \in {"open", "ok", "rejected"}
    BY DEF Inv, TypeOK
<1>1. /\ Calm /\ \A f : ~Fails(f)
      /\ \A c \in Closers : ~Disconnect(c) /\ ~Dispose(c) /\ ~EndAudit(c) /\ ~InterruptHook(c)
    BY <1>0, CalmStep
<1>2. /\ activation # "rejected" /\ ~disposed /\ start \notin {"undo", "failed"} /\ live
      /\ b.turn # 0 => activation = "ok"
      /\ \A n \in Turns : turns[n] # "abort"
    BY <1>0, <1>1 DEF CalmInv, CalmFacts
<1>3. ~LoseStream /\ ~StartUndo /\ ~ToolTimeout
    BY <1>1, <1>2 DEF LoseStream, StartUndo, ToolTimeout
<1>4. live'
    <2>1. CASE StartLocal \/ StartAudit \/ Read \/ UNCHANGED vars
        BY <1>2, <2>1 DEF StartLocal, StartAudit, Read, vars, service
    <2>2. CASE StartDone \/ Drop \/ ToolCall \/ Submit \/ ToolAnswer \/ AcceptView \/ Deliver \/ Final \/ FinalAnswer
        BY <1>0, <1>2, <2>2, StartDoneMeans, DropMeans, ToolCallMeans, SubmitMeans, ToolAnswerMeans, AcceptViewMeans,
           DeliverMeans, FinalMeans, FinalAnswerMeans DEF service
    <2>3. CASE TurnOver \/ Interrupt \/ Repair \/ Repaired \/ Hook \/ DecideApproval \/ ToolEnds
        BY <1>0, <1>2, <2>3, TurnOverLeaves, InterruptLeaves, RepairMeans, RepairedMeans, HookMeans, DecideApprovalMeans,
           ToolEndsMeans DEF service
    <2>4. CASE CallTool \/ EndTurn
        BY <1>2, <2>4 DEF CallTool, EndTurn
    <2> QED BY <1>1, <1>3, <2>1, <2>2, <2>3, <2>4 DEF Next, Start, Operation, Service
<1>5. \A n \in Turns : turns'[n] # "abort"
    <2> SUFFICES ASSUME NEW n \in Turns
                 PROVE  turns'[n] # "abort"
        OBVIOUS
    <2> QED BY <1>1, <1>2, <1>3, TurnChanges
<1>6. CASE StartDone
    <2>1. start' = "done" /\ disposed' = disposed /\ Settle("ok")
        BY <1>0, <1>2, <1>6, StartDoneMeans
    <2> QED BY <1>0, <1>2, <1>4, <1>5, <2>1 DEF Settle
<1>7. CASE UNCHANGED <<activation, disposed>> /\ (b.turn = 0 => b'.turn = 0) /\ start' \in {start, "local", "audit"}
    BY <1>2, <1>4, <1>5, <1>7
<1>8. CASE StartLocal \/ StartAudit
    <2>1. UNCHANGED <<activation, disposed, b>> /\ start' \in {"local", "audit"}
        BY <1>1, <1>2, <1>8 DEF StartLocal, StartAudit
    <2> QED BY <1>7, <2>1
<1>9. CASE Operation
    <2>1. UNCHANGED <<activation, disposed>>
        <3>1. CASE Drop \/ ToolCall \/ Submit \/ ToolAnswer \/ AcceptView \/ Deliver \/ Final \/ FinalAnswer
            BY <1>0, <3>1, DropMeans, ToolCallMeans, SubmitMeans, ToolAnswerMeans, AcceptViewMeans, DeliverMeans,
               FinalMeans, FinalAnswerMeans DEF bridge
        <3>2. CASE TurnOver \/ Interrupt \/ Repair \/ Repaired
            BY <1>0, <3>2, TurnOverLeaves, InterruptLeaves, RepairMeans, RepairedMeans DEF bridge
        <3> QED BY <1>9, <3>1, <3>2 DEF Operation
    <2>2. start' = start /\ (b.turn = 0 => b'.turn = 0)
        BY <1>0, <1>9, OperationBegun
    <2> QED BY <1>7, <2>1, <2>2
<1>10. CASE Read \/ Hook \/ DecideApproval \/ ToolEnds \/ Service \/ EndTurn \/ UNCHANGED vars
    <2>1. UNCHANGED bridge
        BY <1>0, <1>10, HookMeans, DecideApprovalMeans, ToolEndsMeans, ServiceMeans DEF Read, vars
    <2> QED BY <1>7, <2>1 DEF bridge
<1> QED BY <1>1, <1>3, <1>6, <1>8, <1>9, <1>10 DEF Next, Start

\* How the turn the bridge works on changes.
LEMMA TurnFrom ==
    ASSUME TypeOK, StartInv, RepairInv, [Next]_vars
    PROVE  \/ b'.turn = b.turn
           \/ StartDone /\ b.turn = 0 /\ b'.turn = 1 /\ b.pending = NoTool /\ b'.pending = NoTool
           \/ Repaired /\ head.pc = "repaired" /\ b'.turn = b.turn + 1 /\ b'.on = b.on /\ b'.pending = b.pending
<1>1. CASE StartDone
    BY <1>1, StartDoneMeans, Begun DEF StartInv
<1>2. CASE ~Operation
    BY <1>1, <1>2, AsideSteps
<1>3. CASE Drop \/ ToolCall \/ Submit \/ ToolAnswer \/ AcceptView \/ Deliver \/ Final \/ FinalAnswer
    BY <1>3, DropMeans, ToolCallMeans, SubmitMeans, ToolAnswerMeans, AcceptViewMeans, DeliverMeans,
       FinalMeans, FinalAnswerMeans DEF bridge, KeepsRun
<1>4. CASE TurnOver \/ Interrupt \/ Repair \/ Repaired
    BY <1>4, TurnOverLeaves, InterruptLeaves, RepairMeans, RepairedMeans DEF bridge, GivesUp
<1> QED BY <1>2, <1>3, <1>4 DEF Operation

\* In the calm a result reaches Codex.
LEMMA CalmDelivers ==
    ASSUME Inv, [Next]_vars, Calm', Deliver
    PROVE  b'.pending = NoTool
<1>0. TypeOK /\ RepairInv /\ CalmInv
    BY DEF Inv
<1>1. Calm /\ \A f : ~Fails(f)
    BY <1>0, CalmStep
<1>2. head.pc = "deliver"
    BY <1>0, DeliverMeans
<1>3. head.tool = b.pending /\ tool[b.pending] = "open"
    BY <1>0, <1>1, <1>2 DEF CalmInv, CalmFacts
<1> QED BY <1>0, <1>1, <1>3, DeliverMeans

\* In the calm the pending tool call waits in a turn that runs.
LEMMA CalmPending ==
    ASSUME Inv, [Next]_vars, Calm', b'.pending # NoTool
    PROVE  tool'[b'.pending] = "open" /\ (b'.turn # 0 => turns'[b'.turn] # "end")
<1>0. TypeOK /\ StartInv /\ RepairInv /\ ItemsInv /\ CalmInv /\ b'.pending \in Tools \cup {NoTool}
    <2>1. TypeOK /\ StartInv /\ RepairInv /\ ItemsInv /\ CalmInv
        BY DEF Inv
    <2>2. TypeOK'
        BY <2>1, TypeStep
    <2>3. b' \in Bridge
        BY <2>2 DEF TypeOK, Bridge
    <2> QED BY <2>1, <2>3 DEF Bridge
<1>1. /\ Calm /\ \A f : ~Fails(f)
      /\ \A c \in Closers : ~Disconnect(c) /\ ~Dispose(c) /\ ~EndAudit(c) /\ ~InterruptHook(c)
    BY <1>0, CalmStep
<1>2. /\ b.pending # NoTool => tool[b.pending] = "open"
      /\ b.turn # 0 /\ turns[b.turn] = "end" => b.pending = NoTool
    BY <1>0, <1>1 DEF CalmInv, CalmFacts
<1>3. tool[b'.pending] = "open" /\ (b.turn # 0 => b.turn \in Turns /\ turns[b.turn] # "end")
    <2>0. b.turn # 0 => b.turn \in Turns
        BY HeadOfTurn
    <2>1. CASE b'.pending = b.pending
        BY <1>2, <2>0, <2>1
    <2>2. CASE ToolCall
        <3>1. queue # <<>> /\ head.pc = "ready" /\ b.turn = Op.turn /\ Op.k = "tool"
            BY <1>0, <2>2, ToolCallMeans
        <3>2. Fresh(Op)
            BY <1>0, <3>1, KnownItems
        <3>3. tool[Op.tool] = "open" /\ turns[b.turn] = "run"
            BY <1>1, <3>1, <3>2 DEF Fresh
        <3>4. b'.pending = b.pending \/ b'.pending = Op.tool
            BY <1>0, <2>2, ToolCallMeans
        <3> QED BY <1>2, <2>0, <3>3, <3>4
    <2> QED BY <1>0, <2>1, <2>2, PendingFrom
<1>4. ~EndTurn
    BY <1>0, <1>1, <1>3, CalmEnd
<1>5. tool'[b'.pending] = "open"
    <2>1. ~Deliver
        BY CalmDelivers
    <2>2. CASE CallTool
        <3>1. PICK t \in Tools : tool[t] = "none" /\ tool' = [tool EXCEPT ![t] = "open"]
            BY <1>0, <2>2, CallToolMeans
        <3>2. tool \in [Tools -> {"none", "open", "ok", "failed", "gone"}]
            BY <1>0 DEF TypeOK
        <3> QED BY <1>0, <1>3, <3>1, <3>2
    <2>3. CASE tool' = tool
        BY <1>3, <2>3
    <2>4. CASE StartLocal \/ StartUndo \/ StartAudit \/ Read \/ UNCHANGED vars
        BY <2>3, <2>4 DEF StartLocal, StartUndo, StartAudit, Read, vars, service
    <2>5. CASE StartDone \/ Drop \/ ToolCall \/ Submit \/ ToolAnswer \/ AcceptView \/ Final \/ FinalAnswer
        BY <1>0, <2>3, <2>5, StartDoneMeans, DropMeans, ToolCallMeans, SubmitMeans, ToolAnswerMeans, AcceptViewMeans,
           FinalMeans, FinalAnswerMeans DEF service
    <2>6. CASE TurnOver \/ Interrupt \/ Repair \/ Repaired \/ Hook \/ DecideApproval \/ ToolEnds
        BY <1>0, <2>3, <2>6, TurnOverLeaves, InterruptLeaves, RepairMeans, RepairedMeans, HookMeans, DecideApprovalMeans,
           ToolEndsMeans DEF service
    <2>7. ~ToolTimeout /\ ~LoseStream
        BY <1>1 DEF ToolTimeout, LoseStream
    <2> QED BY <1>1, <1>4, <2>1, <2>2, <2>4, <2>5, <2>6, <2>7 DEF Next, Start, Operation, Service
<1>6. b'.turn # 0 => turns'[b'.turn] # "end"
    <2>1. CASE b'.turn = b.turn
        BY <1>3, <1>4, <2>1, TurnChanges
    <2>2. CASE Repaired
        <3>1. head.pc = "repaired" /\ b'.pending = b.pending
            BY <1>0, <2>2, RepairedMeans
        <3>2. turns[b.turn] = "end" /\ b.turn # 0
            BY <3>1, HeadOfTurn
        <3> QED BY <1>3, <3>2
    <2> QED BY <1>0, <2>1, <2>2, TurnFrom
<1> QED BY <1>5, <1>6

\* In the calm the result on its way is that of the pending tool call.
LEMMA CalmSends ==
    ASSUME Inv, [Next]_vars, Calm', head'.pc = "deliver"
    PROVE  b'.pending # NoTool /\ head'.tool = b'.pending
<1>0. TypeOK /\ HeadInv /\ RepairInv /\ CalmInv
    BY DEF Inv
<1>1. Calm /\ \A f : ~Fails(f)
    BY <1>0, CalmStep
<1>2. head.pc = "deliver" => b.pending # NoTool /\ head.tool = b.pending
    BY <1>0, <1>1 DEF CalmInv, CalmFacts
<1>3. ~Pops
    BY <1>0, PopsMeans
<1>4. CASE ~Operation
    BY <1>0, <1>2, <1>4, AsideSteps DEF Aside
<1>5. CASE ToolAnswer
    <2>1. queue # <<>> /\ head.pc = "answer" /\ Op.k = "tool" /\ b'.pending = b.pending
        BY <1>0, <1>5, ToolAnswerMeans
    <2>2. b.pending = Op.tool /\ Op.tool # NoTool
        BY <1>0, <2>1, OpKnown, BridgeAssumption DEF HeadInv
    <2>3. head'.tool \in {Op.tool, b.pending}
        BY <1>0, <1>3, <1>5, ToolAnswerMeans DEF Delivers
    <2> QED BY <2>1, <2>2, <2>3
<1>6. CASE AcceptView
    BY <1>0, <1>3, <1>6, AcceptViewMeans DEF Delivers
<1>7. CASE Drop \/ ToolCall \/ Deliver \/ Final \/ FinalAnswer
    BY <1>0, <1>1, <1>3, <1>7, DropMeans, ToolCallMeans, DeliverMeans, FinalMeans, FinalAnswerMeans DEF HeadGoes, Pops
<1>8. CASE Submit \/ TurnOver \/ Interrupt \/ Repair \/ Repaired
    BY <1>0, <1>3, <1>8, SubmitMeans, TurnOverLeaves, InterruptLeaves, RepairMeans, RepairedMeans DEF HeadGoes, Pops
<1> QED BY <1>4, <1>5, <1>6, <1>7, <1>8 DEF Operation

\* A bridge that showed a failure and has nothing left of its turn stays so.
LEMMA FailedStays ==
    ASSUME Inv, [Next]_vars, \A c \in Closers : ~Disconnect(c) /\ ~Dispose(c) /\ ~EndAudit(c) /\ ~InterruptHook(c),
           state = "failed", head.pc = "ready", b.turn # 0, b.pending = NoTool, NoneLeft(b.turn)
    PROVE  state' = "failed" /\ head'.pc = "ready"
<1>0. TypeOK /\ StartInv /\ RepairInv
    BY DEF Inv
<1>1. start \in {"done", "failed"}
    BY <1>0, Begun
<1>2. queue # <<>> => Op.k = "view" \/ Op.turn # b.turn
    <2>1. queue # <<>> => 1 \in DOMAIN queue /\ Op = queue[1]
        BY <1>0, KnownItems DEF Inv
    <2> QED BY <2>1 DEF NoneLeft
<1>3. CASE Operation
    <2>1. CASE Drop
        BY <1>0, <2>1, DropMeans, PopsMeans DEF bridge
    <2>2. CASE AcceptView
        BY <1>0, <2>2, AcceptViewMeans, PopsMeans
    <2>3. ~ToolCall /\ ~Final
        BY <1>0, <1>2, ToolCallMeans, FinalMeans
    <2>4. ~TurnOver
        BY <1>0, <1>2, TurnOverLeaves DEF LastEvents
    <2>5. ~Submit /\ ~ToolAnswer /\ ~Deliver /\ ~FinalAnswer /\ ~Interrupt /\ ~Repair /\ ~Repaired
        BY DEF Submit, ToolAnswer, Deliver, FinalAnswer, Interrupt, Repair, Repaired, Busy
    <2> QED BY <1>3, <2>1, <2>2, <2>3, <2>4, <2>5 DEF Operation
<1>4. CASE ~Operation
    <2>1. head' = head
        BY <1>0, <1>4, AsideSteps DEF Aside
    <2>2. ~Start
        BY <1>1 DEF Start, StartLocal, StartAudit, StartUndo, StartDone
    <2>3. UNCHANGED bridge
        BY <1>0, <1>4, <2>2, HookMeans, DecideApprovalMeans, ToolEndsMeans, ServiceMeans DEF Next, Read, vars
    <2> QED BY <2>1, <2>3 DEF bridge
<1> QED BY <1>3, <1>4

\* The end of a turn that left the queue was taken up.
LEMMA EndPopped ==
    ASSUME Inv, [Next]_vars, Calm', NEW n \in Turns, Pops, Op.k \in LastEvents, Op.turn = n
    PROVE  EndTakenUp(n)'
<1>0. TypeOK /\ StartInv /\ HeadInv /\ RepairInv /\ OrderInv /\ TurnsInv /\ CalmInv
    BY DEF Inv
<1>1. Calm /\ CalmFacts /\ queue # <<>> /\ head'.pc = "ready"
    BY <1>0, CalmStep, PopsMeans DEF CalmInv
<1>2. turns[n] = "end" /\ n \in Nat /\ n # 0
    BY <1>1, OpKnown, OneTurn
<1>3. ~(HeadGoes("repair") \/ HeadGoes("interrupt"))
    BY <1>1 DEF HeadGoes
<1>4. CASE Drop
    <2>1. b' = b /\ activation = "ok" /\ head.pc = "ready" /\ (b.on => b.turn # n)
        BY <1>0, <1>1, <1>4, DropMeans DEF bridge, Late, Mine, CalmFacts
    <2>2. b.turn # 0
        BY <1>0, <2>1 DEF StartInv
    <2>3. b.turn \in Nat
        BY <1>0, <2>2, Begun
    <2>4. ~(n > b.turn)
        BY <1>0, <1>2, <2>1, <2>2 DEF TurnsInv
    <2>5. n < b'.turn \/ (n = b'.turn /\ ~b'.on)
        BY <1>2, <2>1, <2>3, <2>4
    <2> QED BY <2>5 DEF EndTakenUp
<1>5. CASE TurnOver
    <2>1. b'.turn = n /\ ~b'.on
        BY <1>0, <1>3, <1>5, TurnOverLeaves
    <2> QED BY <2>1 DEF EndTakenUp
<1>6. CASE Interrupt
    <2>1. b.turn = n /\ state' = "failed" /\ wire' = wire /\ queue' = Tail(queue)
        BY <1>0, <1>6, InterruptLeaves, PopsMeans DEF HeadInv, service
    <2>2. CASE GivesUp
        BY <2>1, <2>2 DEF GivesUp, EndTakenUp
    <2>3. CASE b' = b
        <3>1. queue \in Seq(Item) /\ wire \in Seq(Item)
            BY <1>0, StateTyped
        <3>2. \A i \in DOMAIN queue : i # 1 => Ordered(Op, queue[i])
            BY <1>0, <1>1, AfterOp
        <3>3. \A i \in DOMAIN wire : Ordered(Op, wire[i]) /\ wire[i].k # "view"
            BY <1>0, <1>1, AfterOp, KnownItems DEF Inv
        <3>4. \A i \in DOMAIN queue' : i + 1 \in DOMAIN queue /\ i + 1 # 1 /\ queue'[i] = queue[i + 1]
            BY <1>1, <2>1, <3>1, TailFacts
        <3>5. GivenUp(n)'
            BY <1>1, <2>1, <3>2, <3>3, <3>4 DEF GivenUp, Ordered
        <3> QED BY <2>1, <2>3, <3>5 DEF EndTakenUp
    <2> QED BY <1>0, <1>6, <2>2, <2>3, InterruptLeaves
<1>7. CASE Repaired
    <2>1. b.turn = n /\ b'.turn = b.turn + 1
        BY <1>0, <1>7, RepairedMeans DEF HeadInv
    <2>2. n < b'.turn
        BY <1>2, <2>1
    <2> QED BY <2>2 DEF EndTakenUp
<1>8. ~ToolCall /\ ~ToolAnswer /\ ~AcceptView /\ ~Deliver /\ ~Final /\ ~FinalAnswer
    <2>1. head.pc = "deliver" => Op.k \notin LastEvents
        BY <1>0 DEF HeadInv, LastEvents
    <2> QED BY <1>0, <2>1, ToolCallMeans, ToolAnswerMeans, AcceptViewMeans, DeliverMeans, FinalMeans, FinalAnswerMeans DEF LastEvents
<1>9. ~Submit /\ ~Repair
    BY <1>0, <1>1, SubmitMeans, RepairMeans DEF HeadGoes
<1> QED BY <1>0, <1>4, <1>5, <1>6, <1>7, <1>8, <1>9, PopsOperation DEF Operation

\* In the calm the end of every turn is taken up.
LEMMA CalmEnds ==
    ASSUME Inv, [Next]_vars, Calm', NEW n \in Turns, turns'[n] = "end"
    PROVE  EndTakenUp(n)'
<1>0. TypeOK /\ StartInv /\ RepairInv /\ CalmInv
    BY DEF Inv
<1>1. /\ Calm /\ \A f : ~Fails(f)
      /\ \A c \in Closers : ~Disconnect(c) /\ ~Dispose(c) /\ ~EndAudit(c) /\ ~InterruptHook(c)
    BY <1>0, CalmStep
<1>2. CalmFacts /\ ~LoseStream /\ n \in Nat \ {0}
    BY <1>0, <1>1, OneTurn DEF CalmInv, LoseStream
<1>3. CASE turns[n] # "end"
    <2>1. EndTurn
        BY <1>3, TurnChanges
    <2>2. PICK m \in Turns : /\ turns' = [turns EXCEPT ![m] = "end"]
                             /\ wire' = wire \o <<Event("final", m, NoTool), Event("completed", m, NoTool)>>
        BY <1>0, <1>1, <2>1, CalmEnd
    <2>3. m = n
        BY <1>0, <1>3, <2>2 DEF TypeOK
    <2>4. PICK u \in LastWords(n) : u = <<Event("final", n, NoTool), Event("completed", n, NoTool)>>
        BY DEF LastWords
    <2>5. u \in Seq(Item) /\ wire \in Seq(Item) /\ wire' = wire \o u
        BY <1>0, <2>2, <2>3, <2>4, LastWordsTyped, StateTyped
    <2>6. PICK i \in DOMAIN u : u[i].k \in LastEvents /\ u[i].turn = n
        BY LastWordsTyped
    <2>7. Len(wire) + i \in DOMAIN wire' /\ wire'[Len(wire) + i] = u[i]
        BY <2>5, <2>6, ConcatFacts
    <2> QED BY <2>6, <2>7 DEF EndTakenUp, EndQueued
<1>4. CASE turns[n] = "end"
    <2>1. EndQueued(n) \/ n < b.turn \/ (n = b.turn /\ (~b.on \/ GivenUp(n)))
        BY <1>2, <1>4 DEF CalmFacts, EndTakenUp
    <2>2. CASE EndQueued(n)
        BY <1>0, <1>2, <2>2, EndQueuedStays, EndPopped DEF EndTakenUp
    <2>3. b.turn # 0 => start \in {"done", "failed"} /\ b.turn \in Nat
        BY <1>0, Begun
    <2>4. CASE n < b.turn
        <3>1. b.turn # 0
            BY <1>2, <2>4
        <3>2. n < b'.turn
            BY <1>0, <1>2, <2>3, <2>4, <3>1, TurnFrom
        <3> QED BY <3>2 DEF EndTakenUp
    <2>5. CASE n = b.turn /\ (~b.on \/ GivenUp(n))
        <3>1. b.turn # 0 /\ ~StartDone
            BY <1>2, <2>3, <2>5 DEF StartDone
        <3>2. CASE b'.turn = b.turn + 1
            <4>1. n < b'.turn
                BY <1>2, <2>5, <3>2
            <4> QED BY <4>1 DEF EndTakenUp
        <3>3. CASE b'.turn = b.turn /\ ~b.on
            <4>1. ~b'.on
                BY <1>0, <3>1, <3>3, OnSteady
            <4> QED BY <2>5, <3>3, <4>1 DEF EndTakenUp
        <3>4. CASE b'.turn = b.turn /\ GivenUp(n)
            <4>1. state = "failed" /\ head.pc = "ready" /\ NoneLeft(n) /\ b.pending = NoTool
                BY <1>2, <1>4, <2>5, <3>1, <3>4 DEF GivenUp, NoneLeft, CalmFacts
            <4>2. state' = "failed" /\ head'.pc = "ready"
                BY <1>1, <2>5, <3>1, <4>1, FailedStays
            <4>3. NoneLeft(n)'
                BY <1>0, <1>4, <4>1, NoneLeftStays
            <4>4. GivenUp(n)'
                BY <4>2, <4>3 DEF GivenUp, NoneLeft
            <4> QED BY <2>5, <3>4, <4>4 DEF EndTakenUp
        <3> QED BY <1>0, <2>5, <3>1, <3>2, <3>3, <3>4, TurnFrom
    <2> QED BY <2>1, <2>2, <2>4, <2>5
<1> QED BY <1>3, <1>4

LEMMA CalmKept ==
    ASSUME Inv, [Next]_vars
    PROVE  CalmInv'
<1> SUFFICES ASSUME Calm'
             PROVE  CalmFacts'
    BY DEF CalmInv
<1>1. b'.turn # 0 /\ turns'[b'.turn] = "end" => b'.pending = NoTool
    BY CalmPending
<1>2. b'.pending # NoTool => tool'[b'.pending] = "open"
    BY CalmPending
<1> QED BY <1>1, <1>2, CalmStands, CalmSends, CalmEnds DEF CalmFacts

----------------------------------------------------------------------------
(* The theorems *)

LEMMA InitInv == Init => Inv
<1> SUFFICES ASSUME Init
             PROVE  Inv
    OBVIOUS
<1>1. TypeOK
    <2>1. QueueTyped
        <3>1. <<>> \in Seq(Item) /\ NoHead \in HeadOp /\ NoView \in View /\ Plans \subseteq Plan
            BY EmptySeq, NoHeadTyped, NoViewTyped, BridgeAssumption
        <3>2. closer \in [Closers -> CloserPC]
            BY DEF Init, CloserPC
        <3> QED BY <3>1, <3>2 DEF Init, QueueTyped
    <2>2. BridgeTyped
        BY NoViewTyped DEF Init, BridgeTyped, Bridge, BridgeStates
    <2>3. ServiceTyped
        BY EmptySeq DEF Init, ServiceTyped
    <2>4. BackendTyped
        BY NoViewTyped DEF Init, BackendTyped
    <2> QED BY <2>1, <2>2, <2>3, <2>4, TypeParts
<1>2. /\ b.turn = 0 /\ ~b.on /\ ~b.term /\ ~b.repair /\ b.pending = NoTool /\ b.view = NoView
      /\ head.pc = "ready" /\ head.view = NoView /\ refresh.view = NoView /\ run = NoView
      /\ start = "idle" /\ activation = "open" /\ ~disposed /\ live
      /\ DOMAIN queue = {} /\ DOMAIN wire = {}
      /\ \A c \in Closers : closer[c] = "idle"
      /\ \A n \in Turns : turns[n] = "none"
      /\ \A t \in Tools : tool[t] = "none" /\ outcome[t] = "none"
    BY NoHeadTyped DEF Init
<1>3. \A n \in Turns : n \in Nat \ {0}
    BY OneTurn
<1>4. StartInv /\ HeadInv /\ RepairInv
    BY <1>2 DEF StartInv, HeadInv, RepairInv
<1>5. ViewsInv
    BY <1>2, NoViewTyped DEF ViewsInv, TrueView
<1>6. ItemsInv /\ OrderInv
    BY <1>2 DEF ItemsInv, OrderInv
<1>7. TurnsInv
    BY <1>2, <1>3 DEF TurnsInv
<1>8. ToldInv
    BY <1>2, NoViewTyped DEF ToldInv, ToldIsBackends, Waiting
<1>9. IdleInv /\ ClosedEndsRun
    BY <1>2 DEF IdleInv, ClosedEndsRun
<1>10. CalmInv
    BY <1>2 DEF CalmInv, CalmFacts
<1> QED BY <1>1, <1>4, <1>5, <1>6, <1>7, <1>8, <1>9, <1>10 DEF Inv

LEMMA StepInv == Inv /\ [Next]_vars => Inv'
<1> SUFFICES ASSUME Inv, [Next]_vars
             PROVE  Inv'
    OBVIOUS
<1>1. TypeOK'
    BY TypeStep DEF Inv
<1>2. StartInv' /\ HeadInv' /\ RepairInv' /\ ViewsInv' /\ ItemsInv' /\ OrderInv'
    BY StartStep, HeadStep, RepairStep, ViewsStep, ItemsStep
<1>3. TurnsInv' /\ ToldInv' /\ IdleInv' /\ ClosedEndsRun' /\ CalmInv'
    BY TurnsStep, ToldStep, IdleStep, ClosedStep, CalmKept
<1> QED BY <1>1, <1>2, <1>3 DEF Inv

LEMMA InvAlways == Spec => []Inv
BY InitInv, StepInv, PTL DEF Spec

\* Every variable keeps its type: the bridge's run, its queue and the
\* operation at its head, the hook's refresh, the service's turns and tool
\* calls and the backend's run.
THEOREM TypeCorrect == Spec => []TypeOK
<1>1. Inv => TypeOK
    BY DEF Inv
<1> QED BY <1>1, InvAlways, PTL

\* Codex is told of a success only when the backend carried the tool out,
\* however the decision's answer, the hook's refreshes and the person's
\* approvals overtake one another (acceptRuntimeView, deliverResult).
THEOREM ToldAsCarriedOut == Spec => []ToldIsBackends
<1>1. Inv => ToldIsBackends
    BY DEF Inv, ToldInv
<1> QED BY <1>1, InvAlways, PTL

\* A bridge that went idle left no audit run open and no Codex turn at work,
\* whatever was lost, refused or stopped on the way (turn_completed).
THEOREM IdleLeavesNothing == Spec => []QuietEnd
<1>1. Inv => QuietEnd
    BY DEF Inv, IdleInv, QuietEnd
<1> QED BY <1>1, InvAlways, PTL

\* A bridge that gave up its run without a failure ended the audit run and
\* the turn it was started with, also when several stop it at once and an
\* event of the queue is handled in between (disconnect, dispose).
THEOREM GivenUpEndsRun == Spec => []ClosedEndsRun
<1>1. Inv => ClosedEndsRun
    BY DEF Inv
<1> QED BY <1>1, InvAlways, PTL

\* Without faults and stops the bridge takes up the end of every turn: once
\* nothing is on its way and no turn works on, it is closed or shows a failure
\* (handleToolCall, turn_completed, continueRepair).
THEOREM EndsAreTakenUp == Spec => []NotLeftWaiting
<1>1. ASSUME Inv
      PROVE  NotLeftWaiting
    <2> SUFFICES ASSUME start = "done", plan.faults = {}, \A c \in Closers : closer[c] = "idle",
                        queue = <<>>, wire = <<>>, \A n \in Turns : turns[n] \in {"none", "end"}, b.on
                 PROVE  state = "failed"
        BY DEF NotLeftWaiting
    <2>1. TypeOK /\ StartInv /\ TurnsInv /\ CalmFacts
        BY <1>1 DEF Inv, CalmInv, Calm
    <2>2. b.turn \in Turns /\ b.turn # 0 /\ b.turn \in Nat
        BY <2>1, Begun
    <2>3. turns[b.turn] = "end"
        BY <2>1, <2>2 DEF TurnsInv
    <2>4. EndTakenUp(b.turn)
        BY <2>1, <2>2, <2>3 DEF CalmFacts
    <2>5. DOMAIN queue = {} /\ DOMAIN wire = {}
        OBVIOUS
    <2>6. ~EndQueued(b.turn)
        BY <2>5 DEF EndQueued
    <2> QED BY <2>2, <2>4, <2>6 DEF EndTakenUp, GivenUp
<1> QED BY <1>1, InvAlways, PTL

=============================================================================
