-------------------------- MODULE UserDataSyncProofs --------------------------
(***************************************************************************)
(* What the synchronisation of the stores keeps, for every set of users,   *)
(* assets and canvases and every plan.                                     *)
(*                                                                         *)
(* The first lemmas say how each variable moves in a step: a drain goes on *)
(* with less to send or begins with what the stores hold, a version in the *)
(* stores is a new edit or comes from a batch, the merge or the server.    *)
(* The invariants are about what the operations under way have in hand:    *)
(* IsoInv, that it belongs to the user of their session, DelInv, that none *)
(* of it brings back a canvas whose deletion has been confirmed, and       *)
(* EditInv, that none of it is older than what the user made here. IsoInv  *)
(* and EditInv are about runs in which no answer of the session before has *)
(* written to the stores while the user changes.                           *)
(***************************************************************************)
EXTENDS UserDataSync, TLAPS

----------------------------------------------------------------------------
(* Types *)

Drains == [pc : {"idle", "upload", "next", "sent", "await", "failed"}, queued : BOOLEAN,
           news : BOOLEAN, snap : [Items -> Versions], todo : SUBSET Items, cur : Items \cup {"none"}]
\* The drain of one session, and those of all.
Sound(d) ==
    /\ d \in Drains
    /\ d.pc \in {"sent", "await", "failed"} <=> d.cur # "none"
    /\ d.cur \in d.todo \cup {"none"}
    /\ d.pc = "upload" => d.todo # {}
    /\ d.pc = "idle" => d.todo = {} /\ d.snap = None
Flows(f) == f \in [Sessions -> Drains] /\ \A s \in Sessions : Sound(f[s])

StoreTyped ==
    /\ mem \in [Items -> Versions] /\ staged \subseteq Projects
    /\ disk \in [Users -> Stores] /\ crossed \in BOOLEAN
FlagsTyped ==
    /\ plan \in Plans /\ rev \in Sessions
    /\ phase \in {"no", "flush", "scope", "read"} /\ loaded \in Stores
    /\ applying \in BOOLEAN /\ timer \in BOOLEAN /\ wanted \in {"no", "sync", "new"}
VersTyped == vers \in [Items -> Versions]
LoginTyped ==
    login \in [pc : {"idle", "resume", "list", "fetch", "saving"}, snap : [Items -> Versions],
               newer : SUBSET Items, deleted : SUBSET Projects]
DrainTyped == Flows(drain)
WriteTyped ==
    /\ write \in [Assets -> [pc : {"idle", "upload", "sent"}, s : Sessions, ver : Versions]]
    /\ create \in [Projects -> [pc : {"idle", "sent"}, s : Sessions, ver : Versions]]
DelTyped == del \in [Projects -> [pc : {"idle", "stage", "wait", "sent"}, s : Sessions]] /\ adel \subseteq Assets
ServerTyped == server \in [Items -> Versions] /\ gone \subseteq Projects
HistoryTyped ==
    /\ edits \in Seq([item : Items, how : {"here", "late", "there"}]) /\ Len(edits) <= MaxEdits
    /\ deleted \in [Items -> {"no", "here", "late"}]
\* While the session changes the next one has nothing under way.
Unbegun(s) == s > rev \/ (s = rev /\ ~Up)
Window ==
    /\ \A s \in Sessions : Unbegun(s) => drain[s].pc = "idle"
    /\ \A a \in Assets : Unbegun(write[a].s) => write[a].pc = "idle"
    /\ \A p \in Projects : Unbegun(create[p].s) => create[p].pc = "idle"
    /\ ~Up => rev > 1 /\ login = NoLogin /\ vers = None /\ wanted = "no" /\ ~timer
TypeInv ==
    /\ StoreTyped /\ FlagsTyped /\ VersTyped /\ LoginTyped /\ DrainTyped
    /\ WriteTyped /\ DelTyped /\ ServerTyped /\ HistoryTyped /\ Window

LEMMA TypeParts == TypeInv => TypeOK
<1> SUFFICES ASSUME TypeInv PROVE TypeOK
    OBVIOUS
<1>1. DrainTyped
    BY DEF TypeInv
<1>2. drain \in [Sessions -> Drains]
    BY <1>1 DEF DrainTyped, Flows
<1>3. \A s \in Sessions : /\ At(s, "upload") => drain[s].todo # {}
                          /\ drain[s].pc \in {"sent", "await", "failed"} <=> drain[s].cur # "none"
                          /\ drain[s].cur \in drain[s].todo \cup {"none"}
    BY <1>1 DEF DrainTyped, Flows, Sound, At
<1>4. phase # "no" => rev > 1 /\ login = NoLogin /\ vers = None
    BY DEF TypeInv, Window, Up
<1> QED BY <1>2, <1>3, <1>4 DEF TypeOK, TypeInv, StoreTyped, FlagsTyped, VersTyped, LoginTyped, WriteTyped, DelTyped,
                          ServerTyped, HistoryTyped, Drains, At

LEMMA PlanFacts ==
    ASSUME FlagsTyped
    PROVE  /\ plan.users \in Seq(Users) /\ Len(plan.users) \in Nat \ {0} /\ Sessions = 1..Len(plan.users)
           /\ \A s \in Sessions : plan.users[s] \in Users
           /\ User \in Users /\ (Window => Scope \in Users)
<1>1. plan.users \in Seq(Users) /\ plan.users # <<>>
    BY SyncAssumption DEF FlagsTyped
<1>2. Len(plan.users) \in Nat \ {0} /\ Sessions = 1..Len(plan.users)
    BY <1>1 DEF Sessions
<1>3. \A s \in Sessions : plan.users[s] \in Users
    BY <1>1, <1>2
<1>4. Window /\ phase = "flush" => rev - 1 \in Sessions
    BY <1>2 DEF FlagsTyped, Window, Up
<1> QED BY <1>1, <1>2, <1>3, <1>4 DEF FlagsTyped, User, Scope

LEMMA NoneTyped ==
    /\ 0 \in Versions /\ None \in [Items -> Versions]
    /\ Sound(NoDrain) /\ NoStores \in Stores
<1>1. 0 \in Versions /\ None \in [Items -> Versions]
    BY SyncAssumption DEF Versions, None
<1>2. NoDrain \in Drains
    BY <1>1 DEF NoDrain, Drains
<1> QED BY <1>1, <1>2 DEF Sound, NoDrain, NoStores, Stores

LEMMA TypeInit == Init => TypeInv
<1> SUFFICES ASSUME Init PROVE TypeInv
    OBVIOUS
<1> USE NoneTyped
<1>1. plan \in Plans /\ rev = 1
    BY DEF Init
<1>2. plan.users \in Seq(Users) /\ plan.users # <<>>
    BY <1>1, SyncAssumption
<1>3. 1 \in Sessions
    BY <1>2 DEF Sessions
<1>4. FlagsTyped
    BY <1>1, <1>3 DEF Init, FlagsTyped
<1>5. StoreTyped /\ VersTyped
    BY DEF Init, StoreTyped, VersTyped
<1>6. LoginTyped
    BY DEF Init, LoginTyped, NoLogin
<1>7. DrainTyped
    <2>1. drain = [s \in Sessions |-> NoDrain]
        BY DEF Init
    <2> QED BY <2>1 DEF DrainTyped, Flows, Sound
<1>8. WriteTyped /\ DelTyped
    BY <1>3 DEF Init, WriteTyped, DelTyped, NoWrite
<1>9. ServerTyped
    BY DEF Init, ServerTyped
<1>10. HistoryTyped
    <2>1. edits = <<>> /\ deleted = [i \in Items |-> "no"]
        BY DEF Init
    <2> QED BY <2>1, SyncAssumption DEF HistoryTyped
<1>11. Window
    <2>1. /\ drain = [s \in Sessions |-> NoDrain] /\ write = [a \in Assets |-> NoWrite]
          /\ create = [p \in Projects |-> NoWrite] /\ Up
        BY DEF Init, Up
    <2> QED BY <2>1 DEF Window, NoDrain, NoWrite
<1> QED BY <1>4, <1>5, <1>6, <1>7, <1>8, <1>9, <1>10, <1>11 DEF TypeInv

----------------------------------------------------------------------------
(* How a drain moves *)

\* A batch goes on with less to send, or the drain ends.
Narrows(d, e) ==
    \/ e.snap = d.snap /\ e.todo \subseteq d.todo /\ (e.pc = "upload" => d.pc = "upload") /\ (d.pc = "idle" => e.pc = "idle")
    \/ e.pc = "idle"
NarrowsAll(f, g) == \A s \in Sessions : Narrows(f[s], g[s])

LEMMA NarrowsTwice ==
    ASSUME NEW d, NEW e, NEW f, Narrows(d, e), Narrows(e, f)
    PROVE  Narrows(d, f)
BY DEF Narrows

LEMMA QueueFlows ==
    ASSUME TypeInv, NEW f, Flows(f)
    PROVE  Flows(Queue(f)) /\ NarrowsAll(f, Queue(f))
<1>1. rev \in Sessions
    BY DEF TypeInv, FlagsTyped
<1>2. CASE Queue(f) = f
    BY <1>2 DEF NarrowsAll, Narrows
<1>3. CASE Queue(f) = [f EXCEPT ![rev].queued = TRUE] /\ Busy(f)
    <2> DEFINE e == [f[rev] EXCEPT !.queued = TRUE]
    <2>1. Sound(e) /\ Narrows(f[rev], e)
        BY <1>1, <1>3 DEF Sound, Drains, Narrows, Flows, Busy
    <2>2. Queue(f) = [f EXCEPT ![rev] = e]
        BY <1>1, <1>3 DEF Flows
    <2> HIDE DEF e
    <2>3. Flows([f EXCEPT ![rev] = e])
        BY <1>1, <2>1 DEF Flows, Sound
    <2>4. NarrowsAll(f, [f EXCEPT ![rev] = e])
        <3>1. \A s \in Sessions : Narrows(f[s], f[s])
            BY DEF Narrows
        <3> QED BY <1>1, <2>1, <3>1 DEF NarrowsAll, Flows
    <2> QED BY <2>2, <2>3, <2>4
<1> QED BY <1>2, <1>3 DEF Queue

LEMMA Replaced ==
    ASSUME NEW f, Flows(f), NEW s \in Sessions, NEW e, Sound(e)
    PROVE  /\ Flows([f EXCEPT ![s] = e])
           /\ Narrows(f[s], e) => NarrowsAll(f, [f EXCEPT ![s] = e])
<1>1. Flows([f EXCEPT ![s] = e])
    BY DEF Flows, Sound
<1>2. \A t \in Sessions : Narrows(f[t], f[t])
    BY DEF Narrows
<1> QED BY <1>1, <1>2 DEF NarrowsAll, Flows

\* A new batch, of what the stores hold now.
Starts(s) ==
    /\ s = rev /\ Up /\ drain'[s].snap = mem /\ drain'[s].todo = Dirty
    /\ UNCHANGED <<plan, store, session, vers, create, remote, history>>
DrainMove(s) == Narrows(drain[s], drain'[s]) \/ Starts(s)
DrainMoves == Flows(drain') /\ \A s \in Sessions : DrainMove(s)

LEMMA DirtyItems == Dirty \subseteq Items
BY DEF Dirty, Items

LEMMA BatchSound ==
    ASSUME TypeInv, NEW new \in BOOLEAN
    PROVE  Sound(Batch(new)) /\ (Batch(new).pc = "idle" \/ (Batch(new).snap = mem /\ Batch(new).todo = Dirty))
<1>1. CASE Dirty = {}
    <2>1. Batch(new) = NoDrain
        BY <1>1 DEF Batch
    <2>2. NoDrain.pc = "idle"
        BY DEF NoDrain
    <2> QED BY <2>1, <2>2, NoneTyped
<1>2. CASE Dirty # {}
    <2> DEFINE d == Batch(new)
    <2>1. d = [pc |-> "upload", queued |-> FALSE, news |-> new, snap |-> mem, todo |-> Dirty, cur |-> "none"]
        BY <1>2 DEF Batch, NoDrain
    <2> HIDE DEF d
    <2>2. mem \in [Items -> Versions]
        BY DEF TypeInv, StoreTyped
    <2>3. d \in Drains
        BY <2>1, <2>2, DirtyItems DEF Drains
    <2>4. Sound(d) /\ d.snap = mem /\ d.todo = Dirty
        BY <1>2, <2>1, <2>3 DEF Sound
    <2> QED BY <2>4 DEF d
<1> QED BY <1>1, <1>2

LEMMA SoundDrain ==
    ASSUME TypeInv, NEW s \in Sessions
    PROVE  Flows(drain) /\ Sound(drain[s]) /\ drain[s] \in Drains
BY DEF TypeInv, DrainTyped, Flows, Sound

LEMMA DoneSound ==
    ASSUME TypeInv, NEW s \in Sessions, At(s, "sent") \/ At(s, "await")
    PROVE  Sound(Done(s)) /\ Narrows(drain[s], Done(s))
<1>1. drain[s] \in Drains
    BY SoundDrain
<1> DEFINE d == Done(s)
<1>2. d \in Drains /\ d.pc = "next" /\ d.cur = "none" /\ d.snap = drain[s].snap /\ d.todo \subseteq drain[s].todo
    BY <1>1 DEF Done, Drains
<1> HIDE DEF d
<1>3. Sound(d) /\ Narrows(drain[s], d)
    BY <1>2 DEF Sound, Narrows, At
<1> QED BY <1>3 DEF d

LEMMA TurnSound ==
    ASSUME TypeInv, NEW s \in Sessions, At(s, "next"), NEW i \in drain[s].todo
    PROVE  Sound(Turn(drain[s], i)) /\ Narrows(drain[s], Turn(drain[s], i))
<1>1. drain[s] \in Drains /\ Sound(drain[s])
    BY SoundDrain
<1>2. i \in Items /\ i # "none" /\ drain[s].pc = "next" /\ drain[s].cur = "none"
    BY <1>1, SyncAssumption DEF Drains, Sound, At
<1> DEFINE d == Turn(drain[s], i)
<1>3. \/ d = [drain[s] EXCEPT !.pc = "await", !.cur = i]
      \/ d = [drain[s] EXCEPT !.todo = @ \ {i}]
      \/ d = [drain[s] EXCEPT !.pc = "sent", !.cur = i]
    BY DEF Turn
<1> HIDE DEF d
<1>4. d \in Drains
    BY <1>1, <1>2, <1>3 DEF Drains
<1>5. /\ d.snap = drain[s].snap /\ d.todo \subseteq drain[s].todo
      /\ \/ d.pc \in {"sent", "await"} /\ d.cur = i /\ d.todo = drain[s].todo
         \/ d.pc = "next" /\ d.cur = "none"
    BY <1>1, <1>2, <1>3 DEF Drains
<1>6. Sound(d) /\ Narrows(drain[s], d)
    BY <1>2, <1>4, <1>5 DEF Sound, Narrows
<1> QED BY <1>6 DEF d

LEMMA RunMoves ==
    ASSUME TypeInv, NEW s \in Sessions, NEW d, Sound(d), Run(s, d),
           Narrows(drain[s], d) \/ (s = rev /\ Up /\ d.snap = mem /\ d.todo = Dirty /\ UNCHANGED <<plan, store, session, vers, create, remote, history>>)
    PROVE  DrainMoves
<1>1. drain' = [drain EXCEPT ![s] = d]
    BY DEF Run
<1>2. Flows(drain') /\ (Narrows(drain[s], d) => NarrowsAll(drain, drain'))
    BY <1>1, SoundDrain, Replaced
<1>3. CASE Narrows(drain[s], d)
    BY <1>2, <1>3 DEF NarrowsAll, DrainMoves, DrainMove
<1>4. CASE s = rev /\ Up /\ d.snap = mem /\ d.todo = Dirty /\ UNCHANGED <<plan, store, session, vers, create, remote, history>>
    <2>1. drain'[s] = d /\ \A t \in Sessions : t # s => drain'[t] = drain[t]
        BY <1>1, SoundDrain DEF Flows
    <2>2. Starts(s)
        BY <1>4, <2>1 DEF Starts
    <2>3. \A t \in Sessions : t # s => Narrows(drain[t], drain'[t])
        BY <2>1 DEF Narrows
    <2> QED BY <1>2, <2>2, <2>3 DEF DrainMoves, DrainMove
<1> QED BY <1>3, <1>4

LEMMA FlowsMove ==
    ASSUME NEW f, Flows(f), NarrowsAll(drain, f), drain' = f \/ drain' = Queue(f), TypeInv
    PROVE  DrainMoves
<1>1. CASE drain' = f
    BY <1>1 DEF DrainMoves, DrainMove, NarrowsAll
<1>2. CASE drain' = Queue(f)
    <2>1. Flows(Queue(f)) /\ NarrowsAll(f, Queue(f))
        BY QueueFlows
    <2>2. Flows(drain') /\ NarrowsAll(f, drain')
        BY <1>2, <2>1
    <2>3. \A s \in Sessions : Narrows(drain[s], drain'[s])
        BY <2>2, NarrowsTwice DEF NarrowsAll
    <2> QED BY <2>2, <2>3 DEF DrainMoves, DrainMove
<1> QED BY <1>1, <1>2

LEMMA DrainSelf ==
    ASSUME TypeInv
    PROVE  Flows(drain) /\ NarrowsAll(drain, drain)
BY DEF TypeInv, DrainTyped, NarrowsAll, Narrows

LEMMA FailMoves ==
    ASSUME TypeInv, NEW s \in Sessions, Fail(s)
    PROVE  DrainMoves
<1>1. Flows([drain EXCEPT ![s] = NoDrain]) /\ NarrowsAll(drain, [drain EXCEPT ![s] = NoDrain])
    <2>1. NoDrain.pc = "idle"
        BY DEF NoDrain
    <2> QED BY <2>1, SoundDrain, NoneTyped, Replaced DEF Narrows
<1>2. drain' = [drain EXCEPT ![s] = NoDrain] \/ drain' = Queue([drain EXCEPT ![s] = NoDrain])
    BY DEF Fail
<1> QED BY <1>1, <1>2, FlowsMove

LEMMA SaveNowMoves ==
    ASSUME TypeInv, NEW f, Flows(f), NarrowsAll(drain, f), NEW new \in BOOLEAN, SaveNow(f, new)
    PROVE  DrainMoves
<1>1. CASE ~Busy(f)
    BY <1>1, FlowsMove DEF SaveNow
<1>2. CASE Busy(f)
    <2> DEFINE e == [[f[rev] EXCEPT !.queued = TRUE] EXCEPT !.news = @ \/ new]
    <2>1. rev \in Sessions
        BY DEF TypeInv, FlagsTyped
    <2>2. drain' = [f EXCEPT ![rev] = e]
        <3>1. drain' = [f EXCEPT ![rev].queued = TRUE, ![rev].news = @ \/ new]
            BY <1>2 DEF SaveNow
        <3> QED BY <2>1, <3>1 DEF Flows
    <2>3. Sound(f[rev]) /\ f[rev] \in Drains /\ f[rev].pc # "idle"
        BY <1>2, <2>1 DEF Flows, Sound, Busy
    <2>4. e \in Drains /\ e.pc = f[rev].pc /\ e.cur = f[rev].cur /\ e.todo = f[rev].todo /\ e.snap = f[rev].snap
        BY <2>3 DEF Drains
    <2> HIDE DEF e
    <2>5. Sound(e) /\ Narrows(f[rev], e)
        BY <2>3, <2>4 DEF Sound, Narrows
    <2>6. Flows(drain') /\ NarrowsAll(f, drain')
        BY <2>1, <2>2, <2>5, Replaced
    <2>7. \A s \in Sessions : Narrows(drain[s], drain'[s])
        BY <2>6, NarrowsTwice DEF NarrowsAll
    <2> QED BY <2>6, <2>7 DEF DrainMoves, DrainMove
<1> QED BY <1>1, <1>2

\* A change of user, and what the other steps do to what is stored.
Change == Leave \/ Rescope \/ Rehydrate \/ Resume
DiskMove == UNCHANGED <<disk, crossed>> \/ \E i \in Items : Persist(i)

LEMMA PlanStays ==
    ASSUME TypeInv, [Next]_vars
    PROVE  UNCHANGED plan /\ (Change \/ (UNCHANGED <<rev, phase, loaded>> /\ DiskMove))
<1> DEFINE Steady == UNCHANGED <<plan, rev, phase, loaded>> /\ DiskMove
<1>1. Timer \/ Begin \/ List \/ Apply \/ Started => Steady
    BY DEF Timer, Begin, List, Apply, Started, DiskMove, store, session
<1>2. Change => UNCHANGED plan
    BY DEF Change, Leave, Rescope, Rehydrate, Resume
<1>3. ASSUME NEW s \in Sessions, Upload(s) \/ Send(s) \/ Await(s) \/ Created(s) \/ Written(s)
      PROVE  Steady
    BY <1>3 DEF Upload, Send, Await, Created, Written, DiskMove, Items, store, session
<1>4. ASSUME NEW a \in Assets, SaveAsset(a) \/ Prepared(a) \/ Saved(a) \/ Edit(a) \/ DropAsset(a) \/ Dropped(a)
      PROVE  Steady
    BY <1>4 DEF SaveAsset, Prepared, Saved, Edit, DropAsset, Dropped, DiskMove, Items, store, session
<1>5. ASSUME NEW p \in Projects, ProjectReady(p) \/ NewProject(p) \/ AgentProject(p) \/ Delete(p) \/ Staged(p) \/ Deleted(p)
      PROVE  Steady
    BY <1>5 DEF ProjectReady, NewProject, AgentProject, Delete, Staged, Deleted, DiskMove, Items, store, session
<1>6. ASSUME NEW i \in Items, There(i)
      PROVE  Steady
    BY <1>6 DEF There, DiskMove, store, session
<1>7. UNCHANGED vars => Steady
    BY DEF vars, DiskMove, store, session
<1> QED BY <1>1, <1>2, <1>3, <1>4, <1>5, <1>6, <1>7 DEF Next, Change

LEMMA ScheduleMoves ==
    ASSUME TypeInv, UNCHANGED drain \/ Schedule
    PROVE  DrainMoves
BY DrainSelf, FlowsMove DEF Schedule

LEMMA UploadMoves ==
    ASSUME TypeInv, NEW s \in Sessions, Upload(s)
    PROVE  DrainMoves
<1>1. CASE drain' = [drain EXCEPT ![s].pc = "next"]
    <2> DEFINE e == [drain[s] EXCEPT !.pc = "next"]
    <2>1. drain[s] \in Drains /\ Sound(drain[s]) /\ drain[s].pc = "upload"
        BY SoundDrain DEF Upload, At
    <2>2. drain' = [drain EXCEPT ![s] = e]
        BY <1>1, SoundDrain DEF Flows
    <2>3. e \in Drains /\ e.pc = "next" /\ e.cur = drain[s].cur /\ e.todo = drain[s].todo /\ e.snap = drain[s].snap
        BY <2>1 DEF Drains
    <2> HIDE DEF e
    <2>4. Sound(e) /\ Narrows(drain[s], e)
        BY <2>1, <2>3 DEF Sound, Narrows
    <2>5. Flows([drain EXCEPT ![s] = e]) /\ NarrowsAll(drain, [drain EXCEPT ![s] = e])
        BY <2>4, SoundDrain, Replaced
    <2> QED BY <2>2, <2>5, FlowsMove
<1>2. CASE Run(s, NoDrain)
    <2>1. NoDrain.pc = "idle"
        BY DEF NoDrain
    <2> QED BY <1>2, <2>1, NoneTyped, RunMoves DEF Narrows
<1> QED BY <1>1, <1>2, FailMoves DEF Upload

LEMMA IdleMoves ==
    ASSUME TypeInv, NEW s \in Sessions, Run(s, NoDrain)
    PROVE  DrainMoves
<1>1. NoDrain.pc = "idle"
    BY DEF NoDrain
<1> QED BY <1>1, NoneTyped, RunMoves DEF Narrows

LEMMA SendMoves ==
    ASSUME TypeInv, NEW s \in Sessions, Send(s)
    PROVE  DrainMoves
<1>1. UNCHANGED <<plan, store, session, vers, create, remote, history>>
    BY DEF Send
<1>2. CASE drain[s].queued /\ Owns(s) /\ Run(s, Batch(drain[s].news))
    <2>1. drain[s].news \in BOOLEAN
        BY SoundDrain DEF Drains
    <2>2. PICK d : d = Batch(drain[s].news)
        OBVIOUS
    <2>3. Sound(d) /\ (d.pc = "idle" \/ (d.snap = mem /\ d.todo = Dirty))
        BY <2>1, <2>2, BatchSound
    <2>4. Run(s, d)
        BY <1>2, <2>2
    <2>5. Up
        BY <1>2 DEF Send, At, Owns, TypeInv, Window, Unbegun
    <2>6. Narrows(drain[s], d) \/ (s = rev /\ d.snap = mem /\ d.todo = Dirty)
        BY <1>2, <2>3 DEF Narrows, Owns
    <2> QED BY <1>1, <2>3, <2>4, <2>5, <2>6, RunMoves
<1>3. ASSUME NEW i \in drain[s].todo, Run(s, Turn(drain[s], i))
      PROVE  DrainMoves
    <2>1. Sound(Turn(drain[s], i)) /\ Narrows(drain[s], Turn(drain[s], i))
        BY TurnSound DEF Send
    <2> QED BY <1>3, <2>1, RunMoves
<1> QED BY <1>2, <1>3, IdleMoves DEF Send

LEMMA AwaitMoves ==
    ASSUME TypeInv, NEW s \in Sessions, Await(s)
    PROVE  DrainMoves
<1>1. CASE Fail(s)
    BY <1>1, FailMoves
<1>2. CASE At(s, "await") /\ Run(s, Done(s))
    BY <1>2, DoneSound, RunMoves
<1>3. CASE At(s, "await") /\ Run(s, [drain[s] EXCEPT !.pc = "sent"])
    <2> DEFINE e == [drain[s] EXCEPT !.pc = "sent"]
    <2>1. drain[s] \in Drains /\ Sound(drain[s]) /\ drain[s].pc = "await"
        BY <1>3, SoundDrain DEF At
    <2>2. e \in Drains /\ e.pc = "sent" /\ e.cur = drain[s].cur /\ e.todo = drain[s].todo /\ e.snap = drain[s].snap
        BY <2>1 DEF Drains
    <2>3. Run(s, e)
        BY <1>3
    <2> HIDE DEF e
    <2>4. Sound(e) /\ Narrows(drain[s], e)
        BY <2>1, <2>2 DEF Sound, Narrows
    <2> QED BY <2>3, <2>4, RunMoves
<1> QED BY <1>1, <1>2, <1>3 DEF Await

LEMMA CreatedMoves ==
    ASSUME TypeInv, NEW s \in Sessions, Created(s)
    PROVE  DrainMoves
<1>1. At(s, "sent")
    BY DEF Created
<1>2. CASE Run(s, Done(s))
    BY <1>1, <1>2, DoneSound, RunMoves
<1>3. CASE drain' = Queue([drain EXCEPT ![s] = Done(s)])
    <2>1. Flows([drain EXCEPT ![s] = Done(s)]) /\ NarrowsAll(drain, [drain EXCEPT ![s] = Done(s)])
        BY <1>1, SoundDrain, DoneSound, Replaced
    <2> QED BY <1>3, <2>1, FlowsMove
<1>4. Fail(s) \/ Run(s, NoDrain) \/ Run(s, Done(s)) \/ drain' = Queue([drain EXCEPT ![s] = Done(s)])
    BY DEF Created
<1> QED BY <1>2, <1>3, <1>4, FailMoves, IdleMoves

LEMMA WrittenMoves ==
    ASSUME TypeInv, NEW s \in Sessions, Written(s)
    PROVE  DrainMoves
<1>1. At(s, "sent")
    BY DEF Written
<1>2. CASE Run(s, Done(s))
    BY <1>1, <1>2, DoneSound, RunMoves
<1>3. Fail(s) \/ Run(s, NoDrain) \/ Run(s, Done(s))
    BY DEF Written
<1> QED BY <1>2, <1>3, FailMoves, IdleMoves

LEMMA EndsMoves ==
    ASSUME TypeInv, NEW a \in Assets, NEW ok \in BOOLEAN, Ends(a, ok)
    PROVE  DrainMoves
<1> DEFINE e(s) == IF ~ok /\ At(s, "await") /\ drain[s].cur = a THEN [drain[s] EXCEPT !.pc = "failed"] ELSE drain[s]
<1>1. drain' = [s \in Sessions |-> e(s)]
    BY DEF Ends
<1>2. ASSUME NEW s \in Sessions
      PROVE  e(s) \in Drains /\ Sound(e(s)) /\ Narrows(drain[s], e(s))
    <2>1. drain[s] \in Drains /\ Sound(drain[s])
        BY SoundDrain
    <2>2. CASE e(s) = drain[s]
        BY <2>1, <2>2 DEF Narrows
    <2>3. CASE At(s, "await") /\ e(s) = [drain[s] EXCEPT !.pc = "failed"]
        <3> DEFINE d == [drain[s] EXCEPT !.pc = "failed"]
        <3>1. d \in Drains /\ d.pc = "failed" /\ d.cur = drain[s].cur /\ d.todo = drain[s].todo /\ d.snap = drain[s].snap
            BY <2>1 DEF Drains
        <3> HIDE DEF d
        <3>2. Sound(d) /\ Narrows(drain[s], d)
            BY <2>1, <2>3, <3>1 DEF Sound, Narrows, At
        <3> QED BY <2>3, <3>1, <3>2 DEF d
    <2> QED BY <2>2, <2>3
<1> HIDE DEF e
<1> QED BY <1>1, <1>2 DEF DrainMoves, DrainMove, Flows

LEMMA BeginMoves ==
    ASSUME TypeInv, Begin
    PROVE  DrainMoves
<1>1. rev \in Sessions
    BY DEF TypeInv, FlagsTyped
<1>2. UNCHANGED <<plan, store, session, vers, create, remote, history>> /\ Run(rev, Batch(wanted = "new"))
    BY DEF Begin
<1>3. PICK d : d = Batch(wanted = "new")
    OBVIOUS
<1>4. Sound(d) /\ (d.pc = "idle" \/ (d.snap = mem /\ d.todo = Dirty))
    <2>1. PICK new \in BOOLEAN : new = (wanted = "new")
        OBVIOUS
    <2> QED BY <1>3, <2>1, BatchSound
<1>5. Narrows(drain[rev], d) \/ (d.snap = mem /\ d.todo = Dirty)
    BY <1>4 DEF Narrows
<1>6. Up
    BY DEF Begin, TypeInv, Window
<1> QED BY <1>1, <1>2, <1>3, <1>4, <1>5, <1>6, RunMoves

LEMMA DrainStep ==
    ASSUME TypeInv, [Next]_vars
    PROVE  DrainMoves
<1>1. Timer => DrainMoves
    BY DrainSelf, SaveNowMoves DEF Timer
<1>2. Apply => DrainMoves
    <2> SUFFICES ASSUME Apply PROVE DrainMoves
        OBVIOUS
    <2>1. UNCHANGED drain \/ SaveNow(Queue(drain), FALSE)
        BY DEF Apply
    <2>2. Flows(Queue(drain)) /\ NarrowsAll(drain, Queue(drain))
        BY DrainSelf, QueueFlows
    <2>3. SaveNow(Queue(drain), FALSE) => DrainMoves
        BY <2>2, SaveNowMoves
    <2> QED BY <2>1, <2>3, ScheduleMoves
<1>3. ASSUME NEW p \in Projects, NewProject(p)
      PROVE  DrainMoves
    <2>1. SaveNow(Queue(drain), TRUE)
        BY <1>3 DEF NewProject
    <2>2. Flows(Queue(drain)) /\ NarrowsAll(drain, Queue(drain))
        BY DrainSelf, QueueFlows
    <2> QED BY <2>1, <2>2, SaveNowMoves
<1>4. List \/ Started \/ Change => UNCHANGED drain \/ Schedule
    BY DEF List, Started, Change, Leave, Rescope, Rehydrate, Resume
<1>5. ASSUME NEW p \in Projects, ProjectReady(p) \/ AgentProject(p) \/ Delete(p) \/ Staged(p) \/ Deleted(p)
      PROVE  UNCHANGED drain \/ Schedule
    BY <1>5 DEF ProjectReady, AgentProject, Delete, Staged, Deleted, Refused
<1>6. ASSUME NEW a \in Assets, SaveAsset(a) \/ Edit(a) \/ DropAsset(a) \/ Dropped(a)
      PROVE  UNCHANGED drain \/ Schedule
    BY <1>6 DEF SaveAsset, Edit, DropAsset, Dropped
<1>7. ASSUME NEW a \in Assets, Prepared(a) \/ Saved(a)
      PROVE  DrainMoves
    <2>1. UNCHANGED drain \/ Ends(a, FALSE) \/ Ends(a, Owns(write[a].s) /\ mem[a] = write[a].ver)
        BY <1>7 DEF Prepared, Saved
    <2>2. PICK ok \in BOOLEAN : ok = (Owns(write[a].s) /\ mem[a] = write[a].ver)
        OBVIOUS
    <2> QED BY <2>1, <2>2, EndsMoves, ScheduleMoves
<1>8. ASSUME NEW s \in Sessions, Upload(s) \/ Send(s) \/ Await(s) \/ Created(s) \/ Written(s)
      PROVE  DrainMoves
    BY <1>8, UploadMoves, SendMoves, AwaitMoves, CreatedMoves, WrittenMoves
<1>9. ASSUME NEW i \in Items, There(i)
      PROVE  UNCHANGED drain
    BY <1>9 DEF There
<1>10. UNCHANGED vars => UNCHANGED drain
    BY DEF vars
<1> QED BY <1>1, <1>2, <1>3, <1>4, <1>5, <1>6, <1>7, <1>8, <1>9, <1>10, BeginMoves, ScheduleMoves DEF Next, Change

----------------------------------------------------------------------------
(* How the stores move *)

\* An item somebody has made.
Made(i) == \E n \in DOMAIN edits : edits[n].item = i
Marks == [item : Items, how : {"here", "late", "there"}]

LEMMA MadeNow ==
    ASSUME TypeInv, NEW e \in Marks, edits' = Append(edits, e)
    PROVE  Made(e.item)' /\ \A i \in Items : Made(i) => Made(i)'
<1>1. edits \in Seq(Marks)
    BY DEF TypeInv, HistoryTyped, Marks
<1>2. DOMAIN edits' = 1..Len(edits) + 1 /\ DOMAIN edits = 1..Len(edits) /\ Len(edits) \in Nat
    BY <1>1
<1>3. edits'[Len(edits) + 1] = e /\ \A n \in DOMAIN edits : edits'[n] = edits[n]
    BY <1>1, <1>2
<1> QED BY <1>2, <1>3 DEF Made

\* Where a version in the stores comes from.
MemMove(i) ==
    \/ mem'[i] = mem[i]
    \/ mem'[i] = 0
    \/ Up /\ Mine(i) /\ mem'[i] = Version /\ (i \in Projects => New(i)) /\ Made(i)'
    \/ \E s \in Sessions : At(s, "upload") /\ Owns(s) /\ Replaces(drain[s], i) /\ mem'[i] = drain[s].snap[i]
    \/ login.pc = "fetch" /\ mem'[i] = login.snap[i]
    \/ login.pc = "fetch" /\ i \in login.newer /\ mem'[i] = server[i]
MemMoves == UNCHANGED rev /\ \A i \in Items : MemMove(i)

LEMMA SnapTyped ==
    ASSUME TypeInv
    PROVE  /\ \A s \in Sessions : drain[s].snap \in [Items -> Versions]
           /\ login.snap \in [Items -> Versions] /\ server \in [Items -> Versions]
           /\ mem \in [Items -> Versions] /\ vers \in [Items -> Versions]
<1>1. \A s \in Sessions : drain[s].snap \in [Items -> Versions]
    BY SoundDrain DEF Drains
<1>2. login.snap \in [Items -> Versions]
    BY DEF TypeInv, LoginTyped
<1> QED BY <1>1, <1>2 DEF TypeInv, ServerTyped, StoreTyped, VersTyped

LEMMA EditMoves ==
    ASSUME TypeInv, UNCHANGED rev, NEW i \in Items, Edited(i), i \in Projects => New(i)
    PROVE  mem' \in [Items -> Versions] /\ MemMoves
<1>1. mem' = [mem EXCEPT ![i] = Version] /\ Up /\ Mine(i) /\ Len(edits) < MaxEdits
    BY DEF Edited
<1>2. Version \in Versions
    BY <1>1, SyncAssumption DEF Version, Versions, TypeInv, HistoryTyped
<1>3. mem \in [Items -> Versions]
    BY SnapTyped
<1>4. mem' \in [Items -> Versions]
    BY <1>1, <1>2, <1>3
<1>5. Made(i)'
    <2> DEFINE e == [item |-> i, how |-> When(i)]
    <2>1. e \in Marks /\ e.item = i
        BY DEF Marks, When
    <2>2. edits' = Append(edits, e)
        BY DEF Edited
    <2> HIDE DEF e
    <2> QED BY <2>1, <2>2, MadeNow
<1>6. \A j \in Items : MemMove(j)
    BY <1>1, <1>2, <1>3, <1>5 DEF MemMove
<1> QED BY <1>4, <1>6 DEF MemMoves

LEMMA ClearMoves ==
    ASSUME TypeInv, UNCHANGED rev, UNCHANGED mem \/ \E i \in Items : mem' = [mem EXCEPT ![i] = 0]
    PROVE  mem' \in [Items -> Versions] /\ MemMoves
<1>1. mem \in [Items -> Versions]
    BY SnapTyped
<1>2. CASE UNCHANGED mem
    BY <1>1, <1>2 DEF MemMoves, MemMove
<1>3. ASSUME NEW i \in Items, mem' = [mem EXCEPT ![i] = 0]
      PROVE  mem' \in [Items -> Versions] /\ MemMoves
    BY <1>1, <1>3, NoneTyped DEF MemMoves, MemMove
<1> QED BY <1>2, <1>3

LEMMA MemStep ==
    ASSUME TypeInv, [Next]_vars, ~Change
    PROVE  mem' \in [Items -> Versions] /\ MemMoves
<1>1. UNCHANGED rev
    BY PlanStays
<1>2. mem \in [Items -> Versions] /\ server \in [Items -> Versions] /\ login.snap \in [Items -> Versions]
    BY SnapTyped
<1>3. Timer \/ Begin \/ List \/ Started => UNCHANGED mem
    BY DEF Timer, Begin, List, Started, store
<1>4. CASE Apply
    <2>1. UNCHANGED mem \/ (mem' = Merged /\ login.pc = "fetch")
        BY <1>4 DEF Apply
    <2>2. CASE mem' = Merged /\ login.pc = "fetch"
        <3>1. Merged \in [Items -> Versions]
            BY <1>2, NoneTyped DEF Merged
        <3>2. \A i \in Items : MemMove(i)
            BY <2>2 DEF MemMove, Merged
        <3> QED BY <1>1, <2>2, <3>1, <3>2 DEF MemMoves
    <2> QED BY <1>1, <2>1, <2>2, ClearMoves
<1>5. ASSUME NEW s \in Sessions, Upload(s)
      PROVE  mem' \in [Items -> Versions] /\ MemMoves
    <2>1. UNCHANGED mem \/ (Owns(s) /\ At(s, "upload") /\ mem' = [i \in Items |-> IF Replaces(drain[s], i) THEN drain[s].snap[i] ELSE mem[i]])
        BY <1>5 DEF Upload
    <2>2. CASE Owns(s) /\ At(s, "upload") /\ mem' = [i \in Items |-> IF Replaces(drain[s], i) THEN drain[s].snap[i] ELSE mem[i]]
        <3>1. drain[s].snap \in [Items -> Versions]
            BY SnapTyped
        <3>2. mem' \in [Items -> Versions]
            BY <1>2, <2>2, <3>1
        <3>3. \A i \in Items : MemMove(i)
            BY <2>2 DEF MemMove
        <3> QED BY <1>1, <3>2, <3>3 DEF MemMoves
    <2> QED BY <1>1, <2>1, <2>2, ClearMoves
<1>6. ASSUME NEW s \in Sessions, Send(s) \/ Await(s) \/ Written(s)
      PROVE  UNCHANGED mem
    BY <1>6 DEF Send, Await, Written, store
<1>7. ASSUME NEW s \in Sessions, Created(s)
      PROVE  UNCHANGED mem \/ \E i \in Items : mem' = [mem EXCEPT ![i] = 0]
    BY <1>7 DEF Created, Items, store
<1>8. ASSUME NEW a \in Assets, SaveAsset(a) \/ Saved(a) \/ DropAsset(a)
      PROVE  UNCHANGED mem
    BY <1>8 DEF SaveAsset, Saved, DropAsset, store
<1>9. ASSUME NEW a \in Assets, Prepared(a)
      PROVE  UNCHANGED mem
    BY <1>2, <1>9 DEF Prepared, Unchanged, Items
<1>10. ASSUME NEW a \in Assets, Edit(a) \/ Dropped(a)
      PROVE  mem' \in [Items -> Versions] /\ MemMoves
    <2>1. a \in Items /\ a \notin Projects
        BY SyncAssumption DEF Items
    <2>2. Edited(a) \/ UNCHANGED mem \/ mem' = [mem EXCEPT ![a] = 0]
        BY <1>10 DEF Edit, Dropped, store
    <2> QED BY <1>1, <2>1, <2>2, EditMoves, ClearMoves
<1>11. ASSUME NEW p \in Projects, ProjectReady(p) \/ Delete(p) \/ Staged(p)
      PROVE  UNCHANGED mem
    BY <1>11 DEF ProjectReady, Delete, Staged, store
<1>12. ASSUME NEW p \in Projects, NewProject(p) \/ AgentProject(p) \/ Deleted(p)
      PROVE  mem' \in [Items -> Versions] /\ MemMoves
    <2>1. p \in Items
        BY DEF Items
    <2>2. (Edited(p) /\ New(p)) \/ UNCHANGED mem \/ mem' = [mem EXCEPT ![p] = 0]
        BY <1>12 DEF NewProject, AgentProject, Deleted
    <2> QED BY <1>1, <2>1, <2>2, EditMoves, ClearMoves
<1>13. ASSUME NEW i \in Items, There(i)
      PROVE  UNCHANGED mem
    BY <1>13 DEF There, store
<1>14. UNCHANGED vars => UNCHANGED mem
    BY DEF vars, store
<1> QED BY <1>1, <1>3, <1>4, <1>5, <1>6, <1>7, <1>8, <1>9, <1>10, <1>11, <1>12, <1>13, <1>14, ClearMoves DEF Next, Change

\* Where a version the client believes the server to have comes from.
VersMove(i) ==
    \/ vers'[i] = vers[i]
    \/ vers'[i] = 0
    \/ \E s \in Sessions : Owns(s) /\ vers'[i] = drain[s].snap[i]
    \/ i \in Assets /\ write[i].pc # "idle" /\ Owns(write[i].s) /\ vers'[i] = write[i].ver
    \/ i \in Projects /\ create[i].pc # "idle" /\ Owns(create[i].s) /\ vers'[i] = create[i].ver
    \/ login.pc = "resume" /\ Mine(i) /\ vers'[i] = server[i]
VersMoves == UNCHANGED rev /\ \A i \in Items : VersMove(i)

LEMMA VersSet ==
    ASSUME TypeInv, UNCHANGED rev, NEW i \in Items, NEW v \in Versions, vers' = [vers EXCEPT ![i] = v],
           \/ v = 0
           \/ \E s \in Sessions : Owns(s) /\ v = drain[s].snap[i]
           \/ i \in Assets /\ write[i].pc # "idle" /\ Owns(write[i].s) /\ v = write[i].ver
           \/ i \in Projects /\ create[i].pc # "idle" /\ Owns(create[i].s) /\ v = create[i].ver
    PROVE  vers' \in [Items -> Versions] /\ VersMoves
<1>1. vers \in [Items -> Versions]
    BY SnapTyped
<1>2. vers' \in [Items -> Versions]
    BY <1>1
<1>3. ASSUME NEW j \in Items
      PROVE  VersMove(j)
    <2>1. CASE j # i
        BY <1>1, <2>1 DEF VersMove
    <2>2. CASE j = i
        <3>1. vers'[j] = v
            BY <1>1, <2>2
        <3> QED BY <2>2, <3>1 DEF VersMove
    <2> QED BY <2>1, <2>2
<1> QED BY <1>2, <1>3 DEF VersMoves

LEMMA VersSame ==
    ASSUME TypeInv, UNCHANGED rev, UNCHANGED vers
    PROVE  vers' \in [Items -> Versions] /\ VersMoves
BY SnapTyped DEF VersMoves, VersMove

LEMMA WriteVersions ==
    ASSUME TypeInv
    PROVE  /\ \A a \in Assets : write[a].ver \in Versions /\ write[a].s \in Sessions
           /\ \A p \in Projects : create[p].ver \in Versions /\ create[p].s \in Sessions
BY DEF TypeInv, WriteTyped

LEMMA VersStep ==
    ASSUME TypeInv, [Next]_vars, ~Change
    PROVE  vers' \in [Items -> Versions] /\ VersMoves
<1>1. UNCHANGED rev
    BY PlanStays
<1>2. Timer \/ Begin \/ Apply \/ Started => UNCHANGED vers
    BY DEF Timer, Begin, Apply, Started
<1>3. CASE List
    <2> DEFINE there == [i \in Items |-> IF Mine(i) THEN server[i] ELSE 0]
    <2>1. UNCHANGED vers \/ vers' = there
        BY <1>3 DEF List
    <2>2. CASE vers' = there
        <3>1. there \in [Items -> Versions]
            BY SnapTyped, NoneTyped
        <3>2. \A i \in Items : VersMove(i)
            BY <1>3, <2>2 DEF VersMove, List
        <3> QED BY <1>1, <2>2, <3>1, <3>2 DEF VersMoves
    <2> QED BY <1>1, <2>1, <2>2, VersSame
<1>4. ASSUME NEW s \in Sessions, Upload(s) \/ Send(s) \/ Await(s)
      PROVE  UNCHANGED vers
    BY <1>4 DEF Upload, Send, Await
<1>5. ASSUME NEW s \in Sessions, Created(s) \/ Written(s)
      PROVE  vers' \in [Items -> Versions] /\ VersMoves
    <2> DEFINE i == drain[s].cur
    <2>1. i \in Items
        BY <1>5 DEF Created, Written, Items
    <2>2. \/ UNCHANGED vers
          \/ vers' = [vers EXCEPT ![i] = 0]
          \/ Owns(s) /\ vers' = [vers EXCEPT ![i] = drain[s].snap[i]]
        BY <1>5 DEF Created, Written
    <2>3. drain[s].snap[i] \in Versions /\ 0 \in Versions
        BY <2>1, SnapTyped, NoneTyped
    <2> HIDE DEF i
    <2>4. CASE vers' = [vers EXCEPT ![i] = 0]
        BY <1>1, <2>1, <2>3, <2>4, VersSet
    <2>5. CASE Owns(s) /\ vers' = [vers EXCEPT ![i] = drain[s].snap[i]]
        BY <1>1, <2>1, <2>3, <2>5, VersSet
    <2> QED BY <1>1, <2>2, <2>4, <2>5, VersSame
<1>6. ASSUME NEW a \in Assets, SaveAsset(a) \/ Prepared(a) \/ Edit(a) \/ DropAsset(a)
      PROVE  UNCHANGED vers
    BY <1>6 DEF SaveAsset, Prepared, Edit, DropAsset
<1>7. ASSUME NEW a \in Assets, Saved(a) \/ Dropped(a)
      PROVE  vers' \in [Items -> Versions] /\ VersMoves
    <2>1. a \in Items /\ write[a].ver \in Versions /\ 0 \in Versions
        BY WriteVersions, NoneTyped DEF Items
    <2>2. \/ UNCHANGED vers
          \/ vers' = [vers EXCEPT ![a] = 0]
          \/ write[a].pc # "idle" /\ Owns(write[a].s) /\ vers' = [vers EXCEPT ![a] = write[a].ver]
        BY <1>7 DEF Saved, Dropped
    <2>3. CASE vers' = [vers EXCEPT ![a] = 0]
        BY <1>1, <2>1, <2>3, VersSet
    <2>4. CASE write[a].pc # "idle" /\ Owns(write[a].s) /\ vers' = [vers EXCEPT ![a] = write[a].ver]
        BY <1>1, <2>1, <2>4, VersSet
    <2> QED BY <1>1, <2>2, <2>3, <2>4, VersSame
<1>8. ASSUME NEW p \in Projects, NewProject(p) \/ AgentProject(p) \/ Delete(p) \/ Staged(p)
      PROVE  UNCHANGED vers
    BY <1>8 DEF NewProject, AgentProject, Delete, Staged
<1>9. ASSUME NEW p \in Projects, ProjectReady(p) \/ Deleted(p)
      PROVE  vers' \in [Items -> Versions] /\ VersMoves
    <2>1. p \in Items /\ create[p].ver \in Versions /\ 0 \in Versions
        BY WriteVersions, NoneTyped DEF Items
    <2>2. \/ UNCHANGED vers
          \/ vers' = [vers EXCEPT ![p] = 0]
          \/ create[p].pc # "idle" /\ Owns(create[p].s) /\ vers' = [vers EXCEPT ![p] = create[p].ver]
        BY <1>9 DEF ProjectReady, Deleted
    <2>3. CASE vers' = [vers EXCEPT ![p] = 0]
        BY <1>1, <2>1, <2>3, VersSet
    <2>4. CASE create[p].pc # "idle" /\ Owns(create[p].s) /\ vers' = [vers EXCEPT ![p] = create[p].ver]
        BY <1>1, <2>1, <2>4, VersSet
    <2> QED BY <1>1, <2>2, <2>3, <2>4, VersSame
<1>10. ASSUME NEW i \in Items, There(i)
      PROVE  UNCHANGED vers
    BY <1>10 DEF There
<1>11. UNCHANGED vars => UNCHANGED vers
    BY DEF vars
<1> QED BY <1>1, <1>2, <1>3, <1>4, <1>5, <1>6, <1>7, <1>8, <1>9, <1>10, <1>11, VersSame DEF Next, Change

----------------------------------------------------------------------------
(* How the writes of one asset and the creations of one canvas move *)

WriteMove(a) ==
    \/ write'[a].s = write[a].s /\ write'[a].ver = write[a].ver /\ (write[a].pc = "idle" => write'[a].pc = "idle")
    \/ write'[a].s = rev /\ write'[a].ver = mem[a] /\ Up /\ UNCHANGED <<rev, phase>>
CreateMove(p) ==
    \/ create'[p].s = create[p].s /\ create'[p].ver = create[p].ver /\ create'[p].pc \in {create[p].pc, "idle"}
    \/ create'[p].s = rev /\ Mine(p) /\ Up /\ UNCHANGED <<rev, phase>> /\ May("agent")
Writes == [pc : {"idle", "upload", "sent"}, s : Sessions, ver : Versions]
Creates == [pc : {"idle", "sent"}, s : Sessions, ver : Versions]
WriteMoves ==
    /\ write' \in [Assets -> Writes] /\ \A a \in Assets : WriteMove(a)
CreateMoves ==
    /\ create' \in [Projects -> Creates] /\ \A p \in Projects : CreateMove(p)

LEMMA WritesTyped ==
    ASSUME TypeInv
    PROVE  write \in [Assets -> Writes] /\ create \in [Projects -> Creates]
BY DEF TypeInv, WriteTyped, Writes, Creates

LEMMA WriteSet ==
    ASSUME TypeInv, NEW a \in Assets, NEW w \in Writes, write' = [write EXCEPT ![a] = w],
           \/ w.s = write[a].s /\ w.ver = write[a].ver /\ (write[a].pc = "idle" => w.pc = "idle")
           \/ w.s = rev /\ w.ver = mem[a] /\ Up /\ UNCHANGED <<rev, phase>>
    PROVE  WriteMoves
<1>1. write \in [Assets -> Writes]
    BY WritesTyped
<1>2. \A b \in Assets : WriteMove(b)
    BY <1>1 DEF WriteMove
<1> QED BY <1>1, <1>2 DEF WriteMoves

LEMMA WriteStep ==
    ASSUME TypeInv, [Next]_vars
    PROVE  WriteMoves
<1>1. write \in [Assets -> Writes]
    BY WritesTyped
<1>2. UNCHANGED write => WriteMoves
    BY <1>1 DEF WriteMoves, WriteMove
<1>3. Timer \/ Begin \/ List \/ Apply \/ Started \/ Change => UNCHANGED write
    BY DEF Timer, Begin, List, Apply, Started, Change, Leave, Rescope, Rehydrate, Resume
<1>4. ASSUME NEW s \in Sessions, Upload(s) \/ Send(s) \/ Await(s) \/ Created(s) \/ Written(s)
      PROVE  UNCHANGED write
    BY <1>4 DEF Upload, Send, Await, Created, Written
<1>5. ASSUME NEW a \in Assets, Edit(a) \/ DropAsset(a) \/ Dropped(a)
      PROVE  UNCHANGED write
    BY <1>5 DEF Edit, DropAsset, Dropped
<1>6. ASSUME NEW a \in Assets, SaveAsset(a) \/ Prepared(a) \/ Saved(a)
      PROVE  WriteMoves
    <2>1. mem[a] \in Versions /\ rev \in Sessions /\ write[a] \in Writes /\ UNCHANGED <<rev, phase>>
        <3>1. mem \in [Items -> Versions] /\ a \in Items
            BY SnapTyped DEF Items
        <3>2. UNCHANGED <<rev, phase>>
            BY <1>6 DEF SaveAsset, Prepared, Saved, session
        <3> QED BY <1>1, <3>1, <3>2 DEF TypeInv, FlagsTyped
    <2>2. CASE Up /\ write' = [write EXCEPT ![a] = [pc |-> "upload", s |-> rev, ver |-> mem[a]]]
        <3> DEFINE w == [pc |-> "upload", s |-> rev, ver |-> mem[a]]
        <3>1. w \in Writes /\ w.s = rev /\ w.ver = mem[a]
            BY <2>1 DEF Writes
        <3>2. write' = [write EXCEPT ![a] = w]
            BY <2>2
        <3> HIDE DEF w
        <3> QED BY <2>1, <2>2, <3>1, <3>2, WriteSet
    <2>3. ASSUME NEW pc \in {"idle", "sent"}, write[a].pc # "idle", write' = [write EXCEPT ![a].pc = pc]
          PROVE  WriteMoves
        <3> DEFINE w == [write[a] EXCEPT !.pc = pc]
        <3>1. w \in Writes /\ w.s = write[a].s /\ w.ver = write[a].ver
            BY <2>1 DEF Writes
        <3>2. write' = [write EXCEPT ![a] = w]
            BY <1>1, <2>3
        <3> HIDE DEF w
        <3> QED BY <2>3, <3>1, <3>2, WriteSet
    <2>4. CASE Up /\ Owns(write[a].s) /\ write' = [write EXCEPT ![a].ver = mem[a]]
        <3> DEFINE w == [write[a] EXCEPT !.ver = mem[a]]
        <3>1. w \in Writes /\ w.s = rev /\ w.ver = mem[a]
            BY <2>1, <2>4 DEF Writes, Owns
        <3>2. write' = [write EXCEPT ![a] = w]
            BY <1>1, <2>4
        <3> HIDE DEF w
        <3> QED BY <2>1, <2>4, <3>1, <3>2, WriteSet
    <2>5. CASE Up /\ Owns(write[a].s) /\ write' = [write EXCEPT ![a].pc = "upload", ![a].ver = mem[a]]
        <3> DEFINE w == [[write[a] EXCEPT !.pc = "upload"] EXCEPT !.ver = mem[a]]
        <3>1. w \in Writes /\ w.s = rev /\ w.ver = mem[a]
            BY <2>1, <2>5 DEF Writes, Owns
        <3>2. write' = [write EXCEPT ![a] = w]
            BY <1>1, <2>5
        <3> HIDE DEF w
        <3> QED BY <2>1, <2>5, <3>1, <3>2, WriteSet
    <2>6. write[a].pc # "idle" /\ Owns(write[a].s) => Up
        BY DEF TypeInv, Window, Unbegun, Owns
    <2> QED BY <1>6, <2>2, <2>3, <2>4, <2>5, <2>6 DEF SaveAsset, Prepared, Saved, Ends
<1>7. ASSUME NEW p \in Projects, ProjectReady(p) \/ NewProject(p) \/ AgentProject(p) \/ Delete(p) \/ Staged(p) \/ Deleted(p)
      PROVE  UNCHANGED write
    BY <1>7 DEF ProjectReady, NewProject, AgentProject, Delete, Staged, Deleted
<1>8. ASSUME NEW i \in Items, There(i)
      PROVE  UNCHANGED write
    BY <1>8 DEF There
<1>9. UNCHANGED vars => UNCHANGED write
    BY DEF vars
<1> QED BY <1>2, <1>3, <1>4, <1>5, <1>6, <1>7, <1>8, <1>9 DEF Next, Change

LEMMA CreateStep ==
    ASSUME TypeInv, [Next]_vars
    PROVE  CreateMoves
<1>1. create \in [Projects -> Creates]
    BY WritesTyped
<1>2. UNCHANGED create => CreateMoves
    BY <1>1 DEF CreateMoves, CreateMove
<1>3. Timer \/ Begin \/ List \/ Apply \/ Started \/ Change => UNCHANGED create
    BY DEF Timer, Begin, List, Apply, Started, Change, Leave, Rescope, Rehydrate, Resume
<1>4. ASSUME NEW s \in Sessions, Upload(s) \/ Send(s) \/ Await(s) \/ Created(s) \/ Written(s)
      PROVE  UNCHANGED create
    BY <1>4 DEF Upload, Send, Await, Created, Written
<1>5. ASSUME NEW a \in Assets, SaveAsset(a) \/ Prepared(a) \/ Saved(a) \/ Edit(a) \/ DropAsset(a) \/ Dropped(a)
      PROVE  UNCHANGED create
    BY <1>5 DEF SaveAsset, Prepared, Saved, Edit, DropAsset, Dropped
<1>6. ASSUME NEW p \in Projects, NewProject(p) \/ Delete(p) \/ Staged(p) \/ Deleted(p)
      PROVE  UNCHANGED create
    BY <1>6 DEF NewProject, Delete, Staged, Deleted
<1>7. ASSUME NEW p \in Projects, ProjectReady(p)
      PROVE  CreateMoves
    <2>1. create' = [create EXCEPT ![p].pc = "idle"]
        BY <1>7 DEF ProjectReady
    <2>2. create' \in [Projects -> Creates] /\ \A q \in Projects : create'[q].s = create[q].s /\ create'[q].ver = create[q].ver
                                                 /\ create'[q].pc \in {create[q].pc, "idle"}
        BY <1>1, <2>1 DEF Creates
    <2> QED BY <2>2 DEF CreateMoves, CreateMove
<1>8. ASSUME NEW p \in Projects, AgentProject(p)
      PROVE  CreateMoves
    <2> DEFINE c == [pc |-> "sent", s |-> rev, ver |-> Version]
    <2>1. create' = [create EXCEPT ![p] = c] /\ Mine(p) /\ Up /\ Len(edits) < MaxEdits /\ UNCHANGED <<rev, phase>> /\ May("agent")
        BY <1>8 DEF AgentProject, Edited, session
    <2>2. c \in Creates /\ c.s = rev
        BY <2>1, SyncAssumption DEF Creates, Version, Versions, TypeInv, HistoryTyped, FlagsTyped
    <2> HIDE DEF c
    <2>3. create' \in [Projects -> Creates] /\ \A q \in Projects : q # p => create'[q] = create[q]
        BY <1>1, <2>1, <2>2
    <2>4. create'[p] = c
        BY <1>1, <2>1
    <2> QED BY <2>1, <2>2, <2>3, <2>4 DEF CreateMoves, CreateMove
<1>9. ASSUME NEW i \in Items, There(i)
      PROVE  UNCHANGED create
    BY <1>9 DEF There
<1>10. UNCHANGED vars => UNCHANGED create
    BY DEF vars
<1> QED BY <1>2, <1>3, <1>4, <1>5, <1>6, <1>7, <1>8, <1>9, <1>10 DEF Next, Change

\* What the start of a session has read.
Logins == [pc : {"idle", "resume", "list", "fetch", "saving"}, snap : [Items -> Versions],
           newer : SUBSET Items, deleted : SUBSET Projects]
LoginMove ==
    \/ login' = login
    \/ login'.snap = None /\ login'.newer = {} /\ login'.pc # "fetch" /\ (login.pc # "idle" \/ Change)
    \/ UNCHANGED <<rev, phase, store, remote, history>> /\ login.pc = "resume" /\ login'.pc = "fetch" /\ login'.snap = mem /\ login'.deleted = {p \in gone : Mine(p)}
       /\ login'.newer = {i \in Items : Mine(i) /\ server[i] > mem[i]}
LoginMoves == login' \in Logins /\ LoginMove

LEMMA LoginStep ==
    ASSUME TypeInv, [Next]_vars
    PROVE  LoginMoves
<1>1. UNCHANGED login => LoginMoves
    BY DEF LoginMoves, LoginMove, TypeInv, LoginTyped, Logins
<1>2. ASSUME NEW l, NEW pc \in {"idle", "resume", "saving"}, l = [NoLogin EXCEPT !.pc = pc], login' = l,
             login.pc # "idle" \/ Change
      PROVE  LoginMoves
    <2>1. l = [pc |-> pc, snap |-> None, newer |-> {}, deleted |-> {}]
        BY <1>2 DEF NoLogin
    <2>2. l \in Logins
        BY <2>1, NoneTyped DEF Logins
    <2>3. l.snap = None /\ l.newer = {} /\ l.pc # "fetch"
        BY <2>1
    <2> QED BY <1>2, <2>2, <2>3 DEF LoginMoves, LoginMove
<1>3. login' = NoLogin /\ (login.pc # "idle" \/ Change) => LoginMoves
    BY NoneTyped DEF LoginMoves, LoginMove, Logins, NoLogin
<1>4. CASE List
    <2> DEFINE there == [i \in Items |-> IF Mine(i) THEN server[i] ELSE 0]
               newer == {i \in Items : there[i] > mem[i]}
               dels == {p \in gone : Mine(p)}
    <2>1. login' = NoLogin \/ login' = [pc |-> "fetch", snap |-> mem, newer |-> newer, deleted |-> dels]
        BY <1>4 DEF List, Quit
    <2>2. CASE login' = [pc |-> "fetch", snap |-> mem, newer |-> newer, deleted |-> dels]
        <3>1. mem \in [Items -> Versions] /\ dels \subseteq Projects /\ newer \subseteq Items
            BY SnapTyped DEF TypeInv, ServerTyped
        <3>2. newer = {i \in Items : Mine(i) /\ server[i] > mem[i]}
            <4>1. \A i \in Items : mem[i] \in Nat
                BY <3>1 DEF Versions
            <4>2. \A i \in Items : there[i] > mem[i] <=> Mine(i) /\ server[i] > mem[i]
                BY <4>1
            <4> QED BY <4>2
        <3>3. UNCHANGED <<rev, phase, store, remote, history>> /\ login.pc = "resume"
            BY <1>4 DEF List
        <3> HIDE DEF newer, dels
        <3>4. login' \in Logins /\ login'.snap = mem /\ login'.newer = newer /\ login'.deleted = dels /\ login'.pc = "fetch"
            BY <2>2, <3>1 DEF Logins
        <3> QED BY <3>2, <3>3, <3>4 DEF LoginMoves, LoginMove, dels
    <2>3. login.pc # "idle"
        BY <1>4 DEF List
    <2> QED BY <1>3, <2>1, <2>2, <2>3
<1>5. CASE Apply
    <2>1. login' = NoLogin \/ login' = [NoLogin EXCEPT !.pc = "saving"]
        BY <1>5 DEF Apply, Quit
    <2>2. login.pc # "idle"
        BY <1>5 DEF Apply
    <2> QED BY <1>2, <1>3, <2>1, <2>2
<1>6. CASE Change
    <2>1. UNCHANGED login \/ login' = NoLogin \/ login' = [NoLogin EXCEPT !.pc = "resume"]
        BY <1>6 DEF Change, Leave, Rescope, Rehydrate, Resume
    <2> QED BY <1>1, <1>2, <1>3, <1>6, <2>1
<1>7. Started => LoginMoves
    BY <1>3 DEF Started
<1>8. Timer \/ Begin => UNCHANGED login
    BY DEF Timer, Begin, session
<1>9. ASSUME NEW s \in Sessions, Upload(s) \/ Send(s) \/ Await(s) \/ Created(s) \/ Written(s)
      PROVE  UNCHANGED login
    BY <1>9 DEF Upload, Send, Await, Created, Written, session
<1>10. ASSUME NEW a \in Assets, SaveAsset(a) \/ Prepared(a) \/ Saved(a) \/ Edit(a) \/ DropAsset(a) \/ Dropped(a)
      PROVE  UNCHANGED login
    BY <1>10 DEF SaveAsset, Prepared, Saved, Edit, DropAsset, Dropped, session
<1>11. ASSUME NEW p \in Projects, ProjectReady(p) \/ NewProject(p) \/ AgentProject(p) \/ Delete(p) \/ Staged(p) \/ Deleted(p)
      PROVE  UNCHANGED login
    BY <1>11 DEF ProjectReady, NewProject, AgentProject, Delete, Staged, Deleted, session
<1>12. ASSUME NEW i \in Items, There(i)
      PROVE  UNCHANGED login
    BY <1>12 DEF There, session
<1>13. UNCHANGED vars => UNCHANGED login
    BY DEF vars, session
<1> QED BY <1>1, <1>4, <1>5, <1>6, <1>7, <1>8, <1>9, <1>10, <1>11, <1>12, <1>13 DEF Next, Change

\* A change of user, step by step.
LeaveMove ==
    /\ Up /\ rev' = rev + 1 /\ rev' \in Sessions /\ phase' = "flush"
    /\ disk' \in [Users -> Stores] /\ disk'[User] = [mem |-> mem, staged |-> staged]
    /\ \A u \in Users : u # User => disk'[u] = disk[u]
    /\ vers' = None /\ login' = NoLogin /\ wanted' = "no" /\ ~timer'
    /\ UNCHANGED <<plan, mem, staged, crossed, loaded, drain, write, create, adel, remote, history>>
ScopeMove ==
    /\ ~Up /\ phase \in {"flush", "scope"} /\ phase' \in {"scope", "read"}
    /\ phase' = "read" => loaded' = disk[User]
    /\ UNCHANGED <<plan, store, rev, timer, vers, wanted, login, drain, write, create, adel, remote, history>>
ResumeMove ==
    /\ phase = "read" /\ Up' /\ mem' = loaded.mem /\ staged' = loaded.staged
    /\ login'.pc = "resume" /\ login'.snap = None /\ login'.newer = {}
    /\ UNCHANGED <<plan, disk, crossed, rev, vers, drain, write, create, adel, remote, history>>

LEMMA ChangeMoves ==
    ASSUME TypeInv, Change
    PROVE  LeaveMove \/ ScopeMove \/ ResumeMove
<1>1. ASSUME Leave PROVE LeaveMove
    <2>1. rev + 1 \in Sessions
        BY <1>1, PlanFacts DEF Leave, TypeInv, FlagsTyped
    <2>2. disk \in [Users -> Stores] /\ [mem |-> mem, staged |-> staged] \in Stores /\ User \in Users
        BY PlanFacts DEF TypeInv, StoreTyped, Stores
    <2>3. disk' = [disk EXCEPT ![User] = [mem |-> mem, staged |-> staged]]
        BY <1>1 DEF Leave
    <2>4. /\ disk' \in [Users -> Stores] /\ disk'[User] = [mem |-> mem, staged |-> staged]
          /\ \A u \in Users : u # User => disk'[u] = disk[u]
        BY <2>2, <2>3
    <2> QED BY <1>1, <2>1, <2>4 DEF Leave, LeaveMove
<1>2. Rescope \/ Rehydrate => ScopeMove
    BY DEF Rescope, Rehydrate, ScopeMove, Up
<1>3. Resume => ResumeMove
    BY DEF Resume, ResumeMove, Up, NoLogin
<1> QED BY <1>1, <1>2, <1>3 DEF Change

LEMMA StagedStep ==
    ASSUME TypeInv, [Next]_vars, ~Change
    PROVE  staged' \subseteq Projects
<1>1. staged \subseteq Projects
    BY DEF TypeInv, StoreTyped
<1>2. Timer \/ Begin \/ List \/ Apply \/ Started => UNCHANGED staged
    BY DEF Timer, Begin, List, Apply, Started, store
<1>3. ASSUME NEW s \in Sessions, Upload(s) \/ Send(s) \/ Await(s) \/ Created(s) \/ Written(s)
      PROVE  UNCHANGED staged \/ staged' \subseteq staged
    BY <1>3 DEF Upload, Send, Await, Created, Written, store
<1>4. ASSUME NEW a \in Assets, SaveAsset(a) \/ Prepared(a) \/ Saved(a) \/ Edit(a) \/ DropAsset(a) \/ Dropped(a)
      PROVE  UNCHANGED staged
    BY <1>4 DEF SaveAsset, Prepared, Saved, Edit, DropAsset, Dropped, store
<1>5. ASSUME NEW p \in Projects, ProjectReady(p) \/ NewProject(p) \/ AgentProject(p) \/ Delete(p) \/ Staged(p) \/ Deleted(p)
      PROVE  staged' \subseteq staged \cup {p}
    BY <1>5 DEF ProjectReady, NewProject, AgentProject, Delete, Staged, Deleted, store
<1>6. ASSUME NEW i \in Items, There(i)
      PROVE  UNCHANGED staged
    BY <1>6 DEF There, store
<1>7. UNCHANGED vars => UNCHANGED staged
    BY DEF vars, store
<1> QED BY <1>1, <1>2, <1>3, <1>4, <1>5, <1>6, <1>7 DEF Next, Change

LEMMA StoreStep ==
    ASSUME TypeInv, [Next]_vars
    PROVE  StoreTyped'
<1>1. disk \in [Users -> Stores] /\ crossed \in BOOLEAN /\ mem \in [Items -> Versions] /\ staged \subseteq Projects
    BY DEF TypeInv, StoreTyped
<1>2. CASE Change
    <2>1. mem' \in [Items -> Versions] /\ staged' \subseteq Projects
        BY <1>1, <1>2, ChangeMoves DEF LeaveMove, ScopeMove, ResumeMove, TypeInv, FlagsTyped, Stores, store
    <2>2. disk' \in [Users -> Stores] /\ crossed' \in BOOLEAN
        BY <1>1, <1>2, ChangeMoves DEF LeaveMove, ScopeMove, ResumeMove, store
    <2> QED BY <2>1, <2>2 DEF StoreTyped
<1>3. CASE ~Change
    <2>1. mem' \in [Items -> Versions] /\ staged' \subseteq Projects
        BY <1>3, MemStep, StagedStep
    <2>2. ASSUME NEW i \in Items, Persist(i), ~Up
          PROVE  disk' \in [Users -> Stores] /\ crossed' \in BOOLEAN
        <3> DEFINE list == [j \in Items |-> IF i \in Assets <=> j \in Assets THEN mem'[j] ELSE disk[Scope].mem[j]]
                   put == [mem |-> list, staged |-> IF i \in Assets THEN disk[Scope].staged ELSE staged']
        <3>1. disk[Scope] \in Stores
            BY <1>1, PlanFacts DEF TypeInv
        <3>2. list \in [Items -> Versions]
            BY <2>1, <3>1 DEF Stores
        <3>3. (IF i \in Assets THEN disk[Scope].staged ELSE staged') \subseteq Projects
            BY <2>1, <3>1 DEF Stores
        <3>4. disk' = [disk EXCEPT ![Scope] = put] /\ crossed' = (crossed \/ phase # "flush")
            BY <2>2 DEF Persist
        <3> HIDE DEF list
        <3>5. put \in Stores
            BY <3>2, <3>3 DEF Stores
        <3> HIDE DEF put
        <3> QED BY <1>1, <3>4, <3>5
    <2>3. Up /\ (\E i \in Items : Persist(i)) => UNCHANGED <<disk, crossed>>
        BY DEF Persist
    <2>4. disk' \in [Users -> Stores] /\ crossed' \in BOOLEAN
        BY <1>1, <1>3, <2>2, <2>3, PlanStays DEF DiskMove
    <2> QED BY <2>1, <2>4 DEF StoreTyped
<1> QED BY <1>2, <1>3

LEMMA FlagsStep ==
    ASSUME TypeInv, [Next]_vars
    PROVE  FlagsTyped' /\ (~Up \/ Leave => wanted' = "no" /\ ~timer')
<1>1. plan' \in Plans /\ rev' \in Sessions'
    <2>1. plan' = plan /\ Sessions' = Sessions
        BY PlanStays DEF Sessions
    <2>2. CASE Change
        BY <2>1, <2>2, ChangeMoves DEF LeaveMove, ScopeMove, ResumeMove, TypeInv, FlagsTyped
    <2>3. CASE ~Change
        BY <2>1, <2>3, PlanStays DEF TypeInv, FlagsTyped
    <2> QED BY <2>2, <2>3
<1>0. phase' \in {"no", "flush", "scope", "read"} /\ loaded' \in Stores
    <2>1. phase \in {"no", "flush", "scope", "read"} /\ loaded \in Stores /\ User \in Users /\ disk \in [Users -> Stores]
        BY PlanFacts DEF TypeInv, FlagsTyped, StoreTyped
    <2>2. Change => phase' \in {"no", "flush", "scope", "read"}
        BY DEF Change, Leave, Rescope, Rehydrate, Resume
    <2>3. Change => UNCHANGED loaded \/ loaded' = disk[User] \/ loaded' = NoStores
        BY DEF Change, Leave, Rescope, Rehydrate, Resume
    <2> QED BY <2>1, <2>2, <2>3, PlanStays, NoneTyped
<1>2. applying \in BOOLEAN /\ timer \in BOOLEAN /\ wanted \in {"no", "sync", "new"}
    BY DEF TypeInv, FlagsTyped
<1> DEFINE Fine == /\ applying' \in BOOLEAN /\ timer' \in BOOLEAN /\ wanted' \in {"no", "sync", "new"}
                   /\ ~Up \/ Leave => wanted' = "no" /\ ~timer'
<1>26. ~Up => wanted = "no" /\ ~timer /\ login.pc = "idle"
    BY DEF TypeInv, Window, NoLogin
<1>27. ~Up => ~Leave
    BY DEF Leave
<1>3. ASSUME NEW s, NEW d, Run(s, d) PROVE applying' \in BOOLEAN /\ timer' = timer
    BY <1>2, <1>3 DEF Run
<1>4. ASSUME NEW s, Fail(s) PROVE applying' \in BOOLEAN /\ timer' \in BOOLEAN /\ (~Up => timer' = timer)
    BY <1>2, <1>4 DEF Fail, Arm
<1>5. Schedule => timer' \in BOOLEAN /\ (~Up => timer' = timer)
    BY <1>2 DEF Schedule, Arm
<1>6. ASSUME NEW f, NEW new, SaveNow(f, new) PROVE wanted' \in {"no", "sync", "new"}
    BY <1>2, <1>6 DEF SaveNow
<1>7. ASSUME NEW f, timer' = Arm(f) PROVE timer' \in BOOLEAN /\ (~Up => timer' = timer)
    BY <1>2, <1>7 DEF Arm
<1>28. Leave => rev' # rev
    BY DEF Leave, TypeInv, FlagsTyped, Sessions
<1>8. Timer => Fine
    BY <1>2, <1>6, <1>26, <1>28 DEF Timer, session
<1>9. Begin => Fine
    BY <1>2, <1>3, <1>26, <1>28 DEF Begin, session
<1>10. List => Fine
    BY <1>2, <1>26, <1>28 DEF List, Quit
<1>11. Apply => Fine
    BY <1>2, <1>6, <1>7, <1>26, <1>28 DEF Apply, Quit
<1>12. Started => Fine
    BY <1>2, <1>5, <1>26, <1>28 DEF Started
<1>13. Change => Fine
    <2>1. Leave => Fine
        BY DEF Leave, Up
    <2>2. ASSUME Rescope \/ Rehydrate \/ Resume PROVE Fine
        <3>1. ~Up /\ UNCHANGED <<timer, wanted>>
            BY <2>2 DEF Rescope, Rehydrate, Resume, Up
        <3>2. applying' \in BOOLEAN
            BY <1>2, <2>2 DEF Rescope, Rehydrate, Resume
        <3> QED BY <1>2, <1>26, <1>27, <3>1, <3>2
    <2> QED BY <2>1, <2>2 DEF Change
<1>14. ASSUME NEW s \in Sessions, Upload(s) PROVE Fine
    <2>1. UNCHANGED <<rev, wanted>>
        BY <1>14 DEF Upload, session
    <2>2. Fail(s) \/ Run(s, NoDrain) \/ (applying' = FALSE /\ UNCHANGED timer)
        BY <1>14 DEF Upload
    <2>3. applying' \in BOOLEAN /\ timer' \in BOOLEAN /\ (~Up => timer' = timer)
        <3>1. CASE applying' = FALSE /\ UNCHANGED timer
            BY <1>2, <3>1
        <3> QED BY <1>2, <1>3, <1>4, <2>2, <3>1
    <2> QED BY <1>2, <1>26, <1>28, <2>1, <2>3
<1>15. ASSUME NEW s \in Sessions, Send(s) \/ Await(s) PROVE Fine
    BY <1>2, <1>3, <1>4, <1>15, <1>26, <1>28 DEF Send, Await, session
<1>16. ASSUME NEW s \in Sessions, Created(s) PROVE Fine
    BY <1>2, <1>3, <1>4, <1>7, <1>16, <1>26, <1>28 DEF Created, session
<1>17. ASSUME NEW s \in Sessions, Written(s) PROVE Fine
    BY <1>2, <1>3, <1>4, <1>17, <1>26, <1>28 DEF Written, session
<1>18. ASSUME NEW a \in Assets, SaveAsset(a) \/ Prepared(a) \/ Saved(a) \/ DropAsset(a) PROVE Fine
    <2>1. UNCHANGED <<rev, applying, timer, wanted>>
        BY <1>18 DEF SaveAsset, Prepared, Saved, DropAsset, session
    <2> QED BY <1>2, <1>26, <1>28, <2>1
<1>19. ASSUME NEW a \in Assets, Edit(a) \/ Dropped(a) PROVE Fine
    BY <1>2, <1>5, <1>19, <1>26, <1>28 DEF Edit, Dropped, session
<1>20. ASSUME NEW p \in Projects, ProjectReady(p) PROVE Fine
    BY <1>2, <1>5, <1>20, <1>26, <1>28 DEF ProjectReady, Refused, session
<1>21. ASSUME NEW p \in Projects, NewProject(p) PROVE Fine
    BY <1>2, <1>6, <1>7, <1>21, <1>26, <1>28 DEF NewProject, Edited, session
<1>22. ASSUME NEW p \in Projects, AgentProject(p) \/ Delete(p) \/ Staged(p) \/ Deleted(p) PROVE Fine
    BY <1>2, <1>5, <1>22, <1>26, <1>28 DEF AgentProject, Delete, Staged, Deleted, session
<1>23. ASSUME NEW i \in Items, There(i) PROVE Fine
    BY <1>2, <1>23, <1>26, <1>28 DEF There, session
<1>24. UNCHANGED vars => Fine
    BY <1>2, <1>26, <1>28 DEF vars, session
<1> HIDE DEF Fine
<1>25. Fine
    BY <1>8, <1>9, <1>10, <1>11, <1>12, <1>13, <1>14, <1>15, <1>16, <1>17, <1>18, <1>19, <1>20, <1>21, <1>22, <1>23, <1>24 DEF Next, Change
<1> QED BY <1>0, <1>1, <1>25 DEF FlagsTyped, Fine

\* The deletions of canvases.
Deletions == [pc : {"idle", "stage", "wait", "sent"}, s : Sessions]
LEMMA DelStep ==
    ASSUME TypeInv, [Next]_vars
    PROVE  del' \in [Projects -> Deletions] /\ adel' \subseteq Assets
<1>1. del \in [Projects -> Deletions] /\ adel \subseteq Assets /\ rev \in Sessions
    BY DEF TypeInv, DelTyped, Deletions, FlagsTyped
<1> DEFINE Fine == del' \in [Projects -> Deletions]
<1>2. ASSUME NEW f \in [Projects -> Deletions], del' = f PROVE Fine
    BY <1>2
<1>3. ASSUME NEW s, NEW d, Run(s, d) PROVE Fine
    BY <1>1, <1>3 DEF Run, Deletions
<1>4. ASSUME NEW s, Fail(s) PROVE Fine
    BY <1>1, <1>4 DEF Fail, Deletions
<1>5. ASSUME NEW p \in Projects, NEW pc \in {"idle", "stage", "wait", "sent"}, NEW s \in Sessions,
             del' = [del EXCEPT ![p] = [pc |-> pc, s |-> s]] \/ del' = [del EXCEPT ![p].pc = pc]
      PROVE  Fine
    BY <1>1, <1>5 DEF Deletions
<1>6. UNCHANGED del => Fine
    BY <1>1
<1>7. UNCHANGED adel => adel' \subseteq Assets
    BY <1>1
<1>8. Begin => Fine /\ UNCHANGED adel
    BY <1>3 DEF Begin
<1>9. Timer \/ List \/ Apply \/ Started => UNCHANGED <<del, adel>>
    BY DEF Timer, List, Apply, Started
<1>10. Change => Fine /\ UNCHANGED adel
    <2> SUFFICES ASSUME Change PROVE Fine /\ UNCHANGED adel
        OBVIOUS
    <2>1. UNCHANGED del \/ del' = [p \in Projects |-> IF p \in staged' THEN [pc |-> "sent", s |-> rev] ELSE del[p]]
        BY DEF Change, Leave, Rescope, Rehydrate, Resume
    <2>2. UNCHANGED adel
        BY DEF Change, Leave, Rescope, Rehydrate, Resume
    <2> QED BY <1>1, <2>1, <2>2 DEF Deletions
<1>11. ASSUME NEW s \in Sessions, Upload(s) \/ Send(s) \/ Await(s) \/ Created(s) \/ Written(s) PROVE Fine /\ UNCHANGED adel
    <2>1. UNCHANGED del \/ Fail(s) \/ \E d : Run(s, d)
        BY <1>11 DEF Upload, Send, Await, Created, Written
    <2>2. UNCHANGED adel
        BY <1>11 DEF Upload, Send, Await, Created, Written
    <2> QED BY <1>3, <1>4, <1>6, <2>1, <2>2
<1>12. ASSUME NEW a \in Assets, SaveAsset(a) \/ Prepared(a) \/ Saved(a) \/ Edit(a) \/ DropAsset(a) \/ Dropped(a)
       PROVE  UNCHANGED del /\ adel' \subseteq Assets
    BY <1>1, <1>12 DEF SaveAsset, Prepared, Saved, Edit, DropAsset, Dropped
<1>13. ASSUME NEW p \in Projects, ProjectReady(p) \/ NewProject(p) \/ AgentProject(p) PROVE UNCHANGED <<del, adel>>
    BY <1>13 DEF ProjectReady, NewProject, AgentProject
<1>14. ASSUME NEW p \in Projects, Delete(p) \/ Staged(p) \/ Deleted(p) PROVE Fine /\ UNCHANGED adel
    <2>1. UNCHANGED adel
        BY <1>14 DEF Delete, Staged, Deleted
    <2>2. \E pc \in {"idle", "stage", "wait", "sent"} : del' = [del EXCEPT ![p] = [pc |-> pc, s |-> rev]] \/ del' = [del EXCEPT ![p].pc = pc]
        BY <1>14 DEF Delete, Staged, Deleted
    <2> QED BY <1>1, <1>5, <2>1, <2>2
<1>15. ASSUME NEW i \in Items, There(i) PROVE UNCHANGED <<del, adel>>
    BY <1>15 DEF There
<1>16. UNCHANGED vars => UNCHANGED <<del, adel>>
    BY DEF vars
<1> HIDE DEF Fine
<1>17. Fine /\ adel' \subseteq Assets
    BY <1>6, <1>7, <1>8, <1>9, <1>10, <1>11, <1>12, <1>13, <1>14, <1>15, <1>16 DEF Next, Change
<1> QED BY <1>17 DEF Fine

\* What a step does to an item on the server.
ServerMove(i) ==
    \/ server'[i] = server[i] \/ server'[i] = 0
    \/ i \in Assets
    \/ i \in Projects /\ Free(i) /\ \E s \in Sessions : At(s, "sent") /\ drain[s].cur = i /\ server'[i] = drain[s].snap[i]
    \/ i \in Projects /\ create[i].pc = "sent"
ServerMoves ==
    /\ server' \in [Items -> Versions] /\ gone' \subseteq Projects
    /\ gone \subseteq gone' /\ \A p \in gone' \ gone : server'[p] = 0
    /\ \A i \in Items : ServerMove(i)

LEMMA ServerSame ==
    ASSUME TypeInv, UNCHANGED <<server, gone>>
    PROVE  ServerMoves
BY SnapTyped DEF ServerMoves, ServerMove, TypeInv, ServerTyped

LEMMA ServerSet ==
    ASSUME TypeInv, NEW i \in Items, NEW v \in Versions, server' = [server EXCEPT ![i] = v],
           UNCHANGED gone \/ (gone' = gone \cup {i} /\ v = 0 /\ i \in Projects),
           \/ v = 0 \/ i \in Assets
           \/ i \in Projects /\ Free(i) /\ \E s \in Sessions : At(s, "sent") /\ drain[s].cur = i /\ v = drain[s].snap[i]
           \/ i \in Projects /\ create[i].pc = "sent"
    PROVE  ServerMoves
<1>1. server \in [Items -> Versions] /\ gone \subseteq Projects
    BY SnapTyped DEF TypeInv, ServerTyped
<1>2. server' \in [Items -> Versions] /\ server'[i] = v /\ \A j \in Items : j # i => server'[j] = server[j]
    BY <1>1
<1>3. \A j \in Items : ServerMove(j)
    BY <1>2 DEF ServerMove
<1>4. gone' \subseteq Projects /\ gone \subseteq gone' /\ \A p \in gone' \ gone : server'[p] = 0
    BY <1>1, <1>2
<1> QED BY <1>2, <1>3, <1>4 DEF ServerMoves

LEMMA ServerStep ==
    ASSUME TypeInv, [Next]_vars
    PROVE  ServerMoves
<1>1. Timer \/ Begin \/ List \/ Apply \/ Started \/ Change => UNCHANGED <<server, gone>>
    BY DEF Timer, Begin, List, Apply, Started, Change, Leave, Rescope, Rehydrate, Resume, remote
<1>2. ASSUME NEW s \in Sessions, Upload(s) \/ Send(s) \/ Await(s) PROVE UNCHANGED <<server, gone>>
    BY <1>2 DEF Upload, Send, Await, remote
<1>3. ASSUME NEW s \in Sessions, Created(s) PROVE ServerMoves
    <2> DEFINE p == drain[s].cur
    <2>1. p \in Projects /\ At(s, "sent") /\ UNCHANGED gone
        BY <1>3 DEF Created
    <2>2. UNCHANGED server \/ (Free(p) /\ server' = [server EXCEPT ![p] = drain[s].snap[p]])
        BY <1>3 DEF Created, Lost, Puts
    <2>3. p \in Items /\ drain[s].snap[p] \in Versions
        BY <2>1, SnapTyped DEF Items
    <2> QED BY <2>1, <2>2, <2>3, ServerSame, ServerSet
<1>4. ASSUME NEW s \in Sessions, Written(s) PROVE ServerMoves
    <2> DEFINE a == drain[s].cur
    <2>1. a \in Assets /\ UNCHANGED gone
        BY <1>4 DEF Written
    <2>2. UNCHANGED server \/ server' = [server EXCEPT ![a] = drain[s].snap[a]]
        BY <1>4 DEF Written, Lost, Puts
    <2>3. a \in Items /\ drain[s].snap[a] \in Versions
        BY <2>1, SnapTyped DEF Items
    <2> QED BY <2>1, <2>2, <2>3, ServerSame, ServerSet
<1>5. ASSUME NEW a \in Assets, SaveAsset(a) \/ Prepared(a) \/ Edit(a) \/ DropAsset(a) PROVE UNCHANGED <<server, gone>>
    BY <1>5 DEF SaveAsset, Prepared, Edit, DropAsset, remote
<1>6. ASSUME NEW a \in Assets, Saved(a) \/ Dropped(a) PROVE ServerMoves
    <2>1. UNCHANGED gone /\ (UNCHANGED server \/ server' = [server EXCEPT ![a] = write[a].ver] \/ server' = [server EXCEPT ![a] = 0])
        BY <1>6 DEF Saved, Dropped, Lost, Puts
    <2>2. a \in Items /\ write[a].ver \in Versions /\ 0 \in Versions
        BY WriteVersions, NoneTyped DEF Items
    <2> QED BY <2>1, <2>2, ServerSame, ServerSet
<1>7. ASSUME NEW p \in Projects, ProjectReady(p) PROVE ServerMoves
    <2>1. UNCHANGED gone /\ create[p].pc = "sent" /\ (UNCHANGED server \/ server' = [server EXCEPT ![p] = create[p].ver])
        BY <1>7 DEF ProjectReady, Lost, Puts
    <2>2. p \in Items /\ create[p].ver \in Versions
        BY WriteVersions DEF Items
    <2> QED BY <2>1, <2>2, ServerSame, ServerSet
<1>8. ASSUME NEW p \in Projects, NewProject(p) \/ AgentProject(p) \/ Delete(p) \/ Staged(p) PROVE UNCHANGED <<server, gone>>
    BY <1>8 DEF NewProject, AgentProject, Delete, Staged, remote
<1>9. ASSUME NEW p \in Projects, Deleted(p) PROVE ServerMoves
    <2>1. UNCHANGED <<server, gone>> \/ (server' = [server EXCEPT ![p] = 0] /\ gone' = gone \cup {p})
        BY <1>9 DEF Deleted, Puts, remote
    <2>2. p \in Items /\ 0 \in Versions
        BY NoneTyped DEF Items
    <2> QED BY <2>1, <2>2, ServerSame, ServerSet
<1>10. ASSUME NEW i \in Items, There(i) PROVE ServerMoves
    <2>1. Version \in Versions /\ 0 \in Versions
        BY <1>10, NoneTyped, SyncAssumption DEF There, Version, Versions, TypeInv, HistoryTyped
    <2>2. \/ i \in Assets /\ server' = [server EXCEPT ![i] = Version] /\ UNCHANGED gone
          \/ i \in Projects /\ server' = [server EXCEPT ![i] = 0] /\ gone' = gone \cup {i}
        BY <1>10 DEF There, Puts, Items
    <2> QED BY <2>1, <2>2, ServerSet
<1>11. UNCHANGED vars => UNCHANGED <<server, gone>>
    BY DEF vars, remote
<1> QED BY <1>1, <1>2, <1>3, <1>4, <1>5, <1>6, <1>7, <1>8, <1>9, <1>10, <1>11, ServerSame DEF Next, Change

\* What is remembered of the edits and the deletions.

LEMMA HistoryStep ==
    ASSUME TypeInv, [Next]_vars
    PROVE  /\ UNCHANGED edits \/ \E e \in Marks : Len(edits) < MaxEdits /\ edits' = Append(edits, e)
           /\ deleted' \in [Items -> {"no", "here", "late"}]
<1> DEFINE Marked == UNCHANGED edits \/ \E e \in Marks : Len(edits) < MaxEdits /\ edits' = Append(edits, e)
           Told == deleted' \in [Items -> {"no", "here", "late"}]
<1>1. deleted \in [Items -> {"no", "here", "late"}]
    BY DEF TypeInv, HistoryTyped
<1>2. UNCHANGED deleted => Told
    BY <1>1
<1>3. UNCHANGED edits => Marked
    OBVIOUS
<1>4. Timer \/ Begin \/ List \/ Apply \/ Started \/ Change => UNCHANGED <<edits, deleted>>
    BY DEF Timer, Begin, List, Apply, Started, Change, Leave, Rescope, Rehydrate, Resume, history
<1>5. ASSUME NEW s \in Sessions, Upload(s) \/ Send(s) \/ Await(s) \/ Created(s) \/ Written(s) PROVE UNCHANGED <<edits, deleted>>
    BY <1>5 DEF Upload, Send, Await, Created, Written, history
<1>6. ASSUME NEW i \in Items, Edited(i) PROVE Marked
    <2> DEFINE e == [item |-> i, how |-> When(i)]
    <2>1. e \in Marks
        BY DEF Marks, When
    <2>2. Len(edits) < MaxEdits /\ edits' = Append(edits, e)
        BY <1>6 DEF Edited
    <2> QED BY <2>1, <2>2
<1>7. ASSUME NEW i \in Items, UNCHANGED deleted \/ deleted' = [deleted EXCEPT ![i] = When(i)] PROVE Told
    BY <1>1, <1>7 DEF When
<1>8. ASSUME NEW a \in Assets, SaveAsset(a) \/ Prepared(a) \/ Saved(a) \/ DropAsset(a) PROVE UNCHANGED <<edits, deleted>>
    BY <1>8 DEF SaveAsset, Prepared, Saved, DropAsset, history
<1>9. ASSUME NEW a \in Assets, Edit(a) \/ Dropped(a) PROVE Marked /\ Told
    <2>1. a \in Items
        BY DEF Items
    <2>2. Edited(a) \/ UNCHANGED edits
        BY <1>9 DEF Edit, Dropped
    <2>3. UNCHANGED deleted \/ deleted' = [deleted EXCEPT ![a] = When(a)]
        BY <1>9 DEF Edit, Dropped
    <2> QED BY <1>3, <1>6, <1>7, <2>1, <2>2, <2>3
<1>10. ASSUME NEW p \in Projects, ProjectReady(p) \/ Delete(p) \/ Staged(p) PROVE UNCHANGED <<edits, deleted>>
    BY <1>10 DEF ProjectReady, Delete, Staged, history
<1>11. ASSUME NEW p \in Projects, NewProject(p) \/ AgentProject(p) \/ Deleted(p) PROVE Marked /\ Told
    <2>1. p \in Items
        BY DEF Items
    <2>2. Edited(p) \/ UNCHANGED edits
        BY <1>11 DEF NewProject, AgentProject, Deleted
    <2>3. UNCHANGED deleted \/ deleted' = [deleted EXCEPT ![p] = When(p)]
        BY <1>11 DEF NewProject, AgentProject, Deleted
    <2> QED BY <1>3, <1>6, <1>7, <2>1, <2>2, <2>3
<1>12. ASSUME NEW i \in Items, There(i) PROVE Marked /\ UNCHANGED deleted
    <2> DEFINE e == [item |-> i, how |-> "there"]
    <2>1. e \in Marks
        BY DEF Marks
    <2>2. Len(edits) < MaxEdits /\ edits' = Append(edits, e) /\ UNCHANGED deleted
        BY <1>12 DEF There
    <2> QED BY <2>1, <2>2
<1>13. UNCHANGED vars => UNCHANGED <<edits, deleted>>
    BY DEF vars, history
<1> HIDE DEF Marked, Told
<1>14. Marked /\ Told
    BY <1>2, <1>3, <1>4, <1>5, <1>8, <1>9, <1>10, <1>11, <1>12, <1>13 DEF Next, Change
<1> QED BY <1>14 DEF Marked, Told

\* The session that is about to begin stays untouched until it begins.
LEMMA WindowStep ==
    ASSUME TypeInv, [Next]_vars
    PROVE  Window'
<1>1. /\ rev \in Nat /\ Sessions \subseteq Nat /\ Sessions' = Sessions
      /\ \A s \in Sessions : Unbegun(s) => drain[s].pc = "idle"
      /\ \A a \in Assets : Unbegun(write[a].s) => write[a].pc = "idle"
      /\ \A p \in Projects : Unbegun(create[p].s) => create[p].pc = "idle"
    BY PlanFacts, PlanStays DEF TypeInv, FlagsTyped, Window, Sessions
<1>2. /\ \A a \in Assets : write[a].s \in Nat /\ write'[a].s \in Nat
      /\ \A p \in Projects : create[p].s \in Nat /\ create'[p].s \in Nat
    BY <1>1, WritesTyped, WriteStep, CreateStep DEF Writes, Creates, WriteMoves, CreateMoves
<1>3. CASE Change
    <2>1. CASE LeaveMove
        <3>1. \A s \in Nat : Unbegun(s)' => Unbegun(s)
            BY <1>1, <2>1 DEF LeaveMove, Unbegun, Up
        <3>2. rev' > 1
            BY <1>1, <2>1, PlanFacts DEF LeaveMove, TypeInv, FlagsTyped
        <3> QED BY <1>1, <1>2, <2>1, <3>1, <3>2 DEF LeaveMove, Window
    <2>2. CASE ScopeMove
        <3>1. \A s \in Nat : Unbegun(s)' => Unbegun(s)
            BY <1>1, <2>2 DEF ScopeMove, Unbegun, Up
        <3> QED BY <1>1, <1>2, <2>2, <3>1 DEF ScopeMove, Window, TypeInv
    <2>3. CASE ResumeMove
        <3>1. \A s \in Nat : Unbegun(s)' => Unbegun(s)
            BY <1>1, <2>3 DEF ResumeMove, Unbegun, Up
        <3> QED BY <1>1, <1>2, <2>3, <3>1 DEF ResumeMove, Window
    <2> QED BY <1>3, <2>1, <2>2, <2>3, ChangeMoves
<1>4. CASE ~Change
    <2>1. UNCHANGED <<rev, phase>> /\ Up' = Up /\ \A s : Unbegun(s)' = Unbegun(s)
        BY <1>4, PlanStays DEF Unbegun, Up
    <2>2. ASSUME NEW s \in Sessions, Unbegun(s) PROVE drain'[s].pc = "idle"
        <3>1. DrainMove(s) /\ ~Starts(s)
            BY <1>1, <2>2, DrainStep DEF DrainMoves, Starts, Unbegun
        <3> QED BY <1>1, <2>2, <3>1 DEF DrainMove, Narrows
    <2>3. ASSUME NEW a \in Assets, Unbegun(write'[a].s) PROVE write'[a].pc = "idle"
        <3>1. WriteMove(a)
            BY WriteStep DEF WriteMoves
        <3> QED BY <1>1, <1>2, <2>3, <3>1 DEF WriteMove, Unbegun
    <2>4. ASSUME NEW p \in Projects, Unbegun(create'[p].s) PROVE create'[p].pc = "idle"
        <3>1. CreateMove(p)
            BY CreateStep DEF CreateMoves
        <3> QED BY <1>1, <1>2, <2>4, <3>1 DEF CreateMove, Unbegun
    <2>5. ASSUME ~Up PROVE rev' > 1 /\ login' = NoLogin /\ vers' = None /\ wanted' = "no" /\ ~timer'
        <3>1. rev > 1 /\ login = NoLogin /\ vers = None /\ login.pc = "idle"
            BY <2>5 DEF TypeInv, Window, NoLogin
        <3>2. login' = NoLogin
            BY <1>4, <3>1, LoginStep DEF LoginMoves, LoginMove
        <3>3. ASSUME NEW i \in Items PROVE vers'[i] = 0
            <4>1. VersMove(i) /\ vers[i] = 0
                BY <1>4, <3>1, VersStep DEF VersMoves, None
            <4>2. ASSUME NEW s \in Sessions, Owns(s) PROVE drain[s].snap[i] = 0
                BY <1>1, <2>5, <4>2, SoundDrain DEF Unbegun, Owns, Sound, None
            <4>3. i \in Assets /\ write[i].pc # "idle" => ~Owns(write[i].s)
                BY <1>1, <2>5 DEF Unbegun, Owns
            <4>4. i \in Projects /\ create[i].pc # "idle" => ~Owns(create[i].s)
                BY <1>1, <2>5 DEF Unbegun, Owns
            <4> QED BY <3>1, <4>1, <4>2, <4>3, <4>4 DEF VersMove
        <3>4. vers' \in [Items -> Versions]
            BY <1>4, VersStep
        <3>5. vers' = None
            BY <3>3, <3>4 DEF None
        <3> QED BY <2>1, <2>5, <3>1, <3>2, <3>5, FlagsStep
    <2>6. \A s \in Sessions : Unbegun(s)' => drain'[s].pc = "idle"
        BY <2>1, <2>2
    <2>7. /\ \A a \in Assets : Unbegun(write[a].s)' => write'[a].pc = "idle"
          /\ \A p \in Projects : Unbegun(create[p].s)' => create'[p].pc = "idle"
        BY <2>1, <2>3, <2>4 DEF Unbegun, Up
    <2> QED BY <1>1, <2>1, <2>5, <2>6, <2>7 DEF Window
<1> QED BY <1>3, <1>4

LEMMA TypeStep ==
    ASSUME TypeInv, [Next]_vars
    PROVE  TypeInv'
<1>1. plan' = plan /\ Sessions' = Sessions
    BY PlanStays DEF Sessions
<1>2. VersTyped'
    <2>1. CASE Change
        BY <2>1, ChangeMoves, NoneTyped DEF LeaveMove, ScopeMove, ResumeMove, VersTyped, TypeInv
    <2> QED BY <2>1, VersStep DEF VersTyped
<1>3. LoginTyped'
    BY LoginStep DEF LoginMoves, Logins, LoginTyped
<1>4. DrainTyped'
    <2>1. Flows(drain')
        BY DrainStep DEF DrainMoves
    <2> QED BY <1>1, <2>1 DEF DrainTyped, Flows
<1>5. WriteTyped'
    BY <1>1, WriteStep, CreateStep DEF WriteMoves, CreateMoves, Writes, Creates, WriteTyped
<1>6. DelTyped'
    BY <1>1, DelStep DEF Deletions, DelTyped
<1>7. ServerTyped'
    BY ServerStep DEF ServerMoves, ServerTyped
<1>8. HistoryTyped'
    <2>1. edits \in Seq(Marks) /\ Len(edits) <= MaxEdits
        BY DEF TypeInv, HistoryTyped, Marks
    <2>2. edits' \in Seq(Marks) /\ Len(edits') <= MaxEdits
        <3>1. CASE UNCHANGED edits
            BY <2>1, <3>1
        <3>2. ASSUME NEW e \in Marks, Len(edits) < MaxEdits, edits' = Append(edits, e)
              PROVE  edits' \in Seq(Marks) /\ Len(edits') <= MaxEdits
            BY <2>1, <3>2, SyncAssumption
        <3> QED BY <3>1, <3>2, HistoryStep
    <2> QED BY <2>2, HistoryStep DEF HistoryTyped, Marks
<1> QED BY <1>2, <1>3, <1>4, <1>5, <1>6, <1>7, <1>8, StoreStep, FlagsStep, WindowStep DEF TypeInv

\* Every variable keeps to its type, and a drain is in a state it can be in.
THEOREM TypeCorrect == Spec => []TypeOK
<1> QED BY TypeInit, TypeStep, TypeParts, PTL DEF Spec

----------------------------------------------------------------------------
(* Whose data a step has in hand *)

\* What an operation took from the stores belongs to the user of its session.
BatchMine == \A s \in Sessions : \A i \in Items : drain[s].snap[i] # 0 => Owner[i] = plan.users[s]
WriteMine == \A a \in Assets : write[a].ver # 0 => Owner[a] = plan.users[write[a].s]
CreateMine == \A p \in Projects : create[p].ver # 0 => Owner[p] = plan.users[create[p].s]
LoginMine == \A i \in Items : login.snap[i] # 0 \/ i \in login.newer => Mine(i)
\* During a change of user the stores still hold what the user before has, and
\* what has been read to replace them belongs to the next one.
ChangeMine ==
    ~Up => \A i \in Items : /\ mem[i] # 0 => Owner[i] = plan.users[rev - 1]
                            /\ phase = "read" /\ loaded.mem[i] # 0 => Owner[i] = User
OwnInv == Isolation /\ ChangeMine /\ BatchMine /\ WriteMine /\ CreateMine /\ LoginMine
IsoInv == ~crossed => OwnInv

LEMMA IsoInit == Init => IsoInv
<1> SUFFICES ASSUME Init PROVE OwnInv
    BY DEF IsoInv
<1>1. /\ mem = None /\ vers = None /\ login = [NoLogin EXCEPT !.pc = "resume"] /\ Up
      /\ disk = [u \in Users |-> NoStores]
      /\ drain = [s \in Sessions |-> NoDrain]
      /\ write = [a \in Assets |-> NoWrite] /\ create = [p \in Projects |-> NoWrite]
    BY DEF Init, Up
<1>2. login.snap = None /\ login.newer = {}
    BY <1>1 DEF NoLogin
<1>3. \A s \in Sessions : drain[s].snap = None
    BY <1>1 DEF NoDrain
<1>4. \A a \in Assets : write[a].ver = 0
    BY <1>1 DEF NoWrite
<1>5. \A p \in Projects : create[p].ver = 0
    BY <1>1 DEF NoWrite
<1>6. \A u \in Users : disk[u].mem = None
    BY <1>1 DEF NoStores
<1> QED BY <1>1, <1>2, <1>3, <1>4, <1>5, <1>6
        DEF OwnInv, Isolation, ChangeMine, BatchMine, WriteMine, CreateMine, LoginMine, None

\* What has been stored under the keys of another user stays so.
LEMMA CrossedStays ==
    ASSUME TypeInv, [Next]_vars
    PROVE  crossed => crossed'
<1>1. crossed \in BOOLEAN
    BY DEF TypeInv, StoreTyped
<1>2. Change => UNCHANGED crossed
    BY ChangeMoves DEF LeaveMove, ScopeMove, ResumeMove, store
<1>3. DiskMove /\ crossed => crossed'
    BY <1>1 DEF DiskMove, Persist
<1> QED BY <1>2, <1>3, PlanStays

\* While the session changes the stores lose what is deleted and gain nothing.
LEMMA ChangingStores ==
    ASSUME TypeInv, [Next]_vars, ~Change, ~Up, NEW i \in Items
    PROVE  mem'[i] = mem[i] \/ mem'[i] = 0
<1>1. login.pc = "idle"
    BY DEF TypeInv, Window, NoLogin
<1>2. \A s \in Sessions : Owns(s) => ~At(s, "upload")
    BY DEF TypeInv, Window, Unbegun, Owns, At
<1>3. MemMove(i)
    BY MemStep DEF MemMoves
<1> QED BY <1>1, <1>2, <1>3 DEF MemMove

\* What is stored is the list of the stores, under the keys of the user in scope.
LEMMA DiskStep ==
    ASSUME TypeInv, [Next]_vars, ~Change, ~crossed'
    PROVE  \/ UNCHANGED disk
           \/ /\ phase = "flush" /\ \A u \in Users : u # Scope => disk'[u] = disk[u]
              /\ \A j \in Items : disk'[Scope].mem[j] = mem'[j] \/ disk'[Scope].mem[j] = disk[Scope].mem[j]
<1>1. disk \in [Users -> Stores] /\ Scope \in Users
    BY PlanFacts DEF TypeInv, StoreTyped
<1>2. ASSUME NEW i \in Items, Persist(i), ~Up
      PROVE  /\ phase = "flush" /\ \A u \in Users : u # Scope => disk'[u] = disk[u]
             /\ \A j \in Items : disk'[Scope].mem[j] = mem'[j] \/ disk'[Scope].mem[j] = disk[Scope].mem[j]
    <2>1. crossed' = (crossed \/ phase # "flush")
        BY <1>2 DEF Persist
    <2>2. disk' = [disk EXCEPT ![Scope] =
               [mem |-> [j \in Items |-> IF i \in Assets <=> j \in Assets THEN mem'[j] ELSE disk[Scope].mem[j]],
                staged |-> IF i \in Assets THEN disk[Scope].staged ELSE staged']]
        BY <1>2 DEF Persist
    <2>3. \A u \in Users : u # Scope => disk'[u] = disk[u]
        BY <1>1, <2>2
    <2>4. disk'[Scope].mem = [j \in Items |-> IF i \in Assets <=> j \in Assets THEN mem'[j] ELSE disk[Scope].mem[j]]
        BY <1>1, <2>2
    <2> QED BY <2>1, <2>3, <2>4
<1>3. ASSUME NEW i \in Items, Persist(i), Up
      PROVE  UNCHANGED disk
    BY <1>3 DEF Persist
<1> QED BY <1>2, <1>3, PlanStays DEF DiskMove

\* Outside a change of user nothing else changes who is signed in.
LEMMA SteadyStep ==
    ASSUME TypeInv, [Next]_vars, ~Change
    PROVE  /\ UNCHANGED <<plan, rev, phase, loaded>> /\ Up' = Up /\ User' = User /\ Scope' = Scope
           /\ \A i \in Items : Mine(i)' = Mine(i)
BY PlanStays DEF Up, User, Scope, Mine

LEMMA StoresStayMine ==
    ASSUME TypeInv, OwnInv, [Next]_vars, ~crossed'
    PROVE  Isolation' /\ ChangeMine'
<1>1. plan' = plan /\ rev \in Nat /\ disk \in [Users -> Stores] /\ User \in Users
    BY PlanStays, PlanFacts DEF TypeInv, FlagsTyped, StoreTyped, Sessions
<1>2. CASE LeaveMove
    <2>1. Scope = User /\ \A i \in Items : mem[i] # 0 => Owner[i] = User
        BY <1>2 DEF LeaveMove, OwnInv, Isolation, Mine, Scope, Up
    <2>2. \A u \in Users : \A i \in Items : disk'[u].mem[i] # 0 => Owner[i] = u
        BY <1>2, <2>1 DEF LeaveMove, OwnInv, Isolation
    <2>3. ~Up' /\ phase' # "read" /\ rev' - 1 = rev /\ vers' = None
        BY <1>1, <1>2 DEF LeaveMove, Up
    <2>4. Isolation'
        BY <2>2, <2>3 DEF Isolation, None
    <2>5. ChangeMine'
        BY <1>1, <1>2, <2>1, <2>3 DEF LeaveMove, ChangeMine, User
    <2> QED BY <2>4, <2>5
<1>3. CASE ScopeMove
    <2>1. ~Up /\ ~Up' /\ User' = User /\ UNCHANGED <<mem, disk>> /\ vers' = None
        BY <1>1, <1>3 DEF ScopeMove, Up, User, store, TypeInv, Window
    <2>2. Isolation'
        BY <2>1 DEF Isolation, None, OwnInv
    <2>3. ChangeMine'
        BY <1>1, <1>3, <2>1 DEF ScopeMove, ChangeMine, OwnInv, Isolation
    <2> QED BY <2>2, <2>3
<1>4. CASE ResumeMove
    <2>1. ~Up /\ Up' /\ Scope' = User /\ UNCHANGED disk /\ vers' = None /\ mem' = loaded.mem
        BY <1>1, <1>4 DEF ResumeMove, Up, User, Scope, TypeInv, Window
    <2>2. \A i \in Items : mem'[i] # 0 => Mine(i)'
        BY <1>4, <2>1 DEF ResumeMove, OwnInv, ChangeMine, Mine
    <2> QED BY <2>1, <2>2 DEF Isolation, ChangeMine, OwnInv, None
<1>5. CASE ~Change
    <2>1. UNCHANGED <<plan, rev, phase, loaded>> /\ Up' = Up /\ User' = User /\ \A i \in Items : Mine(i)' = Mine(i)
        BY <1>5, SteadyStep
    <2>2. CASE Up
        <3>1. UNCHANGED disk
            BY <1>5, <2>2, DiskStep DEF Up
        <3>2. ASSUME NEW s \in Sessions, Owns(s), NEW i \in Items, drain[s].snap[i] # 0
              PROVE  Mine(i)
            BY <2>2, <3>2 DEF OwnInv, BatchMine, Owns, Mine, User, Scope, Up
        <3>3. ASSUME NEW i \in Items, mem'[i] # 0
              PROVE  Mine(i)
            <4>1. MemMove(i)
                BY <1>5, MemStep DEF MemMoves
            <4>2. mem[i] # 0 => Mine(i)
                BY <2>2 DEF OwnInv, Isolation
            <4>3. login.snap[i] # 0 \/ i \in login.newer => Mine(i)
                BY DEF OwnInv, LoginMine
            <4> QED BY <3>2, <3>3, <4>1, <4>2, <4>3 DEF MemMove
        <3>4. ASSUME NEW i \in Items, vers'[i] # 0
              PROVE  Mine(i)
            <4>1. VersMove(i)
                BY <1>5, VersStep DEF VersMoves
            <4>2. vers[i] # 0 => Mine(i)
                BY DEF OwnInv, Isolation
            <4>3. i \in Assets /\ Owns(write[i].s) /\ write[i].ver # 0 => Mine(i)
                BY <2>2 DEF OwnInv, WriteMine, Owns, Mine, User, Scope, Up
            <4>4. i \in Projects /\ Owns(create[i].s) /\ create[i].ver # 0 => Mine(i)
                BY <2>2 DEF OwnInv, CreateMine, Owns, Mine, User, Scope, Up
            <4> QED BY <3>2, <3>4, <4>1, <4>2, <4>3, <4>4 DEF VersMove
        <3> QED BY <2>1, <2>2, <3>1, <3>3, <3>4 DEF Isolation, ChangeMine, OwnInv
    <2>3. CASE ~Up
        <3>1. \A i \in Items : mem'[i] # 0 => mem'[i] = mem[i] /\ Owner[i] = plan.users[rev - 1]
            BY <1>5, <2>3, ChangingStores DEF OwnInv, ChangeMine
        <3>2. vers' = None
            BY <2>1, <2>3, WindowStep DEF Window
        <3>3. \A u \in Users : \A i \in Items : disk'[u].mem[i] # 0 => Owner[i] = u
            <4>1. CASE UNCHANGED disk
                BY <4>1 DEF OwnInv, Isolation
            <4>2. CASE phase = "flush" /\ disk' # disk
                <5>1. Scope = plan.users[rev - 1]
                    BY <4>2 DEF Scope
                <5>2. \A u \in Users : \A i \in Items : disk[u].mem[i] # 0 => Owner[i] = u
                    BY DEF OwnInv, Isolation
                <5> QED BY <1>5, <3>1, <4>2, <5>1, <5>2, DiskStep
            <4> QED BY <1>5, <4>1, <4>2, DiskStep
        <3>4. Isolation'
            BY <2>1, <2>3, <3>2, <3>3 DEF Isolation, None
        <3>5. ChangeMine'
            BY <2>1, <2>3, <3>1 DEF ChangeMine, OwnInv
        <3> QED BY <3>4, <3>5
    <2> QED BY <2>2, <2>3
<1> QED BY <1>2, <1>3, <1>4, <1>5, ChangeMoves

LEMMA OperationsStayMine ==
    ASSUME TypeInv, OwnInv, [Next]_vars
    PROVE  (BatchMine /\ WriteMine /\ CreateMine /\ LoginMine)'
<1>1. plan' = plan /\ Sessions' = Sessions
    BY PlanStays DEF Sessions
<1>2. ASSUME Up, NEW i \in Items, mem[i] # 0
      PROVE  Owner[i] = plan.users[rev]
    BY <1>2 DEF OwnInv, Isolation, Mine, User, Scope, Up
<1>3. BatchMine'
    <2>1. ASSUME NEW s \in Sessions, NEW i \in Items, drain'[s].snap[i] # 0
          PROVE  Owner[i] = plan.users[s]
        <3>1. DrainMove(s) /\ Sound(drain'[s])
            BY DrainStep DEF DrainMoves, Flows
        <3>2. CASE Starts(s)
            BY <1>2, <2>1, <3>2 DEF Starts
        <3>3. CASE drain'[s].snap = drain[s].snap
            BY <2>1, <3>3 DEF OwnInv, BatchMine
        <3>4. CASE drain'[s].pc = "idle"
            BY <2>1, <3>1, <3>4 DEF Sound, None
        <3> QED BY <3>1, <3>2, <3>3, <3>4 DEF DrainMove, Narrows
    <2> QED BY <1>1, <2>1 DEF BatchMine
<1>4. WriteMine'
    <2>1. ASSUME NEW a \in Assets, write'[a].ver # 0
          PROVE  Owner[a] = plan.users[write'[a].s]
        <3>1. WriteMove(a)
            BY WriteStep DEF WriteMoves
        <3>2. a \in Items
            BY DEF Items
        <3>3. write[a].ver # 0 => Owner[a] = plan.users[write[a].s]
            BY DEF OwnInv, WriteMine
        <3> QED BY <1>2, <2>1, <3>1, <3>2, <3>3 DEF WriteMove
    <2> QED BY <1>1, <2>1 DEF WriteMine
<1>5. CreateMine'
    <2>1. ASSUME NEW p \in Projects, create'[p].ver # 0
          PROVE  Owner[p] = plan.users[create'[p].s]
        <3>1. CreateMove(p)
            BY CreateStep DEF CreateMoves
        <3>2. create[p].ver # 0 => Owner[p] = plan.users[create[p].s]
            BY DEF OwnInv, CreateMine
        <3> QED BY <2>1, <3>1, <3>2 DEF CreateMove, Mine, User, Scope, Up
    <2> QED BY <1>1, <2>1 DEF CreateMine
<1>6. LoginMine'
    <2>1. LoginMove
        BY LoginStep DEF LoginMoves
    <2>2. CASE login' = login
        <3>1. CASE Change
            <4>1. login'.snap = None /\ login'.newer = {}
                BY <2>2, <3>1, ChangeMoves DEF LeaveMove, ScopeMove, ResumeMove, NoLogin, TypeInv, Window
            <4> QED BY <4>1 DEF LoginMine, None
        <3>2. CASE ~Change
            BY <2>2, <3>2, SteadyStep DEF OwnInv, LoginMine
        <3> QED BY <3>1, <3>2
    <2>3. CASE login'.snap = None /\ login'.newer = {}
        BY <2>3 DEF LoginMine, None
    <2>4. CASE UNCHANGED <<rev, phase>> /\ login.pc = "resume" /\ login'.snap = mem /\ login'.newer = {i \in Items : Mine(i) /\ server[i] > mem[i]}
        <3>1. Up
            BY <2>4 DEF TypeInv, Window, NoLogin
        <3>2. ASSUME NEW i \in Items, login'.snap[i] # 0 \/ i \in login'.newer
              PROVE  Mine(i)
            BY <1>2, <2>4, <3>1, <3>2 DEF Mine, User, Scope, Up
        <3>3. \A i \in Items : Mine(i)' = Mine(i)
            BY <1>1, <2>4 DEF Mine, User, Scope
        <3> QED BY <3>2, <3>3 DEF LoginMine
    <2> QED BY <2>1, <2>2, <2>3, <2>4 DEF LoginMove
<1> QED BY <1>3, <1>4, <1>5, <1>6

\* The stores hold, and keep for each user under that user's keys, what is that
\* user's, through every change of user (applyWorkspaceSession) in which no
\* answer of the session before stores its list while the next user's stores
\* are fetched; whatever else that session has under way crosses nothing
\* (resetRemoteUserDataSync, ownsRemoteSession).
THEOREM StoresIsolated == Spec => []IsolatedUnlessCrossed
<1>1. Init => TypeInv /\ IsoInv
    BY TypeInit, IsoInit
<1>2. TypeInv /\ IsoInv /\ [Next]_vars => (TypeInv /\ IsoInv)'
    BY TypeStep, CrossedStays, StoresStayMine, OperationsStayMine DEF IsoInv, OwnInv
<1>3. IsoInv => IsolatedUnlessCrossed
    BY DEF IsoInv, OwnInv, IsolatedUnlessCrossed
<1> QED BY <1>1, <1>2, <1>3, PTL DEF Spec

----------------------------------------------------------------------------
(* The deletions of a user who signs in once *)

\* No canvas is created on its own, nobody else signs in, no request is lost.
Lone == "agent" \notin plan.ops /\ Len(plan.users) = 1 /\ plan.faults = {}

LEMMA LoneFacts ==
    ASSUME TypeInv, [Next]_vars, Lone
    PROVE  /\ Sessions = {1} /\ rev = 1 /\ User = plan.users[1] /\ ~May("agent")
           /\ \A f \in FaultKinds : ~Fails(f)
           /\ Up /\ ~Change /\ Lone'
           /\ \A p \in Projects : del[p].s = 1
<1>1. Sessions = {1}
    BY PlanFacts DEF TypeInv, Lone
<1>2. rev = 1
    BY <1>1 DEF TypeInv, FlagsTyped
<1>3. Up
    BY <1>2 DEF TypeInv, Window
<1>6. ~Change
    BY <1>2, <1>3 DEF Change, Leave, Rescope, Rehydrate, Resume, Up, Lone
<1>4. \A p \in Projects : del[p].s = 1
    BY <1>1 DEF TypeInv, DelTyped
<1>5. Lone'
    BY PlanStays DEF Lone
<1> QED BY <1>1, <1>2, <1>3, <1>4, <1>5, <1>6 DEF User, May, Fails, Lone

\* How a deletion of a canvas and its staging move.
DeletionMove(p) ==
    /\ \/ del'[p].pc = "idle" \/ del'[p].pc = del[p].pc
       \/ p \in staged' /\ del'[p].pc = "stage" /\ mem[p] # 0
       \/ del[p].pc # "idle" /\ (del'[p].pc # "sent" \/ drain'[1].todo = {})
    /\ p \in staged => p \in staged' \/ p \in gone \/ del'[p].pc = "idle"

LEMMA EndedDrain ==
    ASSUME TypeInv, NEW s \in Sessions, Lone, [Next]_vars, Run(s, NoDrain) \/ (\E d : Run(s, d) /\ d.pc = "idle")
    PROVE  drain'[1].todo = {}
<1>1. s = 1 /\ Sound(drain'[1])
    BY LoneFacts, DrainStep DEF DrainMoves, Flows
<1>2. PICK d : Run(s, d) /\ d.pc = "idle"
    BY DEF NoDrain
<1>3. drain'[1] = d
    BY <1>1, <1>2, SoundDrain DEF Run, Flows
<1> QED BY <1>1, <1>2, <1>3 DEF Sound

LEMMA RunDeletions ==
    ASSUME TypeInv, NEW s \in Sessions, Lone, [Next]_vars, \E d : Run(s, d), NEW p \in Projects, UNCHANGED staged
    PROVE  DeletionMove(p)
<1>1. PICK d : Run(s, d)
    OBVIOUS
<1>2. CASE d.pc # "idle"
    BY <1>1, <1>2 DEF Run, DeletionMove
<1>3. CASE d.pc = "idle"
    <2>1. drain'[1].todo = {}
        BY <1>1, <1>3, EndedDrain
    <2>2. del'[p] = IF Waits(p, s) THEN [pc |-> "sent", s |-> rev] ELSE del[p]
        BY <1>1, <1>3 DEF Run
    <2> QED BY <2>1, <2>2 DEF DeletionMove, Waits
<1> QED BY <1>2, <1>3

LEMMA FailDeletions ==
    ASSUME TypeInv, NEW s \in Sessions, Fail(s), NEW p \in Projects, UNCHANGED staged
    PROVE  DeletionMove(p)
<1>1. del'[p] = IF Waits(p, s) THEN [del[p] EXCEPT !.pc = "idle"] ELSE del[p]
    BY DEF Fail
<1>2. del[p] \in Deletions
    BY DEF TypeInv, DelTyped, Deletions
<1> QED BY <1>1, <1>2 DEF DeletionMove, Deletions

LEMMA DeletionStep ==
    ASSUME TypeInv, [Next]_vars, Lone, NEW p \in Projects
    PROVE  DeletionMove(p)
<1>1. del \in [Projects -> Deletions]
    BY DEF TypeInv, DelTyped, Deletions
<1>2. UNCHANGED <<staged, del>> => DeletionMove(p)
    BY DEF DeletionMove
<1>3. Timer \/ List \/ Apply \/ Started => UNCHANGED <<staged, del>>
    BY DEF Timer, List, Apply, Started, store
<1>4. Begin => DeletionMove(p)
    <2>1. rev \in Sessions
        BY DEF TypeInv, FlagsTyped
    <2>2. Begin => UNCHANGED staged /\ \E d : Run(rev, d)
        BY DEF Begin, store
    <2> QED BY <2>1, <2>2, RunDeletions
<1>5. ASSUME NEW s \in Sessions, Upload(s) \/ Send(s) \/ Await(s) \/ Created(s) \/ Written(s)
      PROVE  DeletionMove(p)
    <2>1. \/ UNCHANGED <<staged, del>>
          \/ UNCHANGED staged /\ (Fail(s) \/ \E d : Run(s, d))
          \/ \E q \in gone : staged' = staged \ {q} /\ UNCHANGED del
        BY <1>5 DEF Upload, Send, Await, Created, Written, store
    <2>2. ASSUME NEW q \in gone, staged' = staged \ {q}, UNCHANGED del
          PROVE  DeletionMove(p)
        BY <2>2 DEF DeletionMove
    <2> QED BY <1>2, <2>1, <2>2, RunDeletions, FailDeletions
<1>6. ASSUME NEW a \in Assets, SaveAsset(a) \/ Prepared(a) \/ Saved(a) \/ Edit(a) \/ DropAsset(a) \/ Dropped(a)
      PROVE  UNCHANGED <<staged, del>>
    BY <1>6 DEF SaveAsset, Prepared, Saved, Edit, DropAsset, Dropped, store
<1>7. ASSUME NEW q \in Projects, ProjectReady(q) \/ NewProject(q) \/ AgentProject(q)
      PROVE  UNCHANGED <<staged, del>>
    BY <1>7 DEF ProjectReady, NewProject, AgentProject, store
<1>8. ASSUME NEW q \in Projects, Delete(q)
      PROVE  DeletionMove(p)
    <2>1. mem[q] # 0 /\ staged' = staged \cup {q} /\ del' = [del EXCEPT ![q] = [pc |-> "stage", s |-> rev]]
        BY <1>8 DEF Delete
    <2> QED BY <1>1, <2>1 DEF DeletionMove
<1>9. ASSUME NEW q \in Projects, Staged(q)
      PROVE  DeletionMove(p)
    <2>1. UNCHANGED <<staged, drain>> /\ del[q].pc = "stage"
          /\ del' = [del EXCEPT ![q] = [pc |-> IF MustWait THEN "wait" ELSE "sent", s |-> rev]]
        BY <1>9 DEF Staged, store
    <2>2. p # q => del'[p] = del[p]
        BY <1>1, <2>1
    <2>3. del'[q].pc = IF MustWait THEN "wait" ELSE "sent"
        BY <1>1, <2>1
    <2>4. ~MustWait => drain'[1].todo = {}
        BY <2>1, LoneFacts, SoundDrain DEF MustWait, Busy, Sound
    <2> QED BY <2>1, <2>2, <2>3, <2>4 DEF DeletionMove
<1>10. ASSUME NEW q \in Projects, Deleted(q)
      PROVE  DeletionMove(p)
    <2>1. staged' = staged \ {q} /\ del' = [del EXCEPT ![q].pc = "idle"]
        BY <1>10 DEF Deleted
    <2> QED BY <1>1, <2>1 DEF DeletionMove, Deletions
<1>11. ASSUME NEW i \in Items, There(i)
      PROVE  UNCHANGED <<staged, del>>
    BY <1>11 DEF There, store
<1>12. UNCHANGED vars => UNCHANGED <<staged, del>>
    BY DEF vars, store
<1> QED BY <1>2, <1>3, <1>4, <1>5, <1>6, <1>7, <1>8, <1>9, <1>10, <1>11, <1>12, LoneFacts DEF Next, Change

\* What the user is told of a deletion.
TellMove(p) ==
    \/ deleted'[p] = deleted[p]
    \/ /\ del[p].pc = "sent" /\ mem'[p] = 0 /\ (server'[p] = 0 \/ p \in gone')
       /\ deleted'[p] = When(p) /\ UNCHANGED login /\ drain' = Queue(drain)

LEMMA TellStep ==
    ASSUME TypeInv, [Next]_vars, Lone, NEW p \in Projects
    PROVE  TellMove(p)
<1>1. deleted \in [Items -> {"no", "here", "late"}] /\ p \in Items
    BY DEF TypeInv, HistoryTyped, Items
<1>2. Timer \/ Begin \/ List \/ Apply \/ Started => UNCHANGED deleted
    BY DEF Timer, Begin, List, Apply, Started, history
<1>3. ASSUME NEW s \in Sessions, Upload(s) \/ Send(s) \/ Await(s) \/ Created(s) \/ Written(s) PROVE UNCHANGED deleted
    BY <1>3 DEF Upload, Send, Await, Created, Written, history
<1>4. ASSUME NEW a \in Assets, SaveAsset(a) \/ Prepared(a) \/ Saved(a) \/ Edit(a) \/ DropAsset(a) \/ Dropped(a)
      PROVE  deleted'[p] = deleted[p]
    <2>1. a # p
        BY SyncAssumption
    <2>2. UNCHANGED deleted \/ deleted' = [deleted EXCEPT ![a] = When(a)]
        BY <1>4 DEF SaveAsset, Prepared, Saved, Edit, DropAsset, Dropped, history
    <2> QED BY <1>1, <2>1, <2>2
<1>5. ASSUME NEW q \in Projects, ProjectReady(q) \/ NewProject(q) \/ AgentProject(q) \/ Delete(q) \/ Staged(q) PROVE UNCHANGED deleted
    BY <1>5 DEF ProjectReady, NewProject, AgentProject, Delete, Staged, history
<1>6. ASSUME NEW q \in Projects, Deleted(q), q # p PROVE deleted'[p] = deleted[p]
    <2>1. UNCHANGED deleted \/ deleted' = [deleted EXCEPT ![q] = When(q)]
        BY <1>6 DEF Deleted
    <2> QED BY <1>1, <1>6, <2>1
<1>7. ASSUME Deleted(p) PROVE TellMove(p)
    <2> DEFINE found == server[p] # 0 /\ plan.users[del[p].s] = Owner[p]
    <2>1. del[p].pc = "sent" /\ UNCHANGED login
        BY <1>7 DEF Deleted, session
    <2>2. /\ IF found THEN gone' = gone \cup {p} ELSE UNCHANGED remote
          /\ mem' = [mem EXCEPT ![p] = 0] /\ Schedule
          /\ deleted' = IF Mine(p) THEN [deleted EXCEPT ![p] = When(p)] ELSE deleted
        BY <1>7, LoneFacts DEF Deleted, FaultKinds
    <2>3. mem'[p] = 0
        BY <1>1, <2>2, SnapTyped
    <2>4. CASE Mine(p)
        <3>1. found <=> server[p] # 0
            BY <2>4, LoneFacts DEF Mine, Scope, User, Up
        <3>2. server'[p] = 0 \/ p \in gone'
            BY <2>2, <3>1 DEF remote
        <3>3. deleted'[p] = When(p) /\ drain' = Queue(drain)
            BY <1>1, <2>2, <2>4 DEF Schedule
        <3> QED BY <2>1, <2>3, <3>2, <3>3 DEF TellMove
    <2> QED BY <2>2, <2>4 DEF TellMove
<1>8. ASSUME NEW i \in Items, There(i) PROVE UNCHANGED deleted
    BY <1>8 DEF There
<1>9. UNCHANGED vars => UNCHANGED deleted
    BY DEF vars, history
<1>10. deleted'[p] = deleted[p] => TellMove(p)
    BY DEF TellMove
<1> QED BY <1>2, <1>3, <1>4, <1>5, <1>6, <1>7, <1>8, <1>9, <1>10, LoneFacts DEF Next, Change

Known(p) ==
    mem[p] # 0 \/ del[p].pc # "idle" \/ drain[1].snap[p] # 0 \/ login.snap[p] # 0 \/ server[p] # 0 \/ deleted[p] # "no"
\* Nothing can bring the canvas back: neither the stores, nor the batch, nor
\* the lists read at the start of the session have it.
Buried(p) ==
    /\ server[p] = 0 /\ mem[p] = 0 /\ p \notin drain[1].todo
    /\ At(1, "upload") /\ Replaces(drain[1], p) => drain[1].snap[p] = 0
    /\ login.pc = "fetch" => login.snap[p] = 0 /\ p \notin login.newer
BuriedInv(p) ==
    /\ create[p].pc = "idle"
    /\ p \in gone => server[p] = 0
    /\ del[p].pc # "idle" => p \in staged \/ p \in gone
    /\ del[p].pc = "sent" => p \notin drain[1].todo \/ p \in gone
    /\ Known(p) => Made(p)
    /\ deleted[p] = "here" /\ p \notin gone => Buried(p)
DelInv == Lone => \A p \in Projects : BuriedInv(p)

LEMMA DelInit == Init => DelInv
<1> SUFFICES ASSUME Init, Lone, NEW p \in Projects PROVE BuriedInv(p)
    BY DEF DelInv
<1>1. p \in Items
    BY DEF Items
<1>2. /\ mem = None /\ server = None /\ gone = {} /\ login = [NoLogin EXCEPT !.pc = "resume"]
      /\ create = [q \in Projects |-> NoWrite] /\ drain = [s \in Sessions |-> NoDrain]
      /\ del = [q \in Projects |-> [pc |-> "idle", s |-> 1]] /\ deleted = [i \in Items |-> "no"]
    BY DEF Init
<1>3. 1 \in Sessions
    BY TypeInit DEF TypeInv, FlagsTyped, Init
<1>4. drain[1].snap = None /\ login.snap = None
    BY <1>2, <1>3 DEF NoDrain, NoLogin
<1>5. create[p].pc = "idle" /\ del[p].pc = "idle" /\ deleted[p] = "no" /\ mem[p] = 0 /\ server[p] = 0
    BY <1>1, <1>2 DEF NoWrite, None
<1>6. drain[1].snap[p] = 0 /\ login.snap[p] = 0
    BY <1>1, <1>4 DEF None
<1> QED BY <1>2, <1>5, <1>6 DEF BuriedInv, Known

\* How a canvas moves when only batches create canvases.
LEMMA LoneMoves ==
    ASSUME TypeInv, [Next]_vars, Lone, NEW p \in Projects, create[p].pc = "idle"
    PROVE  /\ p \in Items
           /\ create'[p].pc = "idle" /\ gone \subseteq gone'
           /\ p \in gone' \ gone => server'[p] = 0
           /\ \/ server'[p] = server[p] \/ server'[p] = 0
              \/ Free(p) /\ p \in drain[1].todo /\ server'[p] = drain[1].snap[p]
           /\ \/ mem'[p] = mem[p] \/ mem'[p] = 0
              \/ New(p) /\ Made(p)'
              \/ At(1, "upload") /\ Replaces(drain[1], p) /\ mem'[p] = drain[1].snap[p]
              \/ login.pc = "fetch" /\ mem'[p] = login.snap[p]
              \/ login.pc = "fetch" /\ p \in login.newer /\ mem'[p] = server[p]
           /\ Made(p) => Made(p)'
<1>1. p \in Items /\ p \notin Assets
    BY SyncAssumption DEF Items
<1>2. create'[p].pc = "idle"
    BY CreateStep, LoneFacts DEF CreateMoves, CreateMove
<1>3. gone \subseteq gone' /\ (p \in gone' \ gone => server'[p] = 0) /\ ServerMove(p)
    BY <1>1, ServerStep DEF ServerMoves
<1>4. ASSUME NEW s \in Sessions, At(s, "sent"), drain[s].cur = p
      PROVE  s = 1 /\ p \in drain[1].todo
    BY <1>1, <1>4, LoneFacts, SoundDrain, SyncAssumption DEF Sound, At
<1>5. \/ server'[p] = server[p] \/ server'[p] = 0
      \/ Free(p) /\ p \in drain[1].todo /\ server'[p] = drain[1].snap[p]
    BY <1>1, <1>3, <1>4 DEF ServerMove
<1>6. MemMove(p)
    BY <1>1, MemStep, LoneFacts DEF MemMoves
<1>7. Made(p) => Made(p)'
    <2>1. UNCHANGED edits \/ \E e \in Marks : edits' = Append(edits, e)
        BY HistoryStep
    <2> QED BY <1>1, <2>1, MadeNow DEF Made
<1>8. \A s \in Sessions : s = 1
    BY LoneFacts
<1> QED BY <1>1, <1>2, <1>3, <1>5, <1>6, <1>7, <1>8 DEF MemMove

LEMMA LoneDrain ==
    ASSUME TypeInv, [Next]_vars, Lone
    PROVE  /\ DrainMove(1) /\ Sound(drain[1]) /\ Sound(drain'[1]) /\ drain[1] \in Drains /\ drain'[1] \in Drains
           /\ (Starts(1) => UNCHANGED <<mem, staged, gone, login, edits>>)
<1>1. 1 \in Sessions
    BY LoneFacts
<1>2. Flows(drain') /\ DrainMove(1)
    BY <1>1, DrainStep DEF DrainMoves
<1>3. Sound(drain[1]) /\ Sound(drain'[1])
    BY <1>1, <1>2, SoundDrain DEF Flows
<1> QED BY <1>2, <1>3 DEF Sound, Starts, store, remote, session, history

LEMMA KnownStep ==
    ASSUME TypeInv, [Next]_vars, Lone, NEW p \in Projects, BuriedInv(p)
    PROVE  Known(p)' => Made(p)'
<1> SUFFICES ASSUME Known(p)' PROVE Made(p)'
    OBVIOUS
<1>1. create[p].pc = "idle" /\ (Known(p) => Made(p))
    BY DEF BuriedInv
<1>2. Made(p) => Made(p)'
    BY <1>1, LoneMoves
<1>3. mem'[p] # 0 => Made(p)'
    BY <1>1, <1>2, LoneMoves DEF Known
<1>4. server'[p] # 0 => Made(p)'
    BY <1>1, <1>2, LoneMoves DEF Known
<1>5. drain'[1].snap[p] # 0 => Made(p)'
    <2>1. p \in Items
        BY <1>1, LoneMoves
    <2>2. DrainMove(1) /\ Sound(drain'[1])
        BY LoneDrain
    <2> QED BY <1>1, <1>2, <2>1, <2>2 DEF DrainMove, Narrows, Starts, Sound, None, Known
<1>6. login'.snap[p] # 0 => Made(p)'
    <2>1. p \in Items /\ LoginMove
        BY <1>1, LoneMoves, LoginStep DEF LoginMoves
    <2> QED BY <1>1, <1>2, <2>1 DEF LoginMove, None, Known
<1>7. del'[p].pc # "idle" => Made(p)'
    <2>1. DeletionMove(p)
        BY DeletionStep
    <2> QED BY <1>1, <1>2, <2>1 DEF DeletionMove, Known
<1>8. deleted'[p] # "no" => Made(p)'
    BY <1>1, <1>2, TellStep DEF TellMove, Known
<1> QED BY <1>3, <1>4, <1>5, <1>6, <1>7, <1>8 DEF Known

LEMMA BuriedStep ==
    ASSUME TypeInv, [Next]_vars, Lone, NEW p \in Projects, BuriedInv(p), deleted'[p] = "here", p \notin gone'
    PROVE  Buried(p)'
<1>1. create[p].pc = "idle" /\ p \in Items /\ p \notin gone
    BY LoneMoves DEF BuriedInv
<1>2. TellMove(p)
    BY TellStep
<1>3. DrainMove(1) /\ Sound(drain[1]) /\ Sound(drain'[1])
    BY LoneDrain
<1>4. CASE deleted[p] = "here"
    <2>1. Buried(p) /\ ~New(p)
        BY <1>1, <1>4 DEF BuriedInv, Known, New, Made
    <2>2. mem'[p] = 0
        BY <1>1, <2>1, LoneMoves DEF Buried
    <2>3. server'[p] = 0
        BY <1>1, <2>1, LoneMoves DEF Buried
    <2>4. Starts(1) => p \notin drain'[1].todo /\ drain'[1].snap[p] = 0
        <3>1. p \notin Dirty
            BY <1>1, <2>1, SyncAssumption DEF Dirty, DirtyProject, Buried
        <3> QED BY <2>1, <3>1 DEF Starts, Buried
    <2>5. p \notin drain'[1].todo
        BY <1>3, <2>1, <2>4 DEF DrainMove, Narrows, Sound, Buried
    <2>6. drain'[1].pc = "upload" /\ Replaces(drain'[1], p) => drain'[1].snap[p] = 0
        <3>1. CASE Narrows(drain[1], drain'[1])
            BY <2>1, <3>1 DEF Narrows, Buried, At, Replaces
        <3> QED BY <1>3, <2>4, <3>1 DEF DrainMove
    <2>7. login'.pc = "fetch" => login'.snap[p] = 0 /\ p \notin login'.newer
        <3>1. LoginMove
            BY LoginStep DEF LoginMoves
        <3> QED BY <2>1, <3>1 DEF LoginMove, Buried
    <2> QED BY <2>2, <2>3, <2>5, <2>6, <2>7 DEF Buried, At
<1>5. CASE deleted[p] # "here"
    <2>1. /\ del[p].pc = "sent" /\ mem'[p] = 0 /\ server'[p] = 0
          /\ When(p) = "here" /\ UNCHANGED login /\ drain' = Queue(drain)
        BY <1>2, <1>5 DEF TellMove
    <2>2. ~Late(p)
        BY <2>1 DEF When
    <2>3. p \notin drain[1].todo
        BY <1>1, <2>1 DEF BuriedInv
    <2>4. drain'[1].todo = drain[1].todo /\ drain'[1].pc = drain[1].pc /\ drain'[1].snap = drain[1].snap
        <3>1. drain[1] \in Drains /\ 1 \in Sessions /\ drain \in [Sessions -> Drains]
            BY LoneFacts, SoundDrain DEF Flows
        <3>2. drain' = drain \/ drain' = [drain EXCEPT ![rev].queued = TRUE]
            BY <2>1 DEF Queue
        <3> QED BY <3>1, <3>2, LoneFacts DEF Drains
    <2>5. login'.pc # "fetch" /\ ~(drain[1].pc = "upload" /\ Replaces(drain[1], p))
        BY <2>1, <2>2, LoneFacts DEF Late, At
    <2>6. drain'[1].pc = "upload" => ~Replaces(drain'[1], p)
        BY <2>4, <2>5 DEF Replaces
    <2> QED BY <2>1, <2>3, <2>4, <2>5, <2>6 DEF Buried, At
<1> QED BY <1>4, <1>5

LEMMA BuriedInvStep ==
    ASSUME TypeInv, [Next]_vars, Lone, NEW p \in Projects, BuriedInv(p)
    PROVE  BuriedInv(p)'
<1>1. create[p].pc = "idle"
    BY DEF BuriedInv
<1>2. create'[p].pc = "idle" /\ gone \subseteq gone' /\ p \in Items
    BY <1>1, LoneMoves
<1>3. p \in gone' => server'[p] = 0
    BY <1>1, LoneMoves DEF BuriedInv, Free
<1>4. DeletionMove(p)
    BY DeletionStep
<1>5. del'[p].pc # "idle" => p \in staged' \/ p \in gone'
    BY <1>2, <1>4 DEF DeletionMove, BuriedInv
<1>6. del'[p].pc = "sent" => p \notin drain'[1].todo \/ p \in gone'
    <2> SUFFICES ASSUME del'[p].pc = "sent", p \notin gone' PROVE p \notin drain'[1].todo
        OBVIOUS
    <2>1. CASE drain'[1].todo = {}
        BY <2>1
    <2>2. CASE del[p].pc = "sent"
        <3>1. p \notin drain[1].todo /\ p \in staged
            BY <1>2, <2>2 DEF BuriedInv
        <3>2. p \notin Dirty
            BY <1>2, <3>1, SyncAssumption DEF Dirty, DirtyProject
        <3>3. DrainMove(1) /\ Sound(drain'[1])
            BY LoneDrain
        <3> QED BY <3>1, <3>2, <3>3 DEF DrainMove, Narrows, Starts, Sound
    <2> QED BY <1>4, <2>1, <2>2 DEF DeletionMove
<1>7. Known(p)' => Made(p)'
    BY KnownStep
<1>8. deleted'[p] = "here" /\ p \notin gone' => Buried(p)'
    BY BuriedStep
<1> QED BY <1>2, <1>3, <1>5, <1>6, <1>7, <1>8 DEF BuriedInv

\* A canvas the user was told is deleted is not on the server again: a batch
\* that began before has ended, one that begins afterwards leaves it out
\* (pendingDeletionIds), and the server refuses a canvas it has deleted.
THEOREM BatchLeavesDeleted == Spec => []BatchDeletedStaysDeleted
<1>1. Init => TypeInv /\ DelInv
    BY TypeInit, DelInit
<1>2. TypeInv /\ DelInv /\ [Next]_vars => (TypeInv /\ DelInv)'
    <2> SUFFICES ASSUME TypeInv, DelInv, [Next]_vars PROVE (TypeInv /\ DelInv)'
        OBVIOUS
    <2>1. TypeInv'
        BY TypeStep
    <2>2. Lone' => Lone
        BY PlanStays DEF Lone
    <2>3. DelInv'
        BY <2>2, BuriedInvStep DEF DelInv
    <2> QED BY <2>1, <2>3
<1>3. DelInv => BatchDeletedStaysDeleted
    BY DEF DelInv, Lone, BuriedInv, Buried, BatchDeletedStaysDeleted
<1> QED BY <1>1, <1>2, <1>3, PTL DEF Spec

----------------------------------------------------------------------------
(* The edits a user made *)

\* Version v of the item is no older than any edit of it made here.
Covers(es, v, i) == \A n \in DOMAIN es : es[n].item = i /\ es[n].how = "here" => v >= n
Lives(i) == deleted[i] = "no" /\ i \notin gone

EditHere(i) == \E e \in Marks : e.item = i /\ e.how = "here" /\ edits' = Append(edits, e)

LEMMA EditsTyped ==
    ASSUME TypeInv
    PROVE  edits \in Seq(Marks) /\ Len(edits) \in Nat /\ DOMAIN edits = 1..Len(edits) /\ Version \in Nat
BY DEF TypeInv, HistoryTyped, Marks, Version

LEMMA Appended ==
    ASSUME TypeInv, NEW e \in Marks, edits' = Append(edits, e)
    PROVE  /\ Len(edits') = Version /\ DOMAIN edits' = DOMAIN edits \cup {Version} /\ edits'[Version] = e
           /\ \A n \in DOMAIN edits : edits'[n] = edits[n]
BY EditsTyped DEF Version

LEMMA CoversStay ==
    ASSUME TypeInv, [Next]_vars, NEW i \in Items, ~EditHere(i), NEW v, Covers(edits, v, i)
    PROVE  Covers(edits', v, i)
<1>1. CASE UNCHANGED edits
    BY <1>1
<1>2. ASSUME NEW e \in Marks, edits' = Append(edits, e)
      PROVE  Covers(edits', v, i)
    BY <1>2, Appended DEF Covers, EditHere
<1> QED BY <1>1, <1>2, HistoryStep

LEMMA VersionCovers ==
    ASSUME TypeInv, NEW e \in Marks, edits' = Append(edits, e), NEW i \in Items
    PROVE  Covers(edits', Version, i)
BY EditsTyped, Appended DEF Covers, Version

LEMMA LaterCovers ==
    ASSUME TypeInv, NEW i \in Items, NEW v \in Nat, NEW w \in Nat, Covers(edits, v, i), v <= w
    PROVE  Covers(edits, w, i)
BY EditsTyped DEF Covers

\* An edit here is made in the stores, by the user signed in.
EditMove ==
    \/ UNCHANGED edits
    \/ \E e \in Marks :
        /\ Len(edits) < MaxEdits /\ edits' = Append(edits, e)
        /\ \/ e.how = "there"
           \/ UNCHANGED <<rev, phase>> /\ Up /\ Mine(e.item) /\ e.how = When(e.item) /\ mem'[e.item] = Version

LEMMA EditedMark ==
    ASSUME TypeInv, UNCHANGED <<rev, phase>>, NEW i \in Items, Edited(i)
    PROVE  EditMove
<1> DEFINE e == [item |-> i, how |-> When(i)]
<1>1. e \in Marks /\ e.item = i /\ e.how = When(i)
    BY DEF Marks, When
<1>2. mem'[i] = Version
    BY SnapTyped DEF Edited
<1>3. Len(edits) < MaxEdits /\ edits' = Append(edits, e) /\ Up /\ Mine(i)
    BY DEF Edited
<1> HIDE DEF e
<1> QED BY <1>1, <1>2, <1>3 DEF EditMove

LEMMA EditStep ==
    ASSUME TypeInv, [Next]_vars
    PROVE  EditMove
<1>1. Timer \/ Begin \/ List \/ Apply \/ Started \/ Change => UNCHANGED edits
    BY DEF Timer, Begin, List, Apply, Started, Change, Leave, Rescope, Rehydrate, Resume, history
<1>2. ASSUME NEW s \in Sessions, Upload(s) \/ Send(s) \/ Await(s) \/ Created(s) \/ Written(s) PROVE UNCHANGED edits
    BY <1>2 DEF Upload, Send, Await, Created, Written, history
<1>3. ASSUME NEW a \in Assets, SaveAsset(a) \/ Prepared(a) \/ Saved(a) \/ DropAsset(a) \/ Dropped(a) PROVE UNCHANGED edits
    BY <1>3 DEF SaveAsset, Prepared, Saved, DropAsset, Dropped, history
<1>4. ASSUME NEW a \in Assets, Edit(a) PROVE EditMove
    <2>1. Edited(a) /\ UNCHANGED <<rev, phase>> /\ a \in Items
        BY <1>4 DEF Edit, session, Items
    <2> QED BY <2>1, EditedMark
<1>5. ASSUME NEW p \in Projects, ProjectReady(p) \/ Delete(p) \/ Staged(p) \/ Deleted(p) PROVE UNCHANGED edits
    BY <1>5 DEF ProjectReady, Delete, Staged, Deleted, history
<1>6. ASSUME NEW p \in Projects, NewProject(p) \/ AgentProject(p) PROVE EditMove
    <2>1. Edited(p) /\ UNCHANGED <<rev, phase>> /\ p \in Items
        BY <1>6 DEF NewProject, AgentProject, session, Items
    <2> QED BY <2>1, EditedMark
<1>7. ASSUME NEW i \in Items, There(i) PROVE EditMove
    <2> DEFINE e == [item |-> i, how |-> "there"]
    <2>1. e \in Marks /\ e.how = "there"
        BY DEF Marks
    <2>2. Len(edits) < MaxEdits /\ edits' = Append(edits, e)
        BY <1>7 DEF There
    <2> HIDE DEF e
    <2> QED BY <2>1, <2>2 DEF EditMove
<1>8. UNCHANGED vars => UNCHANGED edits
    BY DEF vars, history
<1>9. UNCHANGED edits => EditMove
    BY DEF EditMove
<1> QED BY <1>1, <1>2, <1>3, <1>4, <1>5, <1>6, <1>7, <1>8, <1>9 DEF Next, Change

\* What the user was told of a deletion is not forgotten.
LEMMA ToldStays ==
    ASSUME TypeInv, [Next]_vars, NEW i \in Items, deleted[i] # "no"
    PROVE  deleted'[i] # "no"
<1>1. deleted \in [Items -> {"no", "here", "late"}]
    BY DEF TypeInv, HistoryTyped
<1>2. \A j \in Items : deleted' = [deleted EXCEPT ![j] = When(j)] => deleted'[i] # "no"
    BY <1>1 DEF When
<1>3. Timer \/ Begin \/ List \/ Apply \/ Started \/ Change => UNCHANGED deleted
    BY DEF Timer, Begin, List, Apply, Started, Change, Leave, Rescope, Rehydrate, Resume, history
<1>4. ASSUME NEW s \in Sessions, Upload(s) \/ Send(s) \/ Await(s) \/ Created(s) \/ Written(s) PROVE UNCHANGED deleted
    BY <1>4 DEF Upload, Send, Await, Created, Written, history
<1>5. ASSUME NEW a \in Assets, SaveAsset(a) \/ Prepared(a) \/ Saved(a) \/ Edit(a) \/ DropAsset(a) \/ Dropped(a)
      PROVE  deleted'[i] # "no"
    <2>1. UNCHANGED deleted \/ deleted' = [deleted EXCEPT ![a] = When(a)]
        BY <1>5 DEF SaveAsset, Prepared, Saved, Edit, DropAsset, Dropped, history
    <2> QED BY <1>2, <2>1 DEF Items
<1>6. ASSUME NEW p \in Projects, ProjectReady(p) \/ NewProject(p) \/ AgentProject(p) \/ Delete(p) \/ Staged(p) \/ Deleted(p)
      PROVE  deleted'[i] # "no"
    <2>1. UNCHANGED deleted \/ deleted' = [deleted EXCEPT ![p] = When(p)]
        BY <1>6 DEF ProjectReady, NewProject, AgentProject, Delete, Staged, Deleted, history
    <2> QED BY <1>2, <2>1 DEF Items
<1>7. ASSUME NEW j \in Items, There(j) PROVE UNCHANGED deleted
    BY <1>7 DEF There
<1>8. UNCHANGED vars => UNCHANGED deleted
    BY DEF vars, history
<1> QED BY <1>3, <1>4, <1>5, <1>6, <1>7, <1>8 DEF Next, Change

LEMMA LivesBefore ==
    ASSUME TypeInv, [Next]_vars, NEW i \in Items, Lives(i)'
    PROVE  Lives(i)
BY ToldStays, ServerStep DEF Lives, ServerMoves, TypeInv, HistoryTyped

\* The start of a session: a list read in this step has changed nothing else.
LoginPhase ==
    login'.pc = "fetch" => UNCHANGED login \/ (List /\ login.pc = "resume" /\ login'.deleted = {p \in gone : Mine(p)})

LEMMA LoginPhaseStep ==
    ASSUME TypeInv, [Next]_vars
    PROVE  LoginPhase
<1>1. UNCHANGED login => LoginPhase
    BY DEF LoginPhase
<1>2. CASE List
    <2>1. login.pc = "resume" /\ (login' = NoLogin \/ (login'.pc = "fetch" /\ login'.deleted = {p \in gone : Mine(p)}))
        BY <1>2 DEF List, Quit
    <2> QED BY <1>2, <2>1 DEF LoginPhase, NoLogin
<1>3. CASE Apply
    <2>1. login' = NoLogin \/ login' = [NoLogin EXCEPT !.pc = "saving"]
        BY <1>3 DEF Apply, Quit
    <2> QED BY <2>1 DEF LoginPhase, NoLogin
<1>4. Change => LoginPhase
    BY DEF Change, Leave, Rescope, Rehydrate, Resume, LoginPhase, NoLogin
<1>5. Started => LoginPhase
    BY DEF Started, LoginPhase, NoLogin
<1>6. Timer \/ Begin => UNCHANGED login
    BY DEF Timer, Begin, session
<1>7. ASSUME NEW s \in Sessions, Upload(s) \/ Send(s) \/ Await(s) \/ Created(s) \/ Written(s)
      PROVE  UNCHANGED login
    BY <1>7 DEF Upload, Send, Await, Created, Written, session
<1>8. ASSUME NEW a \in Assets, SaveAsset(a) \/ Prepared(a) \/ Saved(a) \/ Edit(a) \/ DropAsset(a) \/ Dropped(a)
      PROVE  UNCHANGED login
    BY <1>8 DEF SaveAsset, Prepared, Saved, Edit, DropAsset, Dropped, session
<1>9. ASSUME NEW p \in Projects, ProjectReady(p) \/ NewProject(p) \/ AgentProject(p) \/ Delete(p) \/ Staged(p) \/ Deleted(p)
      PROVE  UNCHANGED login
    BY <1>9 DEF ProjectReady, NewProject, AgentProject, Delete, Staged, Deleted, session
<1>10. ASSUME NEW i \in Items, There(i)
       PROVE  UNCHANGED login
    BY <1>10 DEF There, session
<1>11. UNCHANGED vars => UNCHANGED login
    BY DEF vars, session
<1> QED BY <1>1, <1>2, <1>3, <1>4, <1>5, <1>6, <1>7, <1>8, <1>9, <1>10, <1>11 DEF Next, Change

\* What is edited here is not about to be replaced by a list read before.
LEMMA HereFacts ==
    ASSUME TypeInv, [Next]_vars, NEW i \in Items, EditHere(i)
    PROVE  /\ Up /\ UNCHANGED <<rev, phase>> /\ Mine(i) /\ mem'[i] = Version /\ Len(edits') = Version
           /\ login'.pc # "fetch" /\ ~Change
           /\ ~(drain'[rev].pc = "upload" /\ Replaces(drain'[rev], i))
<1>1. PICK e \in Marks : e.item = i /\ e.how = "here" /\ edits' = Append(edits, e)
    BY DEF EditHere
<1>2. Len(edits') = Version /\ Version = Len(edits) + 1 /\ edits'[Version] = e /\ Version \in Nat
    BY <1>1, Appended, EditsTyped DEF Version
<1>3. edits' # edits
    BY <1>2, EditsTyped
<1>4. PICK d \in Marks : /\ edits' = Append(edits, d)
                         /\ \/ d.how = "there"
                            \/ UNCHANGED <<rev, phase>> /\ Up /\ Mine(d.item) /\ d.how = When(d.item) /\ mem'[d.item] = Version
    BY <1>3, EditStep DEF EditMove
<1>5. d = e
    BY <1>2, <1>4, Appended
<1>6. UNCHANGED <<rev, phase>> /\ Up /\ Mine(i) /\ mem'[i] = Version /\ ~Late(i)
    BY <1>1, <1>4, <1>5 DEF When
<1>7. login.pc # "fetch" /\ ~(At(rev, "upload") /\ Replaces(drain[rev], i))
    BY <1>6 DEF Late
<1>8. login'.pc # "fetch"
    BY <1>3, <1>7, LoginPhaseStep DEF LoginPhase, List, history
<1>9. ~Change
    BY <1>3, ChangeMoves DEF LeaveMove, ScopeMove, ResumeMove, history
<1>10. ~(drain'[rev].pc = "upload" /\ Replaces(drain'[rev], i))
    <2>1. DrainMove(rev)
        BY DrainStep DEF DrainMoves, TypeInv, FlagsTyped
    <2>2. ~Starts(rev)
        BY <1>3 DEF Starts, history
    <2> QED BY <1>7, <2>1, <2>2 DEF DrainMove, Narrows, At, Replaces
<1> QED BY <1>2, <1>6, <1>8, <1>9, <1>10

LEMMA Numbers ==
    ASSUME TypeInv, NEW i \in Items
    PROVE  mem[i] \in Nat /\ server[i] \in Nat /\ login.snap[i] \in Nat
BY SnapTyped, SyncAssumption DEF Versions

\* What a step does to an item in the stores that is not deleted.
KeptMove(i) ==
    \/ mem'[i] = mem[i]
    \/ mem'[i] = 0 /\ (~Lives(i)' \/ ~Mine(i))
    \/ mem'[i] = Version /\ edits' # edits
    \/ At(rev, "upload") /\ Replaces(drain[rev], i) /\ mem'[i] = drain[rev].snap[i]
    \/ login.pc = "fetch" /\ mem'[i] >= login.snap[i]
    \/ login.pc = "fetch" /\ i \in login.deleted /\ mem'[i] = 0

LEMMA KeptStep ==
    ASSUME TypeInv, [Next]_vars, ~Change, NEW i \in Items
    PROVE  KeptMove(i)
<1>1. mem \in [Items -> Versions] /\ deleted \in [Items -> {"no", "here", "late"}]
    BY SnapTyped DEF TypeInv, HistoryTyped
<1>2. mem'[i] = mem[i] => KeptMove(i)
    BY DEF KeptMove
<1>3. ASSUME NEW j \in Items, Edited(j) PROVE KeptMove(i)
    <2>1. mem' = [mem EXCEPT ![j] = Version]
        BY <1>3 DEF Edited
    <2> DEFINE e == [item |-> j, how |-> When(j)]
    <2>2. e \in Marks /\ edits' = Append(edits, e)
        BY <1>3 DEF Edited, Marks, When
    <2> HIDE DEF e
    <2>3. Len(edits') = Version
        BY <2>2, Appended
    <2>4. edits' # edits
        BY <2>3, EditsTyped DEF Version
    <2> QED BY <1>1, <2>1, <2>4 DEF KeptMove
<1>4. Timer \/ Begin \/ List \/ Started => UNCHANGED mem
    BY DEF Timer, Begin, List, Started, store
<1>5. CASE Apply
    <2>1. UNCHANGED mem \/ (login.pc = "fetch" /\ mem' = Merged)
        BY <1>5 DEF Apply
    <2>2. (Merged[i] = 0 /\ i \in login.deleted) \/ Merged[i] >= login.snap[i]
        BY Numbers DEF Merged
    <2>3. CASE login.pc = "fetch" /\ mem' = Merged
        BY <2>2, <2>3 DEF KeptMove
    <2> QED BY <1>2, <2>1, <2>3
<1>6. ASSUME NEW s \in Sessions, Upload(s) PROVE KeptMove(i)
    BY <1>1, <1>2, <1>6 DEF Upload, Owns, KeptMove, At
<1>7. ASSUME NEW s \in Sessions, Send(s) \/ Await(s) \/ Written(s) PROVE UNCHANGED mem
    BY <1>7 DEF Send, Await, Written, store
<1>8. ASSUME NEW s \in Sessions, Created(s) PROVE KeptMove(i)
    <2>1. UNCHANGED mem \/ (drain[s].cur \in gone /\ UNCHANGED gone /\ mem' = [mem EXCEPT ![drain[s].cur] = 0])
        BY <1>8 DEF Created, store
    <2> QED BY <1>1, <1>2, <2>1 DEF KeptMove, Lives
<1>9. ASSUME NEW a \in Assets, SaveAsset(a) \/ Saved(a) \/ DropAsset(a) PROVE UNCHANGED mem
    BY <1>9 DEF SaveAsset, Saved, DropAsset, store
<1>10. ASSUME NEW a \in Assets, Prepared(a) PROVE UNCHANGED mem
    BY <1>1, <1>10 DEF Prepared, Unchanged, Items
<1>11. ASSUME NEW a \in Assets, Edit(a) PROVE KeptMove(i)
    BY <1>3, <1>11 DEF Edit, Items
<1>12. ASSUME NEW a \in Assets, Dropped(a) PROVE KeptMove(i)
    <2>1. UNCHANGED mem \/ (mem' = [mem EXCEPT ![a] = 0] /\ deleted' = IF Mine(a) THEN [deleted EXCEPT ![a] = When(a)] ELSE deleted)
        BY <1>12 DEF Dropped, store
    <2>2. CASE mem' = [mem EXCEPT ![a] = 0] /\ a = i /\ Mine(a) /\ deleted' = [deleted EXCEPT ![a] = When(a)]
        <3>1. deleted'[i] = When(a) /\ mem'[i] = 0
            BY <1>1, <2>2
        <3>2. ~Lives(i)'
            BY <3>1 DEF Lives, When
        <3> QED BY <3>1, <3>2 DEF KeptMove
    <2> QED BY <1>1, <1>2, <2>1, <2>2 DEF KeptMove
<1>13. ASSUME NEW p \in Projects, ProjectReady(p) \/ Delete(p) \/ Staged(p) PROVE UNCHANGED mem
    BY <1>13 DEF ProjectReady, Delete, Staged, store
<1>14. ASSUME NEW p \in Projects, NewProject(p) \/ AgentProject(p) PROVE KeptMove(i)
    BY <1>3, <1>14 DEF NewProject, AgentProject, Items
<1>15. ASSUME NEW p \in Projects, Deleted(p) PROVE KeptMove(i)
    <2>1. UNCHANGED mem \/ (mem' = [mem EXCEPT ![p] = 0] /\ deleted' = IF Mine(p) THEN [deleted EXCEPT ![p] = When(p)] ELSE deleted)
        BY <1>15 DEF Deleted
    <2>2. CASE mem' = [mem EXCEPT ![p] = 0] /\ p = i /\ Mine(p) /\ deleted' = [deleted EXCEPT ![p] = When(p)]
        <3>1. deleted'[i] = When(p) /\ mem'[i] = 0
            BY <1>1, <2>2
        <3>2. ~Lives(i)'
            BY <3>1 DEF Lives, When
        <3> QED BY <3>1, <3>2 DEF KeptMove
    <2> QED BY <1>1, <1>2, <2>1, <2>2 DEF KeptMove
<1>16. ASSUME NEW j \in Items, There(j) PROVE UNCHANGED mem
    BY <1>16 DEF There, store
<1>17. UNCHANGED vars => UNCHANGED mem
    BY DEF vars, store
<1> QED BY <1>2, <1>4, <1>5, <1>6, <1>7, <1>8, <1>9, <1>10, <1>11, <1>12, <1>13, <1>14, <1>15, <1>16, <1>17 DEF Next, Change

\* What is deleted stays so.
GoneRead == login.pc = "fetch" => login.deleted \subseteq gone

LEMMA GoneReadStep ==
    ASSUME TypeInv, [Next]_vars, GoneRead
    PROVE  GoneRead'
<1>1. LoginPhase /\ gone \subseteq gone'
    BY LoginPhaseStep, ServerStep DEF ServerMoves
<1> QED BY <1>1 DEF GoneRead, LoginPhase

\* The stores, and what is stored for a user who is not in them, a batch whose
\* lists will be written back and the lists read at the start of the session
\* hold every edit made here.
StoreHeld(i) == phase \in {"no", "flush"} /\ Mine(i) => Covers(edits, mem[i], i)
DiskHeld(i) == ~(Up /\ Mine(i)) => Covers(edits, disk[Owner[i]].mem[i], i)
BatchHeld(i) == At(rev, "upload") /\ Replaces(drain[rev], i) /\ Mine(i) => Covers(edits, drain[rev].snap[i], i)
ListHeld(i) == login.pc = "fetch" /\ Mine(i) => Covers(edits, login.snap[i], i)
\* What the rehydrate has read is what is stored.
Read == phase = "read" => loaded = disk[User]

LEMMA Grows ==
    ASSUME TypeInv, [Next]_vars
    PROVE  /\ Len(edits) <= Len(edits') /\ Len(edits') \in Nat
           /\ edits' # edits => Len(edits') = Version /\ \A i \in Items : Covers(edits', Version, i)
<1>1. CASE UNCHANGED edits
    BY <1>1, EditsTyped
<1>2. ASSUME NEW e \in Marks, edits' = Append(edits, e)
      PROVE  /\ Len(edits) <= Len(edits') /\ Len(edits') \in Nat
             /\ Len(edits') = Version /\ \A i \in Items : Covers(edits', Version, i)
    <2>1. Len(edits') = Version /\ \A i \in Items : Covers(edits', Version, i)
        BY <1>2, Appended, VersionCovers
    <2>2. Len(edits) \in Nat /\ Version = Len(edits) + 1
        BY EditsTyped DEF Version
    <2> QED BY <2>1, <2>2
<1> QED BY <1>1, <1>2, HistoryStep

LEMMA StoreHeldStep ==
    ASSUME TypeInv, [Next]_vars, GoneRead, Read, NEW i \in Items, Lives(i)',
           StoreHeld(i), DiskHeld(i), BatchHeld(i), ListHeld(i)
    PROVE  StoreHeld(i)'
<1> SUFFICES ASSUME phase' \in {"no", "flush"}, Mine(i)' PROVE Covers(edits', mem'[i], i)
    BY DEF StoreHeld
<1>1. CASE Change
    <2>1. LeaveMove \/ ScopeMove \/ ResumeMove
        BY <1>1, ChangeMoves
    <2>2. UNCHANGED <<plan, edits>>
        BY <2>1 DEF LeaveMove, ScopeMove, ResumeMove, history
    <2>3. CASE LeaveMove
        <3>1. Mine(i) /\ phase = "no" /\ mem' = mem
            BY <2>3, PlanFacts DEF LeaveMove, Mine, Scope, User, Up, TypeInv, FlagsTyped, Sessions
        <3> QED BY <2>2, <3>1 DEF StoreHeld
    <2>4. CASE ResumeMove
        <3>1. Owner[i] = User /\ mem' = disk[User].mem /\ ~Up
            BY <2>4 DEF ResumeMove, Mine, Scope, User, Up, Read
        <3> QED BY <2>2, <3>1 DEF DiskHeld
    <2>5. ~ScopeMove
        BY DEF ScopeMove
    <2> QED BY <2>1, <2>3, <2>4, <2>5
<1>2. CASE EditHere(i)
    <2>1. mem'[i] = Version /\ edits' # edits
        BY <1>2, HereFacts, EditsTyped DEF Version
    <2> QED BY <2>1, Grows
<1>3. CASE ~Change /\ ~EditHere(i)
    <2>1. \A v : Covers(edits, v, i) => Covers(edits', v, i)
        BY <1>3, CoversStay
    <2>2. Mine(i) /\ phase \in {"no", "flush"} /\ KeptMove(i) /\ Lives(i)
        BY <1>3, SteadyStep, KeptStep, LivesBefore
    <2>3. ~(login.pc = "fetch" /\ i \in login.deleted)
        BY <2>2 DEF Lives, GoneRead
    <2>4. CASE login.pc = "fetch" /\ mem'[i] >= login.snap[i]
        <3>1. Covers(edits, login.snap[i], i) /\ login.snap[i] \in Nat /\ mem'[i] \in Nat
            BY <1>3, <2>2, <2>4, Numbers, MemStep, SyncAssumption DEF ListHeld, Versions
        <3> QED BY <2>1, <2>4, <3>1, LaterCovers
    <2>5. CASE ~(login.pc = "fetch" /\ mem'[i] >= login.snap[i])
        BY <2>1, <2>2, <2>3, <2>5, Grows DEF KeptMove, StoreHeld, BatchHeld
    <2> QED BY <2>4, <2>5
<1> QED BY <1>1, <1>2, <1>3

LEMMA DiskHeldStep ==
    ASSUME TypeInv, [Next]_vars, ~crossed', NEW i \in Items, Lives(i)', StoreHeld(i), StoreHeld(i)', DiskHeld(i)
    PROVE  DiskHeld(i)'
<1> SUFFICES ASSUME ~(Up' /\ Mine(i)') PROVE Covers(edits', disk'[Owner[i]].mem[i], i)
    BY DEF DiskHeld
<1>1. disk \in [Users -> Stores] /\ User \in Users /\ Owner[i] \in Users
    BY PlanFacts, SyncAssumption DEF TypeInv, StoreTyped
<1>2. CASE Change
    <2>1. LeaveMove \/ ScopeMove \/ ResumeMove
        BY <1>2, ChangeMoves
    <2>2. UNCHANGED <<plan, edits>>
        BY <2>1 DEF LeaveMove, ScopeMove, ResumeMove, history
    <2>3. CASE LeaveMove
        <3>1. phase = "no" /\ (Mine(i) <=> Owner[i] = User)
            BY <2>3 DEF LeaveMove, Mine, Scope, User, Up
        <3>2. CASE Mine(i)
            <4>1. disk'[Owner[i]].mem[i] = mem[i]
                BY <2>3, <3>1, <3>2 DEF LeaveMove
            <4> QED BY <2>2, <3>1, <3>2, <4>1 DEF StoreHeld
        <3>3. CASE ~Mine(i)
            <4>1. disk'[Owner[i]] = disk[Owner[i]]
                BY <1>1, <2>3, <3>1, <3>3 DEF LeaveMove
            <4> QED BY <2>2, <3>3, <4>1 DEF DiskHeld
        <3> QED BY <3>2, <3>3
    <2>4. CASE ScopeMove \/ ResumeMove
        <3>1. disk' = disk /\ ~Up
            BY <2>4 DEF ScopeMove, ResumeMove, Up, store
        <3> QED BY <2>2, <3>1 DEF DiskHeld
    <2> QED BY <2>1, <2>3, <2>4
<1>3. CASE ~Change
    <2>1. ~(Up /\ Mine(i)) /\ UNCHANGED phase /\ Mine(i)' = Mine(i)
        BY <1>3, SteadyStep
    <2>2. ~EditHere(i)
        BY <2>1, HereFacts
    <2>3. Covers(edits', disk[Owner[i]].mem[i], i)
        BY <2>1, <2>2, CoversStay DEF DiskHeld
    <2>4. CASE disk'[Owner[i]].mem[i] # disk[Owner[i]].mem[i]
        <3>1. phase = "flush" /\ Mine(i) /\ disk'[Owner[i]].mem[i] = mem'[i]
            BY <1>1, <1>3, <2>4, DiskStep DEF Mine
        <3> QED BY <2>1, <3>1 DEF StoreHeld
    <2> QED BY <2>3, <2>4
<1> QED BY <1>2, <1>3

LEMMA ReadStep ==
    ASSUME TypeInv, [Next]_vars, ~crossed', Read
    PROVE  Read'
<1>1. CASE Change
    BY <1>1, ChangeMoves DEF LeaveMove, ScopeMove, ResumeMove, Read, Up, User, store
<1>2. CASE ~Change
    BY <1>2, SteadyStep, DiskStep DEF Read
<1> QED BY <1>1, <1>2

LEMMA BatchHeldStep ==
    ASSUME TypeInv, [Next]_vars, NEW i \in Items, StoreHeld(i), BatchHeld(i)
    PROVE  BatchHeld(i)'
<1> SUFFICES ASSUME drain'[rev'].pc = "upload", Replaces(drain'[rev'], i), Mine(i)'
             PROVE  Covers(edits', drain'[rev'].snap[i], i)
    BY DEF BatchHeld, At
<1>1. ~Change
    <2>1. rev \in Sessions /\ rev \in Nat /\ Window
        BY PlanFacts DEF TypeInv, FlagsTyped, Sessions
    <2>2. LeaveMove => drain'[rev'].pc = "idle"
        BY <2>1 DEF LeaveMove, Window, Unbegun
    <2>3. ScopeMove \/ ResumeMove => drain'[rev'].pc = "idle"
        BY <2>1 DEF ScopeMove, ResumeMove, Window, Unbegun, Up
    <2> QED BY <2>2, <2>3, ChangeMoves
<1>2. UNCHANGED <<rev, phase>> /\ Mine(i) /\ rev \in Sessions
    BY <1>1, SteadyStep DEF TypeInv, FlagsTyped
<1>3. ~EditHere(i)
    BY <1>2, HereFacts
<1>4. \A v : Covers(edits, v, i) => Covers(edits', v, i)
    BY <1>3, CoversStay
<1>5. DrainMove(rev)
    BY <1>2, DrainStep DEF DrainMoves
<1>6. CASE Narrows(drain[rev], drain'[rev])
    <2>1. drain'[rev].snap = drain[rev].snap /\ At(rev, "upload") /\ Replaces(drain[rev], i)
        BY <1>2, <1>6 DEF Narrows, Replaces, At
    <2> QED BY <1>2, <1>4, <2>1 DEF BatchHeld
<1>7. CASE Starts(rev)
    BY <1>2, <1>4, <1>7 DEF Starts, StoreHeld, Up
<1> QED BY <1>5, <1>6, <1>7 DEF DrainMove

LEMMA ListHeldStep ==
    ASSUME TypeInv, [Next]_vars, NEW i \in Items, StoreHeld(i), ListHeld(i)
    PROVE  ListHeld(i)'
<1> SUFFICES ASSUME login'.pc = "fetch", Mine(i)' PROVE Covers(edits', login'.snap[i], i)
    BY DEF ListHeld
<1>1. ~Change
    BY ChangeMoves DEF LeaveMove, ScopeMove, ResumeMove, TypeInv, Window, NoLogin
<1>2. UNCHANGED <<rev, phase>> /\ Mine(i)
    BY <1>1, SteadyStep
<1>3. ~EditHere(i)
    BY HereFacts
<1>4. \A v : Covers(edits, v, i) => Covers(edits', v, i)
    BY <1>3, CoversStay
<1>5. CASE UNCHANGED login
    BY <1>2, <1>4, <1>5 DEF ListHeld
<1>6. CASE login.pc = "resume"
    <2>1. login'.snap = mem /\ Up
        BY <1>6, LoginStep DEF LoginMoves, LoginMove, TypeInv, Window, NoLogin
    <2> QED BY <1>2, <1>4, <2>1 DEF StoreHeld, Up
<1> QED BY <1>5, <1>6, LoginPhaseStep DEF LoginPhase

HeldInv(i) == StoreHeld(i) /\ DiskHeld(i) /\ BatchHeld(i) /\ ListHeld(i)
EditInv == GoneRead /\ (~crossed => Read /\ \A i \in Items : Lives(i) => HeldInv(i))

LEMMA EditInit == Init => EditInv
<1> SUFFICES ASSUME Init PROVE EditInv
    OBVIOUS
<1>1. edits = <<>> /\ login = [NoLogin EXCEPT !.pc = "resume"] /\ phase = "no"
    BY DEF Init
<1>2. GoneRead /\ Read
    BY <1>1 DEF GoneRead, Read, NoLogin
<1>3. \A i \in Items : HeldInv(i)
    BY <1>1 DEF HeldInv, StoreHeld, DiskHeld, BatchHeld, ListHeld, Covers
<1> QED BY <1>2, <1>3 DEF EditInv

LEMMA EditInvStep ==
    ASSUME TypeInv, EditInv, [Next]_vars
    PROVE  EditInv'
<1>1. GoneRead'
    BY GoneReadStep DEF EditInv
<1>2. ASSUME ~crossed' PROVE Read' /\ \A i \in Items : Lives(i)' => HeldInv(i)'
    <2>1. GoneRead /\ Read /\ \A i \in Items : Lives(i) => HeldInv(i)
        BY <1>2, CrossedStays DEF EditInv
    <2>2. Read'
        BY <1>2, <2>1, ReadStep
    <2>3. ASSUME NEW i \in Items, Lives(i)' PROVE HeldInv(i)'
        <3>1. StoreHeld(i) /\ DiskHeld(i) /\ BatchHeld(i) /\ ListHeld(i)
            BY <2>1, <2>3, LivesBefore DEF HeldInv
        <3>2. StoreHeld(i)'
            BY <2>1, <2>3, <3>1, StoreHeldStep
        <3>3. DiskHeld(i)' /\ BatchHeld(i)' /\ ListHeld(i)'
            BY <1>2, <2>3, <3>1, <3>2, DiskHeldStep, BatchHeldStep, ListHeldStep
        <3> QED BY <3>2, <3>3 DEF HeldInv
    <2> QED BY <2>2, <2>3
<1> QED BY <1>1, <1>2 DEF EditInv

\* What the user made stays in the browser in that state or a later one until
\* it is deleted: through the lists a batch writes back
\* (saveRemoteUserDataBatch), the merge of a new session (syncRemoteUserData),
\* a refused creation and the steps of a change of user
\* (applyWorkspaceSession), unless an answer of the session before has stored
\* its list while the next user's stores were being fetched.
THEOREM EditsStay == Spec => []EditsKept
<1>1. Init => TypeInv /\ EditInv
    BY TypeInit, EditInit
<1>2. TypeInv /\ EditInv /\ [Next]_vars => (TypeInv /\ EditInv)'
    BY TypeStep, EditInvStep
<1>3. TypeInv /\ EditInv => EditsKept
    <2> SUFFICES ASSUME TypeInv, EditInv, ~crossed, NEW n \in DOMAIN edits, edits[n].how = "here",
                        deleted[edits[n].item] = "no", edits[n].item \notin gone
                 PROVE  Kept(edits[n].item) >= n
        BY DEF EditsKept
    <2>1. edits[n] \in Marks
        BY EditsTyped
    <2>2. edits[n].item \in Items
        BY <2>1 DEF Marks
    <2>3. StoreHeld(edits[n].item) /\ DiskHeld(edits[n].item)
        BY <2>2 DEF EditInv, HeldInv, Lives
    <2> QED BY <2>3 DEF StoreHeld, DiskHeld, Kept, Covers, Up
<1> QED BY <1>1, <1>2, <1>3, PTL DEF Spec

===============================================================================
