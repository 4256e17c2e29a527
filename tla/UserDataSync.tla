----------------------------- MODULE UserDataSync -----------------------------
(***************************************************************************)
(* How the browser keeps the canvases and assets of its stores on the      *)
(* server: the merge at the start of a session, the debounced batch that   *)
(* creates canvases and writes assets, the targeted write of one asset and *)
(* creation of one canvas, and the deletions, which may all be under way   *)
(* when the user goes on editing or signs in as somebody else.             *)
(*                                                                         *)
(* One callback runs at a time; a step is what happens between two awaits. *)
(* A request reaches the server in the step in which it is answered.  A    *)
(* version (updatedAt) is the number of the edit that made it.  Canvases   *)
(* are only created here, their later content is CanvasCollaboration's.    *)
(***************************************************************************)
EXTENDS Naturals, Sequences, FiniteSets

CONSTANTS
    Assets, Projects,
    Users,
    Owner,      \* the user each asset and canvas belongs to
    Plans,      \* what a behaviour may do: sessions, operations, faults
    MaxEdits    \* bound: edits, here and on another device

Items == Assets \cup Projects
Ops == {"edit", "new", "agent", "save", "drop", "delete", "other"}
FaultKinds == {"request", "answer", "upload"}
ASSUME SyncAssumption ==
    /\ Assets \cap Projects = {} /\ "none" \notin Items /\ Owner \in [Items -> Users]
    /\ MaxEdits \in Nat
    /\ \A p \in Plans : /\ p.users \in Seq(Users) /\ p.users # <<>>
                        /\ p.ops \subseteq Ops /\ p.faults \subseteq FaultKinds

VARIABLES
    plan,      \* what this behaviour may do
    mem,       \* useCanvasStore.projects and useAssetStore.assets: versions
    staged,    \* useCanvasStore.pendingDeletionIds
    disk,      \* the stores each user left under the keys of that user
    crossed,   \* history: an answer of the session before stored its list
               \* under a key of the user whose stores were being fetched
    rev,       \* remoteSessionRevision: the session, or the one to come
    phase,     \* applyWorkspaceSession: what it awaits
    loaded,    \* the stores the rehydrate has read
    applying,  \* applyingRemoteState
    timer,     \* syncTimer is set
    vers,      \* remoteProjectVersions and remoteAssetVersions
    wanted,    \* saveRemoteUserDataNow waits for canvases being created: who called it
    login,     \* syncRemoteUserData of the session
    drain,     \* syncOperation of each session
    write,     \* remoteAssetWriteOperations
    create,    \* remoteProjectCreationOperations
    del,       \* deletions of canvases
    adel,      \* deletions of assets under way
    server,    \* server: versions, 0 for what is not there
    gone,      \* server: canvases deleted for good
    edits,     \* history: the edits, and who made them when
    deleted    \* history: what the user was told is deleted, and when

store == <<mem, staged, disk, crossed>>
session == <<rev, phase, loaded, login>>
remote == <<server, gone>>
history == <<edits, deleted>>
vars == <<plan, store, session, applying, timer, vers, wanted, drain, write, create, del, adel,
          remote, history>>

----------------------------------------------------------------------------
(* State *)

Sessions == DOMAIN plan.users
User == plan.users[rev]
\* getActiveUserScope: whose keys the stores are written under.
Scope == IF phase = "flush" THEN plan.users[rev - 1] ELSE User
Versions == 0..MaxEdits
None == [i \in Items |-> 0]

Stores == [mem : [Items -> Versions], staged : SUBSET Projects]
NoStores == [mem |-> None, staged |-> {}]
NoDrain == [pc |-> "idle", queued |-> FALSE, news |-> FALSE, snap |-> None, todo |-> {}, cur |-> "none"]
NoLogin == [pc |-> "idle", snap |-> None, newer |-> {}, deleted |-> {}]
NoWrite == [pc |-> "idle", s |-> 1, ver |-> 0]

TypeOK ==
    /\ plan \in Plans
    /\ mem \in [Items -> Versions] /\ staged \subseteq Projects
    /\ disk \in [Users -> Stores] /\ crossed \in BOOLEAN
    /\ rev \in Sessions /\ phase \in {"no", "flush", "scope", "read"} /\ loaded \in Stores
    /\ phase # "no" => rev > 1 /\ login = NoLogin /\ vers = None
    /\ applying \in BOOLEAN /\ timer \in BOOLEAN /\ wanted \in {"no", "sync", "new"}
    /\ vers \in [Items -> Versions]
    /\ login \in [pc : {"idle", "resume", "list", "fetch", "saving"}, snap : [Items -> Versions],
                  newer : SUBSET Items, deleted : SUBSET Projects]
    /\ drain \in [Sessions -> [pc : {"idle", "upload", "next", "sent", "await", "failed"}, queued : BOOLEAN,
                               news : BOOLEAN, snap : [Items -> Versions], todo : SUBSET Items, cur : Items \cup {"none"}]]
    /\ \A s \in Sessions : /\ drain[s].pc \in {"sent", "await", "failed"} <=> drain[s].cur # "none"
                           /\ drain[s].cur \in drain[s].todo \cup {"none"}
                           /\ drain[s].pc = "upload" => drain[s].todo # {}
    /\ write \in [Assets -> [pc : {"idle", "upload", "sent"}, s : Sessions, ver : Versions]]
    /\ create \in [Projects -> [pc : {"idle", "sent"}, s : Sessions, ver : Versions]]
    /\ del \in [Projects -> [pc : {"idle", "stage", "wait", "sent"}, s : Sessions]]
    /\ adel \subseteq Assets
    /\ server \in [Items -> Versions] /\ gone \subseteq Projects
    /\ edits \in Seq([item : Items, how : {"here", "late", "there"}]) /\ Len(edits) <= MaxEdits
    /\ deleted \in [Items -> {"no", "here", "late"}]

\* A user with an empty browser and what another device left on the server.
Init ==
    /\ plan \in Plans
    /\ mem = None /\ staged = {}
    /\ disk = [u \in Users |-> NoStores] /\ crossed = FALSE
    /\ rev = 1 /\ phase = "no" /\ loaded = NoStores
    /\ applying = TRUE /\ timer = FALSE /\ wanted = "no"
    /\ vers = None
    /\ login = [NoLogin EXCEPT !.pc = "resume"]
    /\ drain = [s \in Sessions |-> NoDrain]
    /\ write = [a \in Assets |-> NoWrite]
    /\ create = [p \in Projects |-> NoWrite]
    /\ del = [p \in Projects |-> [pc |-> "idle", s |-> 1]]
    /\ adel = {}
    /\ server = None /\ gone = {}
    /\ edits = <<>> /\ deleted = [i \in Items |-> "no"]

May(op) == op \in plan.ops
Fails(f) == f \in plan.faults
Owns(s) == s = rev
Mine(i) == Owner[i] = Scope

\* The page is up: RequireAuth takes it down while the session changes, and
\* activeRemoteUserId is empty then.
Up == phase = "no"

\* A change of the list i is in is stored at once, with the whole list.  For
\* the user signed in that is left to Leave.
Persist(i) ==
    IF Up THEN UNCHANGED <<disk, crossed>>
    ELSE /\ disk' = [disk EXCEPT ![Scope] =
                 [mem |-> [j \in Items |-> IF i \in Assets <=> j \in Assets THEN mem'[j] ELSE @.mem[j]],
                  staged |-> IF i \in Assets THEN @.staged ELSE staged']]
         /\ crossed' = (crossed \/ phase # "flush")

----------------------------------------------------------------------------
(* Scheduling *)

Busy(d) == d[rev].pc # "idle"


\* scheduleRemoteUserDataSync, which every change of the stores calls: the
\* running batch is told to run once more, else the timer is set.
Queue(d) == IF Up /\ ~applying /\ Busy(d) THEN [d EXCEPT ![rev].queued = TRUE] ELSE d
Arm(d) == timer \/ (Up /\ ~applying /\ ~Busy(d))
Schedule == drain' = Queue(drain) /\ timer' = Arm(drain)

\* saveRemoteUserDataNow, where d is the drain so far; for a new canvas its
\* caller schedules another try when it fails.
SaveNow(d, new) ==
    IF Busy(d) THEN drain' = [d EXCEPT ![rev].queued = TRUE, ![rev].news = @ \/ new] /\ UNCHANGED wanted
    ELSE drain' = d /\ wanted' = IF new \/ wanted = "new" THEN "new" ELSE "sync"

\* What a batch has to send: canvases and assets the server does not have in
\* this version, and assets the store has no more.
Creating(p) == create[p].pc # "idle" /\ Owns(create[p].s)
DirtyProject(p) == mem[p] # 0 /\ vers[p] = 0 /\ p \notin staged /\ ~Creating(p)
Dirty == {p \in Projects : DirtyProject(p)} \cup {a \in Assets : mem[a] # vers[a]}

\* Mutant: the early return without anything to send is left out.
BatchAnyway(new) == [NoDrain EXCEPT !.pc = "upload", !.news = new, !.snap = mem, !.todo = Dirty]

\* A batch, or the end of the drain when there is nothing to send.
Batch(new) == IF Dirty = {} THEN NoDrain
              ELSE [NoDrain EXCEPT !.pc = "upload", !.news = new, !.snap = mem, !.todo = Dirty]

\* The drain of a session goes on as d or ends; a deletion that waits for its
\* end is sent by whoever is signed in then.
Waits(p, s) == del[p].pc = "wait" /\ del[p].s = s
Run(s, d) ==
    /\ drain' = [drain EXCEPT ![s] = d]
    /\ IF d.pc # "idle" THEN UNCHANGED <<del, applying>>
       ELSE /\ del' = [p \in Projects |-> IF Waits(p, s) THEN [pc |-> "sent", s |-> rev] ELSE del[p]]
            /\ applying' = (applying /\ ~Owns(s))
    /\ UNCHANGED timer

\* It fails: a deletion that waits is given up, the canvas stays staged.
Fail(s) ==
    LET d == [drain EXCEPT ![s] = NoDrain]
    IN  /\ IF drain[s].news THEN drain' = Queue(d) /\ timer' = Arm(d) ELSE drain' = d /\ UNCHANGED timer
        /\ del' = [p \in Projects |-> IF Waits(p, s) THEN [del[p] EXCEPT !.pc = "idle"] ELSE del[p]]
        /\ applying' = (applying /\ ~Owns(s))

\* The timer fires.
Timer ==
    /\ timer /\ timer' = FALSE
    /\ SaveNow(drain, FALSE)
    /\ UNCHANGED <<plan, store, session, applying, vers, write, create, del, adel, remote, history>>

\* saveRemoteUserDataNow goes on when the canvases being created are there;
\* calls that wait together are one.
Begin ==
    /\ wanted # "no" /\ wanted' = "no"
    /\ \A p \in Projects : ~Creating(p)
    /\ ~Busy(drain) /\ Run(rev, Batch(wanted = "new"))
    /\ UNCHANGED <<plan, store, session, vers, write, create, adel, remote, history>>

----------------------------------------------------------------------------
(* The batch: saveRemoteUserDataBatch and drainRemoteUserDataChanges *)

At(s, pc) == drain[s].pc = pc
Done(s) == [drain[s] EXCEPT !.pc = "next", !.todo = @ \ {drain[s].cur}, !.cur = "none"]

\* The media are uploaded; the stores get the lists back the batch began with.
Replaces(d, i) == \E j \in d.todo : d.snap[j] # 0 /\ {i, j} \subseteq IF i \in Assets THEN Assets ELSE Projects
\* Mutant: the session is not looked at after the upload.
UploadUnowned(s) ==
    /\ At(s, "upload")
    /\ drain' = [drain EXCEPT ![s].pc = "next"]
    /\ mem' = [i \in Items |-> IF Replaces(drain[s], i) THEN drain[s].snap[i] ELSE mem[i]]
    /\ applying' = FALSE
    /\ UNCHANGED <<plan, staged, disk, crossed, session, timer, del, vers, wanted, write, create, adel, remote, history>>
Upload(s) ==
    /\ At(s, "upload")
    /\ \/ Fails("upload") /\ Fail(s) /\ UNCHANGED mem
       \/ ~Owns(s) /\ Run(s, NoDrain) /\ UNCHANGED mem
       \/ /\ Owns(s) /\ drain' = [drain EXCEPT ![s].pc = "next"]
          /\ mem' = [i \in Items |-> IF Replaces(drain[s], i) THEN drain[s].snap[i] ELSE mem[i]]
          /\ applying' = FALSE /\ UNCHANGED <<timer, del>>
    /\ UNCHANGED <<plan, staged, disk, crossed, session, vers, wanted, write, create, adel, remote, history>>

\* The next request: canvases first, then assets, then deletions.
Rank(d, i) == IF i \in Projects THEN 1 ELSE IF d.snap[i] # 0 THEN 2 ELSE 3
Writing(a) == write[a].pc # "idle" /\ Owns(write[a].s)
Turn(d, i) ==
    IF Rank(d, i) = 2 /\ Writing(i) THEN [d EXCEPT !.pc = "await", !.cur = i]
    ELSE IF Rank(d, i) = 2 /\ vers[i] = d.snap[i] THEN [d EXCEPT !.todo = @ \ {i}]
    ELSE [d EXCEPT !.pc = "sent", !.cur = i]
Send(s) ==
    LET d == drain[s]
    IN  /\ At(s, "next")
        /\ \/ d.todo = {} /\ Run(s, IF d.queued /\ Owns(s) THEN Batch(d.news) ELSE NoDrain)
           \/ d.todo # {} /\ ~Owns(s) /\ Run(s, NoDrain)
           \/ /\ Owns(s)
              /\ \E i \in d.todo : (\A j \in d.todo : Rank(d, i) <= Rank(d, j)) /\ Run(s, Turn(d, i))
        /\ UNCHANGED <<plan, store, session, vers, wanted, write, create, adel, remote, history>>

\* writeRemoteAsset has waited for the targeted write of the asset.
Await(s) ==
    LET d == drain[s]
    IN  /\ \/ At(s, "failed") /\ Fail(s)
           \/ /\ At(s, "await") /\ write[d.cur].pc = "idle"
              /\ IF ~Owns(s) THEN Fail(s)
                 ELSE Run(s, IF vers[d.cur] = d.snap[d.cur] THEN Done(s) ELSE [d EXCEPT !.pc = "sent"])
        /\ UNCHANGED <<plan, store, session, vers, wanted, write, create, adel, remote, history>>

\* A request of the batch or another is lost, or its answer is: then the
\* server has done it.
Lost(done) == (Fails("request") /\ UNCHANGED server) \/ (Fails("answer") /\ done)

\* CreateUserCanvasProject: a deleted canvas is refused (410) and leaves the
\* store, one that exists is refused (409).
Puts(i, v) == server' = [server EXCEPT ![i] = v]
Free(p) == p \notin gone /\ server[p] = 0
Created(s) ==
    LET d == drain[s]  p == d.cur
    IN  /\ At(s, "sent") /\ p \in Projects
        /\ \/ /\ Lost(Free(p) /\ Puts(p, d.snap[p])) /\ Fail(s) /\ UNCHANGED <<store, vers>>
           \/ p \notin gone /\ server[p] # 0 /\ Fail(s) /\ UNCHANGED <<store, vers, server>>
           \/ /\ p \in gone /\ UNCHANGED <<server, applying, del>>
              /\ vers' = [vers EXCEPT ![p] = 0]
              /\ mem' = [mem EXCEPT ![p] = 0] /\ staged' = staged \ {p} /\ Persist(p)
              /\ timer' = Arm(drain) /\ drain' = Queue([drain EXCEPT ![s] = Done(s)])
           \/ /\ Free(p) /\ Puts(p, d.snap[p])
              /\ IF Owns(s) THEN vers' = [vers EXCEPT ![p] = d.snap[p]] /\ Run(s, Done(s))
                 ELSE UNCHANGED vers /\ Run(s, NoDrain)
              /\ UNCHANGED store
        /\ UNCHANGED <<plan, session, wanted, write, create, adel, gone, history>>

\* UpsertUserAsset, whose version is not looked at; DeleteUserAsset, which
\* does not find an asset that is not there.
Written(s) ==
    LET d == drain[s]  a == d.cur
        found == d.snap[a] # 0 \/ server[a] # 0
    IN  /\ At(s, "sent") /\ a \in Assets
        /\ \/ Lost(found /\ Puts(a, d.snap[a])) /\ Fail(s) /\ UNCHANGED vers
           \/ ~found /\ Fail(s) /\ UNCHANGED <<vers, server>>
           \/ /\ found /\ Puts(a, d.snap[a])
              /\ IF Owns(s) THEN vers' = [vers EXCEPT ![a] = d.snap[a]] /\ Run(s, Done(s))
                 ELSE UNCHANGED vers /\ IF d.snap[a] = 0 THEN Run(s, NoDrain) ELSE Fail(s)
        /\ UNCHANGED <<plan, store, session, wanted, write, create, adel, gone, history>>

----------------------------------------------------------------------------
(* One asset, one canvas *)

\* saveRemoteAssetNow.
SaveAsset(a) ==
    /\ May("save") /\ Up /\ mem[a] # 0 /\ write[a].pc = "idle"
    /\ write' = [write EXCEPT ![a] = [pc |-> "upload", s |-> rev, ver |-> mem[a]]]
    /\ UNCHANGED <<plan, store, session, applying, timer, vers, wanted, drain, create, del, adel, remote, history>>

\* The write ends; a batch that waits for it fails with it.
Ends(a, ok) ==
    /\ write' = [write EXCEPT ![a].pc = "idle"]
    /\ drain' = [s \in Sessions |-> IF ~ok /\ At(s, "await") /\ drain[s].cur = a
                                    THEN [drain[s] EXCEPT !.pc = "failed"] ELSE drain[s]]

\* Mutant: what was prepared is written back over a later edit.
UnchangedUnlooked(a) == TRUE

\* persistRemoteAssetById after the upload of the media: an asset edited in
\* the meantime is prepared anew, else it is written back and sent.
Unchanged(a) == mem[a] = write[a].ver
Prepared(a) ==
    LET w == write[a]
    IN  /\ w.pc = "upload"
        /\ \/ (Fails("upload") \/ ~Owns(w.s) \/ mem[a] = 0) /\ Ends(a, FALSE) /\ UNCHANGED mem
           \/ Owns(w.s) /\ mem[a] # 0 /\ ~Unchanged(a)
              /\ write' = [write EXCEPT ![a].ver = mem[a]] /\ UNCHANGED <<drain, mem>>
           \/ Owns(w.s) /\ mem[a] # 0 /\ Unchanged(a)
              /\ mem' = [mem EXCEPT ![a] = w.ver] /\ write' = [write EXCEPT ![a].pc = "sent"] /\ UNCHANGED drain
        /\ UNCHANGED <<plan, staged, disk, crossed, session, applying, timer, vers, wanted, create, del, adel, remote, history>>

\* persistRemoteAssetById after the upsert: once more if edited again.
Saved(a) ==
    LET w == write[a]
    IN  /\ w.pc = "sent"
        /\ \/ Lost(Puts(a, w.ver)) /\ Ends(a, FALSE) /\ UNCHANGED vers
           \/ /\ Puts(a, w.ver)
              /\ vers' = IF Owns(w.s) THEN [vers EXCEPT ![a] = w.ver] ELSE vers
              /\ IF Owns(w.s) /\ mem[a] \notin {0, w.ver}
                 THEN write' = [write EXCEPT ![a].pc = "upload", ![a].ver = mem[a]] /\ UNCHANGED drain
                 ELSE Ends(a, Owns(w.s) /\ mem[a] = w.ver)
        /\ UNCHANGED <<plan, store, session, applying, timer, wanted, create, del, adel, gone, history>>

\* createRemoteCanvasProjectById; what fails is left to the next batch, and
\* so is what waits for it.
Refused(c) ==
    /\ Schedule
    /\ wanted' = IF Owns(c.s) THEN "no" ELSE wanted
ProjectReady(p) ==
    LET c == create[p]
    IN  /\ c.pc = "sent" /\ create' = [create EXCEPT ![p].pc = "idle"]
        /\ \/ Lost(Free(p) /\ Puts(p, c.ver)) /\ Refused(c) /\ UNCHANGED vers
           \/ ~Free(p) /\ Refused(c) /\ UNCHANGED <<vers, server>>
           \/ /\ Free(p) /\ Puts(p, c.ver)
              /\ IF Owns(c.s) THEN vers' = [vers EXCEPT ![p] = c.ver] /\ UNCHANGED <<drain, timer, wanted>>
                 ELSE Refused(c) /\ UNCHANGED vers
        /\ UNCHANGED <<plan, store, session, applying, write, del, adel, gone, history>>

----------------------------------------------------------------------------
(* What the user does *)

\* An edit or a deletion is late when a list read before it is about to be written back.
Late(i) == login.pc = "fetch" \/ (At(rev, "upload") /\ Replaces(drain[rev], i))
When(i) == IF Late(i) THEN "late" ELSE "here"
Version == Len(edits) + 1
Edited(i) ==
    /\ Up /\ Len(edits) < MaxEdits /\ Mine(i)
    /\ mem' = [mem EXCEPT ![i] = Version]
    /\ edits' = Append(edits, [item |-> i, how |-> When(i)])
New(i) == mem[i] = 0 /\ \A n \in DOMAIN edits : edits[n].item # i

\* addAsset, updateAsset.
Edit(a) ==
    /\ May("edit") /\ (New(a) \/ mem[a] # 0)
    /\ Edited(a) /\ Schedule
    /\ UNCHANGED <<plan, staged, disk, crossed, session, applying, vers, wanted, write, create, del, adel, remote, deleted>>

\* createCanvasProjectWithRemoteSync.
NewProject(p) ==
    /\ May("new") /\ New(p)
    /\ Edited(p) /\ SaveNow(Queue(drain), TRUE) /\ timer' = Arm(drain)
    /\ UNCHANGED <<plan, staged, disk, crossed, session, applying, vers, write, create, del, adel, remote, deleted>>

\* createAgentCanvasProjectWithRemoteSync and ensureRemoteCanvasProjectReady.
AgentProject(p) ==
    /\ May("agent") /\ New(p)
    /\ Edited(p) /\ Schedule
    /\ create' = [create EXCEPT ![p] = [pc |-> "sent", s |-> rev, ver |-> Version]]
    /\ UNCHANGED <<plan, staged, disk, crossed, session, applying, vers, wanted, write, del, adel, remote, deleted>>

\* deleteAssetWithRemoteSync, and what it does with the answer.
DropAsset(a) ==
    /\ May("drop") /\ Up /\ mem[a] # 0 /\ a \notin adel
    /\ adel' = adel \cup {a}
    /\ UNCHANGED <<plan, store, session, applying, timer, vers, wanted, drain, write, create, del, remote, history>>
Dropped(a) ==
    /\ a \in adel /\ adel' = adel \ {a}
    /\ \/ Lost(server[a] # 0 /\ Puts(a, 0)) /\ UNCHANGED <<store, vers, drain, timer, deleted>>
       \/ server[a] = 0 /\ UNCHANGED <<store, server, vers, drain, timer, deleted>>
       \/ /\ server[a] # 0 /\ Puts(a, 0)
          /\ vers' = [vers EXCEPT ![a] = 0]
          /\ mem' = [mem EXCEPT ![a] = 0] /\ UNCHANGED staged /\ Persist(a)
          /\ Schedule /\ deleted' = IF Mine(a) THEN [deleted EXCEPT ![a] = When(a)] ELSE deleted
    /\ UNCHANGED <<plan, session, applying, wanted, write, create, del, gone, edits>>

----------------------------------------------------------------------------
(* Deletion of a canvas: createCanvasProjectDeletionService *)

\* stageRemoteDelete.
Delete(p) ==
    /\ May("delete") /\ Up /\ mem[p] # 0 /\ del[p].pc = "idle"
    /\ staged' = staged \cup {p}
    /\ del' = [del EXCEPT ![p] = [pc |-> "stage", s |-> rev]]
    /\ UNCHANGED <<plan, mem, disk, crossed, session, applying, timer, vers, wanted, drain, write, create, adel, remote, history>>

\* Mutant: the deletion does not wait for the batch.
MustNotWait == FALSE

\* The staging is on disk: waitForRemoteWrites, then deleteRemote.
MustWait == Busy(drain)
Staged(p) ==
    /\ del[p].pc = "stage"
    /\ del' = [del EXCEPT ![p] = [pc |-> IF MustWait THEN "wait" ELSE "sent", s |-> rev]]
    /\ UNCHANGED <<plan, store, session, applying, timer, vers, wanted, drain, write, create, adel, remote, history>>

\* DeleteUserCanvasProject; what is not found counts as deleted, and leaves
\* the store of whoever is signed in.  What fails is no more staged.
Deleted(p) ==
    LET found == server[p] # 0 /\ plan.users[del[p].s] = Owner[p]
        Removed == Puts(p, 0) /\ gone' = gone \cup {p}
    IN  /\ del[p].pc = "sent" /\ del' = [del EXCEPT ![p].pc = "idle"]
        /\ \/ /\ \/ Fails("request") /\ UNCHANGED remote
                 \/ Fails("answer") /\ found /\ Removed
              /\ staged' = staged \ {p} /\ UNCHANGED <<mem, vers, drain, timer, deleted>>
              /\ Persist(p)
           \/ /\ IF found THEN Removed ELSE UNCHANGED remote
              /\ vers' = [vers EXCEPT ![p] = 0]
              /\ mem' = [mem EXCEPT ![p] = 0] /\ staged' = staged \ {p} /\ Persist(p)
              /\ Schedule /\ deleted' = IF Mine(p) THEN [deleted EXCEPT ![p] = When(p)] ELSE deleted
        /\ UNCHANGED <<plan, session, applying, wanted, write, create, adel, edits>>

----------------------------------------------------------------------------
(* The start of a session: syncRemoteUserData *)

Quit == login' = NoLogin /\ applying' = FALSE

\* The staged deletions have been made; the lists are read.
List ==
    /\ login.pc = "resume"
    /\ \A p \in Projects : del[p] # [pc |-> "sent", s |-> rev]
    /\ \/ Fails("request") /\ Quit /\ UNCHANGED vers
       \/ LET there == [i \in Items |-> IF Mine(i) THEN server[i] ELSE 0]
          IN  /\ vers' = there
              /\ login' = [pc |-> "fetch", snap |-> mem, newer |-> {i \in Items : there[i] > mem[i]},
                           deleted |-> {p \in gone : Mine(p)}]
              /\ UNCHANGED applying
    /\ UNCHANGED <<plan, store, rev, phase, loaded, timer, wanted, drain, write, create, del, adel, remote, history>>

\* What was newer on the server is read and merged with the lists as they were;
\* of each item the later version stays (mergeCanvasProjects, mergeById).
Merged == [i \in Items |-> IF i \in login.deleted THEN 0
                           ELSE IF i \in login.newer /\ server[i] > login.snap[i] THEN server[i]
                           ELSE login.snap[i]]
Apply ==
    /\ login.pc = "fetch"
    /\ \/ (Fails("request") \/ \E i \in login.newer : server[i] = 0)
          /\ Quit /\ UNCHANGED <<mem, drain, timer, wanted>>
       \/ /\ \A i \in login.newer : server[i] # 0
          /\ mem' = Merged /\ applying' = FALSE
          /\ login' = [NoLogin EXCEPT !.pc = "saving"]
          /\ SaveNow(Queue(drain), FALSE) /\ timer' = Arm(drain)
    /\ UNCHANGED <<plan, staged, disk, crossed, rev, phase, loaded, vers, write, create, del, adel, remote, history>>

Started ==
    /\ login.pc = "saving" /\ wanted = "no" /\ ~Busy(drain)
    /\ login' = NoLogin /\ Schedule
    /\ UNCHANGED <<plan, store, rev, phase, loaded, applying, vers, wanted, write, create, del, adel, remote, history>>

----------------------------------------------------------------------------
(* A change of user: applyWorkspaceSession.  Every user has signed in in     *)
(* this browser before, so that there is a snapshot for each.                *)

\* resetRemoteUserDataSync, then flushCanvasStorePersistence is awaited.
Leave ==
    /\ Up /\ rev < Len(plan.users)
    /\ rev' = rev + 1 /\ phase' = "flush"
    /\ disk' = [disk EXCEPT ![User] = [mem |-> mem, staged |-> staged]]
    /\ applying' = FALSE /\ timer' = FALSE /\ wanted' = "no" /\ vers' = None /\ login' = NoLogin
    /\ UNCHANGED <<plan, mem, staged, crossed, loaded, drain, write, create, del, adel, remote, history>>

\* setActiveUserScope; the stores still hold what the user who left has.
Rescope ==
    /\ phase = "flush" /\ phase' = "scope"
    /\ UNCHANGED <<plan, store, rev, loaded, applying, timer, vers, wanted, login, drain, write, create,
                   del, adel, remote, history>>

\* persist.rehydrate reads what is stored for the user who signs in.
Rehydrate ==
    /\ phase = "scope" /\ phase' = "read"
    /\ loaded' = disk[User]
    /\ UNCHANGED <<plan, store, rev, applying, timer, vers, wanted, login, drain, write, create,
                   del, adel, remote, history>>

\* The stores are set to it, and syncRemoteUserData begins.
Resume ==
    /\ phase = "read" /\ phase' = "no"
    /\ mem' = loaded.mem /\ staged' = loaded.staged /\ loaded' = NoStores
    /\ del' = [p \in Projects |-> IF p \in staged' THEN [pc |-> "sent", s |-> rev] ELSE del[p]]
    /\ applying' = TRUE /\ login' = [NoLogin EXCEPT !.pc = "resume"]
    /\ UNCHANGED <<plan, disk, crossed, rev, timer, vers, wanted, drain, write, create, adel, remote, history>>

----------------------------------------------------------------------------
(* Others *)

\* Another device of the user edits an asset, deletes a canvas.
There(i) ==
    /\ May("other") /\ server[i] # 0 /\ Len(edits) < MaxEdits
    /\ edits' = Append(edits, [item |-> i, how |-> "there"])
    /\ IF i \in Assets THEN Puts(i, Version) /\ UNCHANGED gone ELSE Puts(i, 0) /\ gone' = gone \cup {i}
    /\ UNCHANGED <<plan, store, session, applying, timer, vers, wanted, drain, write, create, del, adel, deleted>>

----------------------------------------------------------------------------

Next ==
    \/ Timer \/ Begin \/ List \/ Apply \/ Started
    \/ Leave \/ Rescope \/ Rehydrate \/ Resume
    \/ \E s \in Sessions : Upload(s) \/ Send(s) \/ Await(s) \/ Created(s) \/ Written(s)
    \/ \E a \in Assets : SaveAsset(a) \/ Prepared(a) \/ Saved(a) \/ Edit(a) \/ DropAsset(a) \/ Dropped(a)
    \/ \E p \in Projects : ProjectReady(p) \/ NewProject(p) \/ AgentProject(p)
                           \/ Delete(p) \/ Staged(p) \/ Deleted(p)
    \/ \E i \in Items : There(i)

Spec == Init /\ [][Next]_vars

----------------------------------------------------------------------------
(* Properties *)

\* The stores hold, and keep for each user under that user's keys, what is
\* that user's.  resetRemoteUserDataSync and ownsRemoteSession are there for
\* this: an answer of the session before must not be written into the stores
\* of the next one.
Isolation ==
    /\ Up => \A i \in Items : mem[i] # 0 => Mine(i)
    /\ \A i \in Items : vers[i] # 0 => Mine(i)
    /\ \A u \in Users : \A i \in Items : disk[u].mem[i] # 0 => Owner[i] = u

\* It fails in one way only: the answer to a deletion, or the refusal of a
\* canvas that is deleted already, which no one checks against the session,
\* arrives while the next user's stores are being fetched.  Whatever else
\* the session before still has under way crosses no change of user.
IsolatedUnlessCrossed == ~crossed => Isolation

\* What the user made stays in the browser in that state or a later one until
\* it is deleted, through uploads, batches, the merge of a new session and a
\* change of user in which nothing crosses.  An edit made while a list read
\* before it is about to be written back is late and may be lost:
\* saveRemoteUserDataBatch and syncRemoteUserData have no test like that of
\* persistRemoteAssetById.
Kept(i) == IF Up /\ Mine(i) THEN mem[i] ELSE disk[Owner[i]].mem[i]
EditsKept ==
    ~crossed =>
        \A n \in DOMAIN edits : LET i == edits[n].item
                                IN  edits[n].how = "here" /\ deleted[i] = "no" /\ i \notin gone => Kept(i) >= n

\* When nothing is under way any more the server has what the stores have:
\* no change is forgotten because it came while a batch, a targeted write or
\* the start of the session was running.  (When a user signs in again, a write
\* of the session before may still arrive after those of the next.)
SessionsOf(u) == {s \in 1..rev : plan.users[s] = u}
Quiet ==
    /\ Up /\ ~timer /\ wanted = "no" /\ login.pc = "idle" /\ adel = {}
    /\ \A s \in Sessions : At(s, "idle")
    /\ \A a \in Assets : write[a].pc = "idle"
    /\ \A p \in Projects : create[p].pc = "idle" /\ del[p].pc = "idle"

\* What the user was told is deleted is not on the server again: the deletion
\* waits for the writes that have begun (waitForRemoteWrites).  It waits for
\* the batch only and not for targeted creations, so that this holds for the
\* canvases batches create, in one session and unless a list read before is
\* written back.
BatchDeletedStaysDeleted ==
    "agent" \notin plan.ops /\ Len(plan.users) = 1 /\ plan.faults = {} =>
        \A p \in Projects : deleted[p] = "here" => server[p] = 0

=============================================================================
