-------------------------- MODULE CanvasCollaboration --------------------------
(***************************************************************************)
(* Several browsers edit one canvas.  Each keeps the document it shows,    *)
(* the last document it knows of the server (its base) and at most one     *)
(* mutation in flight, and derives what to send, and what to keep when a   *)
(* newer document arrives, from the difference of two documents.  The      *)
(* server accepts a mutation made against its current revision and         *)
(* broadcasts it over the web sockets; everything else is a conflict, on   *)
(* which the browser reads the canvas anew (resync).                       *)
(*                                                                         *)
(* A document maps cells (nodes, connections, title...) to values; an edit *)
(* gives a cell a value no other edit gives.                               *)
(***************************************************************************)
EXTENDS Naturals, Sequences, FiniteSets

CONSTANTS
    Clients,
    Cells,
    Asker,      \* the client whose Agent changes the canvas on the server
    Editors,    \* who may edit at first
    Plans,      \* what may fail: one set of faults is chosen at first
    MaxEdits,   \* bound: edits by users and the Agent
    MaxDrops,   \* bound: connections lost
    MaxReads,   \* bound: canvas reads of a client under way at once
    MaxSent     \* bound: mutations a client sends

ASSUME PlansAssumption == Plans \subseteq SUBSET {"drop", "read", "server", "revoke", "agent"}
ASSUME AskerAssumption == Asker \in Clients
ASSUME BoundsAssumption == MaxEdits \in Nat /\ MaxDrops \in Nat /\ MaxReads \in Nat

VARIABLES
    faults,     \* what may fail in this behaviour
    history,    \* server: the documents by revision, from revision 0
    editor,     \* server: who may edit
    outbox,     \* mutations sent over the sockets, per client
    emitting,   \* server: what each connection has committed and not broadcast
    link,       \* each client's socket, and the snapshot read for it
    inbox,      \* what the socket brings each client
    doc, base, rev, flight, due, can, \* currentDocumentRef, baseDocumentRef,
                \* revisionRef, inFlightRef, mutationTimerRef, accessRef
    reads,      \* the client's canvas reads under way
    edits,      \* history: the edits made
    sent,       \* mutations sent by each client, for their ids
    drops       \* connections lost

server == <<history, editor, emitting>>
client == <<doc, base, rev, flight, due, can>>
net == <<outbox, link, inbox>>
count == <<edits, sent, drops, faults>>
vars == <<server, client, net, reads, count>>

----------------------------------------------------------------------------
(* Documents and patches *)

Docs == [Cells -> 0..MaxEdits]
NoDoc == [x \in Cells |-> MaxEdits + 1]

\* diffCanvasCollaborationDocument and applyCanvasMutationPatch; the empty
\* patch is the empty function.
Diff(a, b) == [x \in {y \in Cells : a[y] # b[y]} |-> b[x]]
Apply(d, p) == [x \in Cells |-> IF x \in DOMAIN p THEN p[x] ELSE d[x]]
Empty(p) == DOMAIN p = {}
Patches == UNION {[S -> 0..MaxEdits] : S \in SUBSET Cells}

NoFlight == [id |-> 0, target |-> NoDoc]
State == [doc : Docs, rev : Nat, can : BOOLEAN]
NoState == [doc |-> NoDoc, rev |-> 0, can |-> FALSE]
Mutation == [by : Clients, id : Nat, base : Nat, patch : Patches]
Message ==
    [k : {"snapshot"}, state : State]
    \cup [k : {"mutation"}, by : Clients, id : Nat, rev : Nat, patch : Patches]
    \cup [k : {"error"}, status : {403, 409, 500}]
Read == [k : {"resync", "refresh"}, pending : Patches, done : BOOLEAN, state : State \cup {NoState}]

TypeOK ==
    /\ faults \in Plans
    /\ history \in Seq(Docs)
    /\ editor \in [Clients -> BOOLEAN]
    /\ outbox \in [Clients -> Seq([m : Mutation, old : BOOLEAN])]
    /\ emitting \in [Clients -> Seq(Message)] /\ \A c \in Clients : Len(emitting[c]) <= 1
    /\ link \in [Clients -> [st : {"closed", "joining", "open"}, state : State \cup {NoState}]]
    /\ inbox \in [Clients -> Seq(Message)]
    /\ doc \in [Clients -> Docs \cup {NoDoc}] /\ base \in [Clients -> Docs \cup {NoDoc}]
    /\ rev \in [Clients -> Nat]
    /\ flight \in [Clients -> [id : Nat, target : Docs \cup {NoDoc}]]
    /\ due \in [Clients -> BOOLEAN] /\ can \in [Clients -> BOOLEAN]
    /\ reads \in [Clients -> Seq(Read)] /\ \A c \in Clients : Len(reads[c]) <= MaxReads
    /\ edits \in Seq([by : Clients \cup {"agent"}, cell : Cells, late : BOOLEAN])
    /\ sent \in [Clients -> Nat]
    /\ drops \in 0..MaxDrops

Init ==
    /\ faults \in Plans
    /\ history = <<[x \in Cells |-> 0]>>
    /\ editor = [c \in Clients |-> c \in Editors]
    /\ outbox = [c \in Clients |-> <<>>]
    /\ emitting = [c \in Clients |-> <<>>]
    /\ link = [c \in Clients |-> [st |-> "closed", state |-> NoState]]
    /\ inbox = [c \in Clients |-> <<>>]
    /\ doc = [c \in Clients |-> NoDoc]
    /\ base = [c \in Clients |-> NoDoc]
    /\ rev = [c \in Clients |-> 0]
    /\ flight = [c \in Clients |-> NoFlight]
    /\ due = [c \in Clients |-> FALSE]
    /\ can = [c \in Clients |-> FALSE]
    /\ reads = [c \in Clients |-> <<>>]
    /\ edits = <<>>
    /\ sent = [c \in Clients |-> 0]
    /\ drops = 0

Fails(f) == f \in faults
Revision == Len(history) - 1
Canvas(c) == [doc |-> history[Len(history)], rev |-> Revision, can |-> editor[c]]

----------------------------------------------------------------------------
(* The connection *)

\* serveSocket reads the canvas first and registers the client later.
Join(c) ==
    /\ link[c].st = "closed"
    /\ link' = [link EXCEPT ![c] = [st |-> "joining", state |-> Canvas(c)]]
    /\ UNCHANGED <<server, client, outbox, inbox, reads, count>>

Enter(c) ==
    /\ link[c].st = "joining"
    /\ link' = [link EXCEPT ![c] = [st |-> "open", state |-> NoState]]
    /\ inbox' = [inbox EXCEPT ![c] = Append(@, [k |-> "snapshot", state |-> link[c].state])]
    /\ UNCHANGED <<server, client, outbox, reads, count>>

\* The socket breaks, or the hub drops a client whose queue is full: what was
\* not read is gone, what was sent may still reach the server.
Drop(c) ==
    /\ Fails("drop") /\ drops < MaxDrops /\ link[c].st = "open"
    /\ drops' = drops + 1
    /\ link' = [link EXCEPT ![c] = [st |-> "closed", state |-> NoState]]
    /\ inbox' = [inbox EXCEPT ![c] = <<>>]
    /\ \/ outbox' = [outbox EXCEPT ![c] = <<>>]
       \/ outbox' = [outbox EXCEPT ![c] = [i \in DOMAIN @ |-> [@[i] EXCEPT !.old = TRUE]]]
    /\ UNCHANGED <<server, client, reads, edits, sent, faults>>

----------------------------------------------------------------------------
(* The client *)

\* Mutant: the effect on currentDocument is left out.
ShowQuietly(c, d, newBase, editable) ==
    /\ doc' = [doc EXCEPT ![c] = IF editable THEN d ELSE newBase]
    /\ can' = [can EXCEPT ![c] = editable]
    /\ base' = [base EXCEPT ![c] = newBase]
    /\ UNCHANGED due

\* applyDocument: the document is shown, and the effect on currentDocument
\* arms the timer where editing is allowed and takes edits back elsewhere.
Show(c, d, newBase, editable) ==
    /\ doc' = [doc EXCEPT ![c] = IF editable THEN d ELSE newBase]
    /\ due' = [due EXCEPT ![c] = editable \/ @]
    /\ can' = [can EXCEPT ![c] = editable]
    /\ base' = [base EXCEPT ![c] = newBase]

\* applySnapshot.
Snapshot(c, s) ==
    LET pending == IF base[c] = NoDoc THEN <<>> ELSE Diff(base[c], doc[c])
    IN  /\ Show(c, Apply(s.doc, pending), s.doc, s.can)
        /\ rev' = [rev EXCEPT ![c] = s.rev]
        /\ flight' = [flight EXCEPT ![c] = NoFlight]

\* resync: what is pending is taken down before the canvas is read.
Ask(c, kind) ==
    /\ Len(reads[c]) < MaxReads
    /\ reads' = [reads EXCEPT ![c] = Append(@,
           [k |-> kind, pending |-> IF base[c] = NoDoc THEN <<>> ELSE Diff(base[c], doc[c]),
            done |-> FALSE, state |-> NoState])]
Stays == UNCHANGED <<doc, base, rev, flight, due, can>>

\* A person edits a cell.
Edit(c) ==
    \E x \in Cells :
        /\ can[c] /\ base[c] # NoDoc /\ Len(edits) < MaxEdits
        /\ edits' = Append(edits, [by |-> c, cell |-> x, late |-> \E i \in DOMAIN reads[c] : reads[c][i].k = "resync"])
        /\ doc' = [doc EXCEPT ![c][x] = Len(edits) + 1]
        /\ due' = [due EXCEPT ![c] = TRUE]
        /\ UNCHANGED <<server, base, rev, flight, can, net, reads, sent, drops, faults>>

\* sendPendingMutation: one mutation at a time, with all that is pending.
Send(c) ==
    LET patch == Diff(base[c], doc[c])
        sends == link[c].st # "closed" /\ base[c] # NoDoc /\ flight[c] = NoFlight /\ can[c] /\ ~Empty(patch)
        m == [by |-> c, id |-> sent[c] + 1, base |-> rev[c], patch |-> patch]
    IN  /\ due' = [due EXCEPT ![c] = FALSE]
        /\ IF sends
           THEN /\ sent[c] < MaxSent
                /\ flight' = [flight EXCEPT ![c] = [id |-> m.id, target |-> Apply(base[c], patch)]]
                /\ sent' = [sent EXCEPT ![c] = m.id]
                /\ outbox' = [outbox EXCEPT ![c] = Append(@, [m |-> m, old |-> FALSE])]
           ELSE UNCHANGED <<flight, sent, outbox>>
        /\ UNCHANGED <<server, doc, base, rev, can, link, inbox, reads, edits, drops, faults>>

\* The timer fires; flushPendingChanges, before the canvas is handed to the
\* Agent, stops the timer and sends until nothing is pending.
Timer(c) == due[c] /\ Send(c)
Flush(c) == can[c] /\ base[c] # NoDoc /\ doc[c] # base[c] /\ Send(c)

Got(c) == Head(inbox[c])
Take(c, k) ==
    /\ inbox[c] # <<>> /\ Got(c).k = k
    /\ inbox' = [inbox EXCEPT ![c] = Tail(@)]
    /\ UNCHANGED <<server, outbox, link, count>>

TakeSnapshot(c) == Take(c, "snapshot") /\ Snapshot(c, Got(c).state) /\ UNCHANGED reads

\* applyMutation: an older one is known, a gap is read over, and the next one
\* moves the base; what the client has changed on top is kept.
Own(c, m) == m.by = c /\ flight[c].id = m.id
Known(c, m) == base[c] = NoDoc \/ m.rev <= rev[c]
Gap(c, m) == m.rev # rev[c] + 1

\* Mutant: a gap in the revisions goes unnoticed.
TakeMutationGap(c) ==
    LET m == Got(c)
        remote == Apply(base[c], m.patch)
    IN  /\ Take(c, "mutation") /\ UNCHANGED reads
        /\ \/ Known(c, m) /\ Stays
           \/ /\ ~Known(c, m)
              /\ Show(c, Apply(remote, Diff(base[c], doc[c])), remote, can[c])
              /\ rev' = [rev EXCEPT ![c] = m.rev]
              /\ flight' = [flight EXCEPT ![c] = IF Own(c, m) THEN NoFlight ELSE @]

\* Mutant: what is pending is not put on top of the new document.
TakeMutationOver(c) ==
    LET m == Got(c)
        remote == Apply(base[c], m.patch)
    IN  /\ Take(c, "mutation")
        /\ \/ Known(c, m) /\ Stays /\ UNCHANGED reads
           \/ ~Known(c, m) /\ Gap(c, m) /\ Ask(c, "resync") /\ Stays
           \/ /\ ~Known(c, m) /\ ~Gap(c, m) /\ UNCHANGED reads
              /\ Show(c, remote, remote, can[c])
              /\ rev' = [rev EXCEPT ![c] = m.rev]
              /\ flight' = [flight EXCEPT ![c] = IF Own(c, m) THEN NoFlight ELSE @]

TakeMutation(c) ==
    LET m == Got(c)
        pending == Diff(IF Own(c, m) THEN flight[c].target ELSE base[c], doc[c])
        remote == Apply(base[c], m.patch)
    IN  /\ Take(c, "mutation")
        /\ \/ Known(c, m) /\ Stays /\ UNCHANGED reads
           \/ ~Known(c, m) /\ Gap(c, m) /\ Ask(c, "resync") /\ Stays
           \/ /\ ~Known(c, m) /\ ~Gap(c, m)
              /\ Show(c, Apply(remote, pending), remote, can[c])
              /\ rev' = [rev EXCEPT ![c] = m.rev]
              /\ flight' = [flight EXCEPT ![c] = IF Own(c, m) THEN NoFlight ELSE @]
              /\ UNCHANGED reads

\* Mutant: a conflict is treated as the known loss of a race.
TakeErrorQuietly(c) ==
    /\ Take(c, "error") /\ UNCHANGED reads
    /\ \/ Got(c).status = 409 /\ Stays
       \/ /\ Got(c).status # 409 /\ UNCHANGED <<doc, base, rev, due, can>>
          /\ flight' = [flight EXCEPT ![c] = NoFlight]

\* A conflict, a lost permission, any other error.
TakeError(c) ==
    /\ Take(c, "error")
    /\ \/ Got(c).status = 409 /\ Ask(c, "resync") /\ Stays
       \/ /\ Got(c).status = 403 /\ UNCHANGED reads
          /\ flight' = [flight EXCEPT ![c] = NoFlight]
          /\ Show(c, base[c], base[c], FALSE)
          /\ UNCHANGED rev
       \/ /\ Got(c).status = 500 /\ UNCHANGED <<reads, doc, base, rev, due, can>>
          /\ flight' = [flight EXCEPT ![c] = NoFlight]

\* The canvas is read for one of the client's questions.
ReadCanvas(c) ==
    \E i \in DOMAIN reads[c] :
        /\ ~reads[c][i].done
        /\ reads' = [reads EXCEPT ![c][i].done = TRUE, ![c][i].state = Canvas(c)]
        /\ UNCHANGED <<server, client, net, count>>

Without(s, i) == SubSeq(s, 1, i - 1) \o SubSeq(s, i + 1, Len(s))

\* Mutant: a failed read is taken for an empty canvas.
AnswerUnchecked(c) ==
    \E i \in DOMAIN reads[c] :
        LET r == reads[c][i]
        IN  /\ r.k = "resync" /\ (r.done \/ Fails("read"))
            /\ reads' = [reads EXCEPT ![c] = Without(@, i)]
            /\ Show(c, Apply(r.state.doc, r.pending), r.state.doc, can[c])
            /\ rev' = [rev EXCEPT ![c] = r.state.rev]
            /\ flight' = [flight EXCEPT ![c] = NoFlight]
            /\ UNCHANGED <<server, net, count>>

\* The answer, or none: a resync applies what it took down; a refresh is a
\* snapshot unless it is older than what the client has.
Answer(c) ==
    \E i \in DOMAIN reads[c] :
        LET r == reads[c][i]
        IN  /\ reads' = [reads EXCEPT ![c] = Without(@, i)]
            /\ \/ /\ r.done /\ r.k = "resync"
                  /\ Show(c, Apply(r.state.doc, r.pending), r.state.doc, r.state.can)
                  /\ rev' = [rev EXCEPT ![c] = r.state.rev]
                  /\ flight' = [flight EXCEPT ![c] = NoFlight]
               \/ r.done /\ r.k = "refresh" /\ r.state.rev < rev[c] /\ Stays
               \/ r.done /\ r.k = "refresh" /\ r.state.rev >= rev[c] /\ Snapshot(c, r.state)
               \/ ~r.done /\ Fails("read") /\ Stays
            /\ UNCHANGED <<server, net, count>>

----------------------------------------------------------------------------
(* The server *)

Tells(c, status, old) ==
    inbox' = IF old \/ link[c].st # "open" THEN inbox
             ELSE [inbox EXCEPT ![c] = Append(@, [k |-> "error", status |-> status])]

\* CommitCanvasMutation, by the connection's read loop.
Handle(c) ==
    LET item == Head(outbox[c])
        m == item.m
    IN  /\ outbox[c] # <<>> /\ emitting[c] = <<>> /\ (item.old \/ link[c].st = "open")
        /\ outbox' = [outbox EXCEPT ![c] = Tail(@)]
        /\ \/ ~editor[c] /\ Tells(c, 403, item.old) /\ UNCHANGED <<history, emitting>>
           \/ editor[c] /\ m.base # Revision /\ Tells(c, 409, item.old) /\ UNCHANGED <<history, emitting>>
           \/ /\ editor[c] /\ m.base = Revision
              /\ history' = Append(history, Apply(Canvas(c).doc, m.patch))
              /\ emitting' = [emitting EXCEPT ![c] =
                     <<[k |-> "mutation", by |-> c, id |-> m.id, rev |-> Revision + 1, patch |-> m.patch]>>]
              /\ UNCHANGED inbox
           \/ Fails("server") /\ Tells(c, 500, item.old) /\ UNCHANGED <<history, emitting>>
        /\ UNCHANGED <<editor, link, client, reads, count>>

\* emit and broadcast, to whoever is registered.
Emit(c) ==
    /\ emitting[c] # <<>>
    /\ emitting' = [emitting EXCEPT ![c] = <<>>]
    /\ inbox' = [d \in Clients |-> IF link[d].st = "open" THEN inbox[d] \o emitting[c] ELSE inbox[d]]
    /\ UNCHANGED <<history, editor, outbox, link, client, reads, count>>

\* The Agent of one client changes the canvas; nothing is broadcast, that
\* client is told to read it again.
AgentCommit ==
    \E x \in Cells :
        /\ Fails("agent") /\ Len(edits) < MaxEdits
        /\ edits' = Append(edits, [by |-> "agent", cell |-> x, late |-> FALSE])
        /\ history' = Append(history, [history[Len(history)] EXCEPT ![x] = Len(edits) + 1])
        /\ Ask(Asker, "refresh")
        /\ UNCHANGED <<editor, emitting, net, client, sent, drops, faults>>

\* A manager takes the right to edit away.
Revoke(c) ==
    /\ Fails("revoke") /\ editor[c]
    /\ editor' = [editor EXCEPT ![c] = FALSE]
    /\ UNCHANGED <<history, emitting, net, client, reads, count>>

----------------------------------------------------------------------------
Works(c) ==
    \/ Join(c) \/ Enter(c) \/ Timer(c) \/ Flush(c) \/ TakeSnapshot(c) \/ TakeMutation(c) \/ TakeError(c)
    \/ ReadCanvas(c) \/ Answer(c) \/ Handle(c) \/ Emit(c)
Next ==
    \/ \E c \in Clients : Works(c) \/ Drop(c) \/ Edit(c) \/ Revoke(c)
    \/ AgentCommit

Spec == Init /\ [][Next]_vars

----------------------------------------------------------------------------
(* Properties *)

\* A client's base is the server's document of the revision it says, so a
\* mutation accepted for that revision changes what the client meant to change
\* (applyMutation's gap check, resync, applySnapshot).
BaseIsHistory == \A c \in Clients : base[c] # NoDoc => base[c] = history[rev[c] + 1]

\* A mutation in flight is always going to be answered: it is with the server,
\* its broadcast or refusal is on the way, or the canvas is being read.
InFlightAnswered ==
    \A c \in Clients : flight[c] # NoFlight /\ link[c].st = "open" /\ faults \cap {"read"} = {} =>
        \/ \E i \in DOMAIN outbox[c] : outbox[c][i].m.id = flight[c].id
        \/ emitting[c] # <<>>
        \/ \E i \in DOMAIN inbox[c] : inbox[c][i].k \in {"snapshot", "error"} \/ (inbox[c][i].k = "mutation" /\ inbox[c][i].rev > rev[c])
        \/ \E i \in DOMAIN reads[c] : reads[c][i].k = "resync"

\* Edits not saved yet do not wait for the next one: a timer runs, a mutation
\* is in flight or the canvas is read (currentDocument effect, applyMutation).
UnsavedIsDue ==
    faults \cap {"read", "server"} = {} =>
        \A c \in Clients : base[c] # NoDoc /\ doc[c] # base[c] /\ can[c] =>
            due[c] \/ flight[c] # NoFlight \/ reads[c] # <<>> \/ link[c].st # "open" \/ inbox[c] # <<>>

\* An edit is shown, saved, replaced by a later edit of its author, or taken
\* back from somebody who lost the right to edit.
Kept(n) ==
    LET e == edits[n]
    IN  \/ \E r \in DOMAIN history : history[r][e.cell] = n
        \/ e.by \in Clients /\ doc[e.by][e.cell] = n
        \/ \E m \in n + 1..Len(edits) : edits[m].by = e.by /\ edits[m].cell = e.cell
        \/ e.by \in Clients /\ ~editor[e.by]
EditsKept == \A n \in DOMAIN edits : edits[n].late \/ Kept(n)

=============================================================================
