----------------------- MODULE CanvasCollaborationProofs -----------------------
(***************************************************************************)
(* The proofs about the canvas collaboration: that a client's base is the  *)
(* server's document of its revision, that a mutation in flight is         *)
(* answered, that what is not saved is due, and that no edit is lost.      *)
(*                                                                         *)
(* One lemma says what a step can do to one client (ClientMoves); others   *)
(* say it of the server's history, a client's questions, its connection    *)
(* and the messages on their way.  The invariants are proved from those,   *)
(* each without another look at the actions:                               *)
(*   TypeInv    types, and what is at hand where it is used;               *)
(*   LineInv    every canvas, and every change, on its way is one the      *)
(*              server had;                                                *)
(*   FlightInv  a message about a mutation in flight leads to its target,  *)
(*              and one revision is one mutation;                          *)
(*   AnswerInv, DueInv, KeepInv  the properties, client by client.         *)
(***************************************************************************)
EXTENDS CanvasCollaboration, SequenceTheorems, TLAPS

----------------------------------------------------------------------------
(* Sequences, documents and patches *)

LEMMA Element ==
    ASSUME NEW S, NEW s \in Seq(S), NEW i \in DOMAIN s
    PROVE  s[i] \in S
OBVIOUS

LEMMA Enumerated ==
    ASSUME NEW S, NEW n \in Nat, NEW s \in [1..n -> S]
    PROVE  s \in Seq(S) /\ Len(s) = n
<1>1. s \in Seq(S)
    BY SeqDef
<1> QED BY <1>1, LenProperties

LEMMA Appended ==
    ASSUME NEW S, NEW s \in Seq(S), NEW e \in S
    PROVE  /\ Append(s, e) \in Seq(S) /\ Len(Append(s, e)) = Len(s) + 1
           /\ DOMAIN Append(s, e) = 1..Len(s) + 1 /\ DOMAIN s = 1..Len(s) /\ Len(s) \in Nat
           /\ \A i \in DOMAIN s : Append(s, e)[i] = s[i]
           /\ Append(s, e)[Len(s) + 1] = e
<1>1. Len(s) \in Nat /\ DOMAIN s = 1..Len(s)
    OBVIOUS
<1>2. Append(s, e) \in Seq(S) /\ Len(Append(s, e)) = Len(s) + 1
    OBVIOUS
<1>3. DOMAIN Append(s, e) = 1..Len(s) + 1
    BY <1>2, LenProperties
<1>4. \A i \in DOMAIN s : Append(s, e)[i] = s[i]
    BY <1>1
<1>5. Append(s, e)[Len(s) + 1] = e
    BY <1>1
<1> QED BY <1>1, <1>2, <1>3, <1>4, <1>5

\* What is left when the first element is taken.
LEMMA TailElements ==
    ASSUME NEW S, NEW s \in Seq(S), s # <<>>
    PROVE  /\ Tail(s) \in Seq(S) /\ Head(s) \in S /\ Head(s) = s[1] /\ 1 \in DOMAIN s
           /\ \A i \in DOMAIN Tail(s) : i + 1 \in DOMAIN s /\ Tail(s)[i] = s[i + 1]
           /\ \A j \in DOMAIN s : j # 1 => \E i \in DOMAIN Tail(s) : Tail(s)[i] = s[j]
<1>1. Len(s) \in Nat \ {0} /\ DOMAIN s = 1..Len(s)
    OBVIOUS
<1>2. Tail(s) \in Seq(S) /\ Head(s) \in S /\ Head(s) = s[1] /\ 1 \in DOMAIN s
    BY <1>1
<1>3. DOMAIN Tail(s) = 1..Len(s) - 1
    <2>1. Len(Tail(s)) = Len(s) - 1
        BY <1>1
    <2> QED BY <1>2, <2>1, LenProperties
<1>4. \A i \in 1..Len(s) - 1 : Tail(s)[i] = s[i + 1]
    BY <1>1
<1>5. ASSUME NEW j \in DOMAIN s, j # 1
      PROVE  \E i \in DOMAIN Tail(s) : Tail(s)[i] = s[j]
    <2>1. j - 1 \in DOMAIN Tail(s) /\ (j - 1) + 1 = j
        BY <1>1, <1>3, <1>5
    <2>2. Tail(s)[j - 1] = s[j]
        BY <1>3, <1>4, <2>1
    <2> QED BY <2>1, <2>2
<1>6. \A i \in DOMAIN Tail(s) : i + 1 \in DOMAIN s
    BY <1>1, <1>3
<1> QED BY <1>2, <1>3, <1>4, <1>5, <1>6

\* What is left when one element is taken out.
LEMMA WithoutElements ==
    ASSUME NEW S, NEW s \in Seq(S), NEW i \in DOMAIN s
    PROVE  /\ Without(s, i) \in Seq(S)
           /\ DOMAIN Without(s, i) = 1..Len(s) - 1
           /\ Len(Without(s, i)) = Len(s) - 1
           /\ \A j \in 1..Len(s) - 1 : Without(s, i)[j] = IF j < i THEN s[j] ELSE s[j + 1]
<1>1. i \in 1..Len(s) /\ Len(s) \in Nat
    OBVIOUS
<1> DEFINE a == SubSeq(s, 1, i - 1)
           b == SubSeq(s, i + 1, Len(s))
<1>2. a \in Seq(S) /\ Len(a) = i - 1 /\ \A j \in 1..i - 1 : a[j] = s[j]
    BY <1>1
<1>3. b \in Seq(S) /\ Len(b) = Len(s) - i /\ \A j \in 1..Len(s) - i : b[j] = s[i + j]
    BY <1>1
<1>4. a \o b \in Seq(S) /\ Len(a \o b) = Len(a) + Len(b)
      /\ \A j \in 1..Len(a) + Len(b) : (a \o b)[j] = IF j <= Len(a) THEN a[j] ELSE b[j - Len(a)]
    <2> HIDE DEF a, b
    <2> QED BY <1>2, <1>3, ConcatProperties
<1>5. Without(s, i) = a \o b
    BY DEF Without
<1> HIDE DEF a, b
<1>6. Len(a \o b) = Len(s) - 1 /\ DOMAIN (a \o b) = 1..Len(s) - 1
    <2>1. Len(a \o b) = Len(s) - 1
        BY <1>1, <1>2, <1>3, <1>4
    <2> QED BY <1>4, <2>1, LenProperties
<1>7. ASSUME NEW j \in 1..Len(s) - 1
      PROVE  (a \o b)[j] = IF j < i THEN s[j] ELSE s[j + 1]
    <2>1. j \in 1..Len(a) + Len(b)
        BY <1>1, <1>2, <1>3
    <2>2. CASE j < i
        BY <1>1, <1>2, <1>4, <2>1, <2>2
    <2>3. CASE ~(j < i)
        <3>1. j - Len(a) \in 1..Len(s) - i /\ ~(j <= Len(a)) /\ i + (j - Len(a)) = j + 1
            BY <1>1, <1>2, <2>3
        <3>2. (a \o b)[j] = b[j - Len(a)]
            BY <1>4, <2>1, <3>1
        <3>3. b[j - Len(a)] = s[i + (j - Len(a))]
            BY <1>3, <3>1
        <3> QED BY <2>3, <3>1, <3>2, <3>3
    <2> QED BY <2>2, <2>3
<1> QED BY <1>4, <1>5, <1>6, <1>7

\* Each element left was there, and each other one stays.
LEMMA WithoutKeeps ==
    ASSUME NEW S, NEW s \in Seq(S), NEW i \in DOMAIN s
    PROVE  /\ \A j \in DOMAIN Without(s, i) : \E k \in DOMAIN s : Without(s, i)[j] = s[k]
           /\ \A k \in DOMAIN s : k # i => \E j \in DOMAIN Without(s, i) : Without(s, i)[j] = s[k]
<1>1. i \in 1..Len(s) /\ Len(s) \in Nat /\ DOMAIN s = 1..Len(s)
    OBVIOUS
<1>2. ASSUME NEW j \in DOMAIN Without(s, i)
      PROVE  \E k \in DOMAIN s : Without(s, i)[j] = s[k]
    <2>1. j \in 1..Len(s) - 1 /\ j \in DOMAIN s /\ j + 1 \in DOMAIN s
        BY <1>1, <1>2, WithoutElements
    <2>2. Without(s, i)[j] = IF j < i THEN s[j] ELSE s[j + 1]
        BY <2>1, WithoutElements
    <2> QED BY <2>1, <2>2
<1>3. ASSUME NEW k \in DOMAIN s, k # i
      PROVE  \E j \in DOMAIN Without(s, i) : Without(s, i)[j] = s[k]
    <2> DEFINE j == IF k < i THEN k ELSE k - 1
    <2>1. j \in 1..Len(s) - 1
        BY <1>1, <1>3
    <2>2. Without(s, i)[j] = IF j < i THEN s[j] ELSE s[j + 1]
        BY <2>1, WithoutElements
    <2>3. Without(s, i)[j] = s[k]
        BY <1>1, <1>3, <2>2
    <2>4. j \in DOMAIN Without(s, i)
        BY <2>1, WithoutElements
    <2> QED BY <2>3, <2>4
<1> QED BY <1>2, <1>3

LEMMA NothingIsPatch == <<>> \in Patches
<1>1. <<>> \in [{} -> 0..MaxEdits]
    BY EmptySeq
<1> QED BY <1>1 DEF Patches

LEMMA DiffType ==
    ASSUME NEW a, NEW b \in Docs
    PROVE  Diff(a, b) \in Patches
<1> DEFINE S == {y \in Cells : a[y] # b[y]}
<1>1. Diff(a, b) \in [S -> 0..MaxEdits]
    BY DEF Diff, Docs
<1> QED BY <1>1 DEF Patches

LEMMA ApplyType ==
    ASSUME NEW d \in Docs, NEW p \in Patches
    PROVE  Apply(d, p) \in Docs
<1>1. PICK S \in SUBSET Cells : p \in [S -> 0..MaxEdits]
    BY DEF Patches
<1> QED BY <1>1 DEF Apply, Docs

----------------------------------------------------------------------------
(* Types *)

\* What the client and the server have at hand where they use it: a client
\* with a base shows a document, and a connection being made and an answered
\* read carry a canvas.
Loaded ==
    /\ history # <<>>
    /\ \A c \in Clients : base[c] # NoDoc => doc[c] \in Docs
    /\ \A c \in Clients : link[c].st = "joining" => link[c].state \in State
    /\ \A c \in Clients : \A i \in DOMAIN reads[c] : reads[c][i].done => reads[c][i].state \in State
TypeInv == TypeOK /\ Loaded

\* A mutation on its way, and whether its connection is gone.
Parcel == [m : Mutation, old : BOOLEAN]

LEMMA OutboxType ==
    ASSUME TypeOK
    PROVE  outbox \in [Clients -> Seq(Parcel)] /\ \A c \in Clients : outbox[c] \in Seq(Parcel)
BY DEF TypeOK, Parcel

LEMMA OutboxTyped ==
    (outbox \in [Clients -> Seq(Parcel)])' => (outbox \in [Clients -> Seq([m : Mutation, old : BOOLEAN])])'
BY DEF Parcel

LEMMA StateFields ==
    ASSUME NEW s \in State
    PROVE  s.doc \in Docs /\ s.rev \in Nat /\ s.can \in BOOLEAN
BY DEF State

LEMMA MessageFields ==
    ASSUME NEW m \in Message
    PROVE  /\ m.k = "snapshot" => m.state \in State
           /\ m.k = "mutation" => m.by \in Clients /\ m.id \in Nat /\ m.rev \in Nat /\ m.patch \in Patches
           /\ m.k = "error" => m.status \in {403, 409, 500}
BY DEF Message

LEMMA CanvasType ==
    ASSUME TypeInv, NEW c \in Clients
    PROVE  Canvas(c) \in State /\ history[Len(history)] \in Docs /\ Revision \in Nat
<1>1. history \in Seq(Docs) /\ history # <<>> /\ editor \in [Clients -> BOOLEAN]
    BY DEF TypeInv, TypeOK, Loaded
<1>2. Len(history) \in Nat \ {0} /\ history[Len(history)] \in Docs
    BY <1>1
<1>3. Revision \in Nat
    BY <1>2 DEF Revision
<1>4. editor[c] \in BOOLEAN
    BY <1>1
<1> QED BY <1>2, <1>3, <1>4 DEF Canvas, State

\* What the document shown holds on top of the base is a patch.
LEMMA PendingType ==
    ASSUME TypeInv, NEW c \in Clients
    PROVE  /\ base[c] # NoDoc => Diff(base[c], doc[c]) \in Patches
           /\ (IF base[c] = NoDoc THEN <<>> ELSE Diff(base[c], doc[c])) \in Patches
<1>1. ASSUME base[c] # NoDoc
      PROVE  Diff(base[c], doc[c]) \in Patches
    BY <1>1, DiffType DEF TypeInv, Loaded
<1> QED BY <1>1, NothingIsPatch

LEMMA ShowType ==
    ASSUME TypeInv, NEW c \in Clients, NEW d \in Docs \cup {NoDoc}, NEW b \in Docs \cup {NoDoc},
           NEW e \in BOOLEAN, b # NoDoc => d \in Docs, Show(c, d, b, e)
    PROVE  /\ doc' \in [Clients -> Docs \cup {NoDoc}] /\ base' \in [Clients -> Docs \cup {NoDoc}]
           /\ due' \in [Clients -> BOOLEAN] /\ can' \in [Clients -> BOOLEAN]
           /\ \A x \in Clients : base'[x] # NoDoc => doc'[x] \in Docs
<1>1. /\ doc \in [Clients -> Docs \cup {NoDoc}] /\ base \in [Clients -> Docs \cup {NoDoc}]
      /\ due \in [Clients -> BOOLEAN] /\ can \in [Clients -> BOOLEAN]
      /\ \A x \in Clients : base[x] # NoDoc => doc[x] \in Docs
    BY DEF TypeInv, TypeOK, Loaded
<1>2. b # NoDoc => b \in Docs
    OBVIOUS
<1> QED BY <1>1, <1>2 DEF Show

LEMMA SnapshotType ==
    ASSUME TypeInv, NEW c \in Clients, NEW s \in State, Snapshot(c, s)
    PROVE  /\ doc' \in [Clients -> Docs \cup {NoDoc}] /\ base' \in [Clients -> Docs \cup {NoDoc}]
           /\ due' \in [Clients -> BOOLEAN] /\ can' \in [Clients -> BOOLEAN]
           /\ \A x \in Clients : base'[x] # NoDoc => doc'[x] \in Docs
           /\ rev' \in [Clients -> Nat]
           /\ flight' \in [Clients -> [id : Nat, target : Docs \cup {NoDoc}]]
<1> DEFINE pending == IF base[c] = NoDoc THEN <<>> ELSE Diff(base[c], doc[c])
<1>1. pending \in Patches
    BY PendingType
<1>2. s.doc \in Docs /\ s.rev \in Nat /\ s.can \in BOOLEAN
    BY StateFields
<1>3. Apply(s.doc, pending) \in Docs
    BY <1>1, <1>2, ApplyType
<1>4. Show(c, Apply(s.doc, pending), s.doc, s.can)
    BY DEF Snapshot
<1>5. rev' \in [Clients -> Nat]
    BY <1>2 DEF Snapshot, TypeInv, TypeOK
<1>6. flight' \in [Clients -> [id : Nat, target : Docs \cup {NoDoc}]]
    BY DEF Snapshot, TypeInv, TypeOK, NoFlight
<1> HIDE DEF pending
<1> QED BY <1>2, <1>3, <1>4, <1>5, <1>6, ShowType

LEMMA AskType ==
    ASSUME TypeInv, NEW c \in Clients, NEW kind \in {"resync", "refresh"}, Ask(c, kind)
    PROVE  /\ reads' \in [Clients -> Seq(Read)] /\ \A x \in Clients : Len(reads'[x]) <= MaxReads
           /\ \A x \in Clients : \A i \in DOMAIN reads'[x] : reads'[x][i].done => reads'[x][i].state \in State
<1> DEFINE r == [k |-> kind, pending |-> IF base[c] = NoDoc THEN <<>> ELSE Diff(base[c], doc[c]),
                 done |-> FALSE, state |-> NoState]
<1>1. r \in Read /\ ~r.done
    BY PendingType DEF Read
<1>2. reads \in [Clients -> Seq(Read)] /\ reads' = [reads EXCEPT ![c] = Append(@, r)] /\ Len(reads[c]) < MaxReads
    BY DEF Ask, TypeInv, TypeOK
<1> HIDE DEF r
<1>3. reads' \in [Clients -> Seq(Read)] /\ \A x \in Clients : Len(reads'[x]) <= MaxReads
    BY <1>1, <1>2, BoundsAssumption DEF TypeInv, TypeOK
<1>4. ASSUME NEW x \in Clients, NEW i \in DOMAIN reads'[x], reads'[x][i].done
      PROVE  reads'[x][i].state \in State
    <2>1. CASE x = c
        <3>1. reads'[x] = Append(reads[x], r)
            BY <1>2, <2>1
        <3>2. i \in DOMAIN reads[x] /\ reads'[x][i] = reads[x][i]
            BY <1>1, <1>2, <1>4, <3>1
        <3> QED BY <1>4, <3>2 DEF TypeInv, Loaded
    <2>2. CASE x # c
        BY <1>2, <1>4, <2>2 DEF TypeInv, Loaded
    <2> QED BY <2>1, <2>2
<1> QED BY <1>3, <1>4

LEMMA TypeInit == Init => TypeInv
<1> SUFFICES ASSUME Init PROVE TypeInv
    OBVIOUS
<1>1. [x \in Cells |-> 0] \in Docs
    BY BoundsAssumption DEF Docs
<1>2. history \in Seq(Docs) /\ history # <<>>
    BY <1>1 DEF Init
<1>3. /\ flight \in [Clients -> [id : Nat, target : Docs \cup {NoDoc}]]
      /\ link \in [Clients -> [st : {"closed", "joining", "open"}, state : State \cup {NoState}]]
    BY DEF Init, NoFlight
<1>4. drops \in 0..MaxDrops
    BY BoundsAssumption DEF Init
<1>5. \A c \in Clients : Len(reads[c]) <= MaxReads /\ Len(emitting[c]) <= 1
    BY BoundsAssumption DEF Init
<1>6. /\ outbox \in [Clients -> Seq([m : Mutation, old : BOOLEAN])] /\ inbox \in [Clients -> Seq(Message)]
      /\ emitting \in [Clients -> Seq(Message)] /\ reads \in [Clients -> Seq(Read)]
      /\ edits \in Seq([by : Clients \cup {"agent"}, cell : Cells, late : BOOLEAN])
    BY DEF Init
<1>7. TypeOK
    BY <1>2, <1>3, <1>4, <1>5, <1>6 DEF Init, TypeOK
<1>8. Loaded
    BY <1>2 DEF Init, Loaded
<1> QED BY <1>7, <1>8 DEF TypeInv

\* The connection.
LEMMA LinkType ==
    ASSUME TypeInv, NEW c \in Clients, Join(c) \/ Enter(c) \/ Drop(c)
    PROVE  TypeInv'
<1>1. CASE Join(c)
    <2>1. Canvas(c) \in State
        BY CanvasType
    <2>2. link' = [link EXCEPT ![c] = [st |-> "joining", state |-> Canvas(c)]]
        BY <1>1 DEF Join
    <2>3. /\ link' \in [Clients -> [st : {"closed", "joining", "open"}, state : State \cup {NoState}]]
          /\ \A d \in Clients : link'[d].st = "joining" => link'[d].state \in State
        BY <2>1, <2>2 DEF TypeInv, TypeOK, Loaded
    <2> QED BY <1>1, <2>3 DEF Join, TypeInv, TypeOK, Loaded, server, client, count
<1>2. CASE Enter(c)
    <2> DEFINE m == [k |-> "snapshot", state |-> link[c].state]
    <2>1. m \in Message
        BY <1>2 DEF Enter, TypeInv, Loaded, Message
    <2>2. inbox' = [inbox EXCEPT ![c] = Append(@, m)]
        BY <1>2 DEF Enter
    <2> HIDE DEF m
    <2>3. inbox' \in [Clients -> Seq(Message)]
        BY <2>1, <2>2 DEF TypeInv, TypeOK
    <2>4. /\ link' \in [Clients -> [st : {"closed", "joining", "open"}, state : State \cup {NoState}]]
          /\ \A d \in Clients : link'[d].st = "joining" => link'[d].state \in State
        BY <1>2 DEF Enter, TypeInv, TypeOK, Loaded
    <2> QED BY <1>2, <2>3, <2>4 DEF Enter, TypeInv, TypeOK, Loaded, server, client, count
<1>3. CASE Drop(c)
    <2>1. /\ link' \in [Clients -> [st : {"closed", "joining", "open"}, state : State \cup {NoState}]]
          /\ \A d \in Clients : link'[d].st = "joining" => link'[d].state \in State
        BY <1>3 DEF Drop, TypeInv, TypeOK, Loaded
    <2>2. inbox' \in [Clients -> Seq(Message)]
        BY <1>3 DEF Drop, TypeInv, TypeOK
    <2>3. drops' \in 0..MaxDrops
        BY <1>3, BoundsAssumption DEF Drop, TypeInv, TypeOK
    <2>4. outbox' \in [Clients -> Seq(Parcel)]
        <3> DEFINE old == [i \in DOMAIN outbox[c] |-> [outbox[c][i] EXCEPT !.old = TRUE]]
        <3>1. outbox \in [Clients -> Seq(Parcel)] /\ outbox[c] \in Seq(Parcel)
            BY OutboxType DEF TypeInv
        <3>2. old \in Seq(Parcel)
            <4>1. DOMAIN outbox[c] = 1..Len(outbox[c]) /\ Len(outbox[c]) \in Nat
                BY <3>1
            <4>2. ASSUME NEW i \in DOMAIN outbox[c]
                  PROVE  [outbox[c][i] EXCEPT !.old = TRUE] \in Parcel
                <5>1. outbox[c][i] \in Parcel
                    BY <3>1, Element
                <5> QED BY <5>1 DEF Parcel
            <4>3. old \in [1..Len(outbox[c]) -> Parcel]
                BY <4>1, <4>2
            <4> HIDE DEF old
            <4> QED BY <4>1, <4>3, Enumerated
        <3>3. outbox' = [outbox EXCEPT ![c] = <<>>] \/ outbox' = [outbox EXCEPT ![c] = old]
            BY <1>3 DEF Drop
        <3>4. <<>> \in Seq(Parcel)
            OBVIOUS
        <3> HIDE DEF old
        <3> QED BY <3>1, <3>2, <3>3, <3>4
    <2>5. outbox' \in [Clients -> Seq([m : Mutation, old : BOOLEAN])]
        BY <2>4, OutboxTyped
    <2> QED BY <1>3, <2>1, <2>2, <2>3, <2>5 DEF Drop, TypeInv, TypeOK, Loaded, server, client
<1> QED BY <1>1, <1>2, <1>3

LEMMA EditType ==
    ASSUME TypeInv, NEW c \in Clients, Edit(c)
    PROVE  TypeInv'
<1> DEFINE late == \E i \in DOMAIN reads[c] : reads[c][i].k = "resync"
<1>1. PICK x \in Cells :
          /\ can[c] /\ base[c] # NoDoc /\ Len(edits) < MaxEdits
          /\ edits' = Append(edits, [by |-> c, cell |-> x, late |-> late])
          /\ doc' = [doc EXCEPT ![c][x] = Len(edits) + 1]
          /\ due' = [due EXCEPT ![c] = TRUE]
          /\ UNCHANGED <<server, base, rev, flight, can, net, reads, sent, drops, faults>>
    BY DEF Edit
<1>2. late \in BOOLEAN
    OBVIOUS
<1> HIDE DEF late
<1>3. edits \in Seq([by : Clients \cup {"agent"}, cell : Cells, late : BOOLEAN])
    BY DEF TypeInv, TypeOK
<1>4. edits' \in Seq([by : Clients \cup {"agent"}, cell : Cells, late : BOOLEAN])
    BY <1>1, <1>2, <1>3
<1>5. Len(edits) + 1 \in 0..MaxEdits
    BY <1>1, <1>3, BoundsAssumption
<1>6. doc[c] \in Docs
    BY <1>1 DEF TypeInv, Loaded
<1>7. [doc[c] EXCEPT ![x] = Len(edits) + 1] \in Docs
    BY <1>5, <1>6 DEF Docs
<1>8. doc' \in [Clients -> Docs \cup {NoDoc}] /\ \A d \in Clients : base[d] # NoDoc => doc'[d] \in Docs
    BY <1>1, <1>7 DEF TypeInv, TypeOK, Loaded
<1>9. due' \in [Clients -> BOOLEAN]
    BY <1>1 DEF TypeInv, TypeOK
<1> QED BY <1>1, <1>4, <1>8, <1>9 DEF TypeInv, TypeOK, Loaded, server, net

LEMMA SendType ==
    ASSUME TypeInv, NEW c \in Clients, Send(c)
    PROVE  TypeInv'
<1> DEFINE patch == Diff(base[c], doc[c])
           m == [by |-> c, id |-> sent[c] + 1, base |-> rev[c], patch |-> patch]
           sends == link[c].st # "closed" /\ base[c] # NoDoc /\ flight[c] = NoFlight /\ can[c] /\ ~Empty(patch)
<1>1. /\ due' = [due EXCEPT ![c] = FALSE]
      /\ UNCHANGED <<server, doc, base, rev, can, link, inbox, reads, edits, drops, faults>>
      /\ \/ /\ sends
            /\ flight' = [flight EXCEPT ![c] = [id |-> m.id, target |-> Apply(base[c], patch)]]
            /\ sent' = [sent EXCEPT ![c] = m.id]
            /\ outbox' = [outbox EXCEPT ![c] = Append(@, [m |-> m, old |-> FALSE])]
         \/ UNCHANGED <<flight, sent, outbox>>
    <2>1. CASE sends
        BY <2>1 DEF Send
    <2>2. CASE ~sends
        BY <2>2 DEF Send
    <2> QED BY <2>1, <2>2
<1>2. due' \in [Clients -> BOOLEAN]
    BY <1>1 DEF TypeInv, TypeOK
<1>3. ASSUME sends
      PROVE  patch \in Patches /\ m \in Mutation /\ m.id \in Nat /\ Apply(base[c], patch) \in Docs
    <2>1. patch \in Patches
        BY <1>3, PendingType
    <2>2. base[c] \in Docs
        BY <1>3 DEF TypeInv, TypeOK
    <2>3. Apply(base[c], patch) \in Docs
        BY <2>1, <2>2, ApplyType
    <2> QED BY <2>1, <2>3 DEF TypeInv, TypeOK, Mutation
<1> HIDE DEF patch, m
<1>4. /\ flight' \in [Clients -> [id : Nat, target : Docs \cup {NoDoc}]]
      /\ sent' \in [Clients -> Nat]
    <2>1. flight \in [Clients -> [id : Nat, target : Docs \cup {NoDoc}]] /\ sent \in [Clients -> Nat]
        BY DEF TypeInv, TypeOK
    <2>2. CASE UNCHANGED <<flight, sent>>
        BY <2>1, <2>2
    <2>3. CASE sends /\ flight' = [flight EXCEPT ![c] = [id |-> m.id, target |-> Apply(base[c], patch)]]
                    /\ sent' = [sent EXCEPT ![c] = m.id]
        <3>1. [id |-> m.id, target |-> Apply(base[c], patch)] \in [id : Nat, target : Docs \cup {NoDoc}]
            BY <1>3, <2>3
        <3>2. m.id \in Nat
            BY <1>3, <2>3
        <3> QED BY <2>1, <2>3, <3>1, <3>2
    <2> QED BY <1>1, <2>2, <2>3
<1>5. outbox' \in [Clients -> Seq(Parcel)]
    <2>1. outbox \in [Clients -> Seq(Parcel)] /\ outbox[c] \in Seq(Parcel)
        BY OutboxType DEF TypeInv
    <2>2. CASE UNCHANGED outbox
        BY <2>1, <2>2
    <2>3. CASE sends /\ outbox' = [outbox EXCEPT ![c] = Append(@, [m |-> m, old |-> FALSE])]
        <3>1. [m |-> m, old |-> FALSE] \in Parcel
            BY <1>3, <2>3 DEF Parcel
        <3>2. Append(outbox[c], [m |-> m, old |-> FALSE]) \in Seq(Parcel)
            BY <2>1, <3>1, Appended
        <3> QED BY <2>1, <2>3, <3>2
    <2> QED BY <1>1, <2>2, <2>3
<1>6. outbox' \in [Clients -> Seq([m : Mutation, old : BOOLEAN])]
    BY <1>5, OutboxTyped
<1> HIDE DEF sends
<1> QED BY <1>1, <1>2, <1>4, <1>6 DEF TypeInv, TypeOK, Loaded, server

LEMMA TakeType ==
    ASSUME TypeInv, NEW c \in Clients, NEW k, Take(c, k)
    PROVE  /\ inbox' \in [Clients -> Seq(Message)]
           /\ Got(c) \in Message /\ Got(c).k = k /\ inbox[c] # <<>>
           /\ UNCHANGED <<server, outbox, link, count>>
<1>1. inbox[c] # <<>> /\ Got(c).k = k /\ inbox' = [inbox EXCEPT ![c] = Tail(@)]
      /\ UNCHANGED <<server, outbox, link, count>>
    BY DEF Take
<1>2. inbox \in [Clients -> Seq(Message)] /\ inbox[c] \in Seq(Message)
    BY DEF TypeInv, TypeOK
<1>3. Tail(inbox[c]) \in Seq(Message) /\ Head(inbox[c]) \in Message
    BY <1>1, <1>2, TailElements
<1> QED BY <1>1, <1>2, <1>3 DEF Got

\* What the client holds is well typed.
ClientTyped ==
    /\ doc \in [Clients -> Docs \cup {NoDoc}] /\ base \in [Clients -> Docs \cup {NoDoc}]
    /\ rev \in [Clients -> Nat]
    /\ flight \in [Clients -> [id : Nat, target : Docs \cup {NoDoc}]]
    /\ due \in [Clients -> BOOLEAN] /\ can \in [Clients -> BOOLEAN]
    /\ \A c \in Clients : base[c] # NoDoc => doc[c] \in Docs
ReadsTyped ==
    /\ reads \in [Clients -> Seq(Read)] /\ \A c \in Clients : Len(reads[c]) <= MaxReads
    /\ \A c \in Clients : \A i \in DOMAIN reads[c] : reads[c][i].done => reads[c][i].state \in State

LEMMA ClientTypes == TypeInv => ClientTyped /\ ReadsTyped
BY DEF TypeInv, TypeOK, Loaded, ClientTyped, ReadsTyped

LEMMA StaysTyped ==
    ASSUME TypeInv, Stays
    PROVE  ClientTyped'
BY DEF Stays, TypeInv, TypeOK, Loaded, ClientTyped

LEMMA ReadsStayTyped ==
    ASSUME TypeInv, UNCHANGED reads
    PROVE  ReadsTyped'
BY DEF TypeInv, TypeOK, Loaded, ReadsTyped

LEMMA ClientStepType ==
    ASSUME TypeInv, ClientTyped', ReadsTyped', (inbox \in [Clients -> Seq(Message)])',
           UNCHANGED <<server, outbox, link, count>>
    PROVE  TypeInv'
BY DEF TypeInv, TypeOK, Loaded, ClientTyped, ReadsTyped, server, count

\* A flight is given up.
LEMMA GroundedType ==
    ASSUME TypeInv, NEW c \in Clients,
           flight' = [flight EXCEPT ![c] = NoFlight] \/ UNCHANGED flight
    PROVE  flight' \in [Clients -> [id : Nat, target : Docs \cup {NoDoc}]]
<1>1. NoFlight \in [id : Nat, target : Docs \cup {NoDoc}]
    BY DEF NoFlight
<1>2. flight \in [Clients -> [id : Nat, target : Docs \cup {NoDoc}]]
    BY DEF TypeInv, TypeOK
<1> DEFINE F == [id : Nat, target : Docs \cup {NoDoc}]
<1> HIDE DEF F
<1>3. NoFlight \in F /\ flight \in [Clients -> F]
    BY <1>1, <1>2 DEF F
<1>4. flight' \in [Clients -> F]
    BY <1>3
<1> QED BY <1>4 DEF F

LEMMA TakeSnapshotType ==
    ASSUME TypeInv, NEW c \in Clients, TakeSnapshot(c)
    PROVE  TypeInv'
<1>1. Take(c, "snapshot") /\ Snapshot(c, Got(c).state) /\ UNCHANGED reads
    BY DEF TakeSnapshot
<1>2. Got(c).state \in State
    BY <1>1, TakeType, MessageFields
<1>3. ClientTyped'
    BY <1>1, <1>2, SnapshotType DEF ClientTyped
<1> QED BY <1>1, <1>3, TakeType, ReadsStayTyped, ClientStepType

LEMMA MoveType ==
    ASSUME TypeInv, NEW c \in Clients, NEW remote \in Docs, NEW pending \in Patches,
           NEW n \in Nat, NEW e \in BOOLEAN,
           Show(c, Apply(remote, pending), remote, e),
           rev' = [rev EXCEPT ![c] = n],
           flight' = [flight EXCEPT ![c] = NoFlight] \/ UNCHANGED flight
    PROVE  ClientTyped'
<1>1. Apply(remote, pending) \in Docs
    BY ApplyType
<1>2. rev' \in [Clients -> Nat]
    BY DEF TypeInv, TypeOK
<1> QED BY <1>1, <1>2, ShowType, GroundedType DEF ClientTyped

LEMMA TakeMutationType ==
    ASSUME TypeInv, NEW c \in Clients, TakeMutation(c)
    PROVE  TypeInv'
<1> DEFINE m == Got(c)
           pending == Diff(IF Own(c, m) THEN flight[c].target ELSE base[c], doc[c])
           remote == Apply(base[c], m.patch)
<1>1. /\ Take(c, "mutation")
      /\ \/ Known(c, m) /\ Stays /\ UNCHANGED reads
         \/ ~Known(c, m) /\ Gap(c, m) /\ Ask(c, "resync") /\ Stays
         \/ /\ ~Known(c, m) /\ ~Gap(c, m)
            /\ Show(c, Apply(remote, pending), remote, can[c])
            /\ rev' = [rev EXCEPT ![c] = m.rev]
            /\ flight' = [flight EXCEPT ![c] = IF Own(c, m) THEN NoFlight ELSE @]
            /\ UNCHANGED reads
    BY DEF TakeMutation
<1>2. m \in Message /\ m.k = "mutation"
    BY <1>1, TakeType
<1> HIDE DEF m
<1>3. m.rev \in Nat /\ m.patch \in Patches
    BY <1>2, MessageFields
<1>4. ClientTyped' /\ ReadsTyped'
    <2>1. CASE Stays /\ UNCHANGED reads
        BY <2>1, StaysTyped, ReadsStayTyped
    <2>2. CASE Stays /\ Ask(c, "resync")
        BY <2>2, StaysTyped, AskType DEF ReadsTyped
    <2>3. CASE /\ ~Known(c, m)
               /\ Show(c, Apply(remote, pending), remote, can[c])
               /\ rev' = [rev EXCEPT ![c] = m.rev]
               /\ flight' = [flight EXCEPT ![c] = IF Own(c, m) THEN NoFlight ELSE @]
               /\ UNCHANGED reads
        <3>1. base[c] # NoDoc
            BY <2>3 DEF Known
        <3>2. doc[c] \in Docs /\ can[c] \in BOOLEAN /\ flight \in [Clients -> [id : Nat, target : Docs \cup {NoDoc}]]
            BY <3>1 DEF TypeInv, TypeOK, Loaded
        <3>3. pending \in Patches
            BY <3>2, DiffType
        <3>4. flight' = [flight EXCEPT ![c] = NoFlight] \/ UNCHANGED flight
            <4>1. CASE Own(c, m)
                BY <2>3, <4>1
            <4>2. CASE ~Own(c, m)
                <5>1. flight' = [flight EXCEPT ![c] = @]
                    BY <2>3, <4>2
                <5> QED BY <3>2, <5>1
            <4> QED BY <4>1, <4>2
        <3>5. base[c] \in Docs
            BY <3>1 DEF TypeInv, TypeOK
        <3>6. remote \in Docs
            BY <1>3, <3>5, ApplyType
        <3>7. Show(c, Apply(remote, pending), remote, can[c]) /\ rev' = [rev EXCEPT ![c] = m.rev]
            BY <2>3
        <3> HIDE DEF pending, remote
        <3>8. ClientTyped'
            BY <1>3, <3>2, <3>3, <3>4, <3>6, <3>7, MoveType
        <3> QED BY <2>3, <3>8, ReadsStayTyped
    <2> QED BY <1>1, <2>1, <2>2, <2>3
<1> QED BY <1>1, <1>4, TakeType, ClientStepType

LEMMA TakeErrorType ==
    ASSUME TypeInv, NEW c \in Clients, TakeError(c)
    PROVE  TypeInv'
<1>1. Take(c, "error")
    BY DEF TakeError
<1>2. ClientTyped' /\ ReadsTyped'
    <2>1. CASE Ask(c, "resync") /\ Stays
        BY <2>1, StaysTyped, AskType DEF ReadsTyped
    <2>2. CASE /\ UNCHANGED reads
               /\ flight' = [flight EXCEPT ![c] = NoFlight]
               /\ Show(c, base[c], base[c], FALSE)
               /\ UNCHANGED rev
        <3>1. base[c] \in Docs \cup {NoDoc} /\ (base[c] # NoDoc => base[c] \in Docs) /\ rev \in [Clients -> Nat]
            BY DEF TypeInv, TypeOK
        <3>2. rev' \in [Clients -> Nat]
            BY <2>2, <3>1
        <3> QED BY <2>2, <3>1, <3>2, ShowType, GroundedType, ReadsStayTyped DEF ClientTyped
    <2>3. CASE /\ UNCHANGED <<reads, doc, base, rev, due, can>>
               /\ flight' = [flight EXCEPT ![c] = NoFlight]
        BY <2>3, GroundedType, ReadsStayTyped DEF TypeInv, TypeOK, Loaded, ClientTyped
    <2> QED BY <2>1, <2>2, <2>3 DEF TakeError
<1> QED BY <1>1, <1>2, TakeType, ClientStepType

LEMMA ReadCanvasType ==
    ASSUME TypeInv, NEW c \in Clients, ReadCanvas(c)
    PROVE  TypeInv'
<1>1. PICK i \in DOMAIN reads[c] :
          /\ reads' = [reads EXCEPT ![c][i].done = TRUE, ![c][i].state = Canvas(c)]
          /\ UNCHANGED <<server, client, net, count>>
    BY DEF ReadCanvas
<1> DEFINE r == [[reads[c][i] EXCEPT !.done = TRUE] EXCEPT !.state = Canvas(c)]
           new == [reads[c] EXCEPT ![i] = r]
<1>2. reads \in [Clients -> Seq(Read)] /\ reads[c] \in Seq(Read) /\ \A x \in Clients : Len(reads[x]) <= MaxReads
    BY DEF TypeInv, TypeOK
<1>3. reads[c][i] \in Read
    BY <1>2, Element
<1>4. r \in Read /\ r.state \in State
    BY <1>3, CanvasType DEF Read
<1>5. reads' = [reads EXCEPT ![c] = new]
    <2>1. [[reads EXCEPT ![c][i].done = TRUE] EXCEPT ![c][i].state = Canvas(c)] = [reads EXCEPT ![c] = new]
        BY <1>2
    <2> QED BY <1>1, <2>1
<1>6. new \in Seq(Read) /\ Len(new) = Len(reads[c]) /\ \A j \in DOMAIN new : j \in DOMAIN reads[c] /\ new[j] = IF j = i THEN r ELSE reads[c][j]
    <2> HIDE DEF r
    <2>1. i \in 1..Len(reads[c]) /\ DOMAIN reads[c] = 1..Len(reads[c])
        BY <1>2
    <2> QED BY <1>2, <1>4, <2>1, ExceptSeq
<1> HIDE DEF new, r
<1>7. ReadsTyped'
    <2>1. reads' \in [Clients -> Seq(Read)] /\ \A x \in Clients : Len(reads'[x]) <= MaxReads
        BY <1>2, <1>5, <1>6
    <2>2. ASSUME NEW x \in Clients, NEW j \in DOMAIN reads'[x], reads'[x][j].done
          PROVE  reads'[x][j].state \in State
        <3>1. CASE x # c
            BY <1>2, <1>5, <2>2, <3>1 DEF TypeInv, Loaded
        <3>2. CASE x = c
            <4>1. reads'[x] = new
                BY <1>2, <1>5, <3>2
            <4>2. CASE j = i
                BY <1>4, <1>6, <2>2, <4>1, <4>2
            <4>3. CASE j # i
                BY <1>6, <2>2, <3>2, <4>1, <4>3 DEF TypeInv, Loaded
            <4> QED BY <4>2, <4>3
        <3> QED BY <3>1, <3>2
    <2> QED BY <2>1, <2>2 DEF ReadsTyped
<1>8. ClientTyped'
    BY <1>1 DEF TypeInv, TypeOK, Loaded, ClientTyped, client
<1>9. UNCHANGED <<server, outbox, link, inbox, count>>
    BY <1>1 DEF net
<1> QED BY <1>7, <1>8, <1>9, ClientStepType DEF TypeInv, TypeOK

\* One question is answered, and the others stay.
LEMMA OneLessRead ==
    ASSUME TypeInv, NEW c \in Clients, NEW i \in DOMAIN reads[c],
           reads' = [reads EXCEPT ![c] = Without(@, i)]
    PROVE  ReadsTyped'
<1>1. reads \in [Clients -> Seq(Read)] /\ reads[c] \in Seq(Read) /\ \A x \in Clients : Len(reads[x]) <= MaxReads
    BY DEF TypeInv, TypeOK
<1>2. Without(reads[c], i) \in Seq(Read) /\ Len(Without(reads[c], i)) = Len(reads[c]) - 1
    BY <1>1, WithoutElements
<1>3. \A j \in DOMAIN Without(reads[c], i) : \E k \in DOMAIN reads[c] : Without(reads[c], i)[j] = reads[c][k]
    BY <1>1, WithoutKeeps
<1>4. Len(reads[c]) - 1 <= MaxReads
    BY <1>1, BoundsAssumption
<1>5. reads' \in [Clients -> Seq(Read)] /\ \A x \in Clients : Len(reads'[x]) <= MaxReads
    BY <1>1, <1>2, <1>4
<1>6. ASSUME NEW x \in Clients, NEW j \in DOMAIN reads'[x], reads'[x][j].done
      PROVE  reads'[x][j].state \in State
    <2>1. CASE x # c
        BY <1>1, <1>6, <2>1 DEF TypeInv, Loaded
    <2>2. CASE x = c
        <3>1. reads'[x] = Without(reads[c], i)
            BY <1>1, <2>2
        <3>2. PICK k \in DOMAIN reads[c] : reads'[x][j] = reads[c][k]
            BY <1>3, <1>6, <3>1
        <3> QED BY <1>6, <3>2 DEF TypeInv, Loaded
    <2> QED BY <2>1, <2>2
<1> QED BY <1>5, <1>6 DEF ReadsTyped

LEMMA AnswerType ==
    ASSUME TypeInv, NEW c \in Clients, Answer(c)
    PROVE  TypeInv'
<1>1. PICK i \in DOMAIN reads[c] :
          LET r == reads[c][i]
          IN  /\ reads' = [reads EXCEPT ![c] = Without(@, i)]
              /\ \/ /\ r.done /\ r.k = "resync"
                    /\ Show(c, Apply(r.state.doc, r.pending), r.state.doc, r.state.can)
                    /\ rev' = [rev EXCEPT ![c] = r.state.rev]
                    /\ flight' = [flight EXCEPT ![c] = NoFlight]
                 \/ r.done /\ r.k = "refresh" /\ r.state.rev < rev[c] /\ Stays
                 \/ r.done /\ r.k = "refresh" /\ r.state.rev >= rev[c] /\ Snapshot(c, r.state)
                 \/ ~r.done /\ Fails("read") /\ Stays
              /\ UNCHANGED <<server, net, count>>
    BY DEF Answer
<1> DEFINE r == reads[c][i]
<1>2. ReadsTyped'
    BY <1>1, OneLessRead
<1>3. r \in Read /\ (r.done => r.state \in State)
    <2>1. reads[c] \in Seq(Read)
        BY DEF TypeInv, TypeOK
    <2> QED BY <2>1, Element DEF TypeInv, Loaded
<1>4. r.pending \in Patches
    BY <1>3 DEF Read
<1>5. ClientTyped'
    <2>1. CASE Stays
        BY <2>1, StaysTyped
    <2>2. CASE r.done /\ Snapshot(c, r.state)
        <3> HIDE DEF r
        <3> QED BY <1>3, <2>2, SnapshotType DEF ClientTyped
    <2>3. CASE /\ r.done
               /\ Show(c, Apply(r.state.doc, r.pending), r.state.doc, r.state.can)
               /\ rev' = [rev EXCEPT ![c] = r.state.rev]
               /\ flight' = [flight EXCEPT ![c] = NoFlight]
        <3> HIDE DEF r
        <3>1. r.state.doc \in Docs /\ r.state.rev \in Nat /\ r.state.can \in BOOLEAN
            BY <1>3, <2>3, StateFields
        <3> QED BY <1>4, <2>3, <3>1, MoveType
    <2> QED BY <1>1, <2>1, <2>2, <2>3
<1>6. UNCHANGED <<server, outbox, link, inbox, count>>
    BY <1>1 DEF net
<1> QED BY <1>2, <1>5, <1>6, ClientStepType DEF TypeInv, TypeOK

LEMMA TellsType ==
    ASSUME TypeInv, NEW c \in Clients, NEW status \in {403, 409, 500}, NEW old, Tells(c, status, old)
    PROVE  inbox' \in [Clients -> Seq(Message)]
<1> DEFINE m == [k |-> "error", status |-> status]
<1>1. m \in Message
    BY DEF Message
<1>2. inbox' = inbox \/ inbox' = [inbox EXCEPT ![c] = Append(@, m)]
    BY DEF Tells
<1> HIDE DEF m
<1>3. inbox \in [Clients -> Seq(Message)] /\ inbox[c] \in Seq(Message)
    BY DEF TypeInv, TypeOK
<1>4. Append(inbox[c], m) \in Seq(Message)
    BY <1>1, <1>3, Appended
<1>5. CASE inbox' = inbox
    BY <1>3, <1>5
<1>6. CASE inbox' = [inbox EXCEPT ![c] = Append(@, m)]
    BY <1>3, <1>4, <1>6
<1> QED BY <1>2, <1>5, <1>6

LEMMA HandleType ==
    ASSUME TypeInv, NEW c \in Clients, Handle(c)
    PROVE  TypeInv'
<1> DEFINE item == Head(outbox[c])
           m == item.m
           told == [k |-> "mutation", by |-> c, id |-> m.id, rev |-> Revision + 1, patch |-> m.patch]
<1>1. outbox[c] \in Seq(Parcel) /\ outbox \in [Clients -> Seq(Parcel)]
    BY OutboxType DEF TypeInv
<1>2. outbox[c] # <<>> /\ outbox' = [outbox EXCEPT ![c] = Tail(@)] /\ UNCHANGED <<editor, link, client, reads, count>>
    BY DEF Handle
<1>3. item \in Parcel /\ Tail(outbox[c]) \in Seq(Parcel)
    BY <1>1, <1>2, TailElements
<1>4. m.id \in Nat /\ m.patch \in Patches
    BY <1>3 DEF Parcel, Mutation
<1>5. outbox' \in [Clients -> Seq([m : Mutation, old : BOOLEAN])]
    <2>1. outbox' \in [Clients -> Seq(Parcel)]
        BY <1>1, <1>2, <1>3
    <2> QED BY <2>1, OutboxTyped
<1>6. /\ history' \in Seq(Docs) /\ history' # <<>>
      /\ emitting' \in [Clients -> Seq(Message)] /\ \A x \in Clients : Len(emitting'[x]) <= 1
      /\ inbox' \in [Clients -> Seq(Message)]
    <2>1. CASE /\ Tells(c, 403, item.old) \/ Tells(c, 409, item.old) \/ Tells(c, 500, item.old)
               /\ UNCHANGED <<history, emitting>>
        <3>1. inbox' \in [Clients -> Seq(Message)]
            BY <2>1, TellsType
        <3> QED BY <2>1, <3>1 DEF TypeInv, TypeOK, Loaded
    <2>2. CASE /\ history' = Append(history, Apply(Canvas(c).doc, m.patch))
               /\ emitting' = [emitting EXCEPT ![c] = <<told>>]
               /\ UNCHANGED inbox
        <3>1. Canvas(c).doc \in Docs /\ Revision \in Nat
            BY CanvasType DEF State
        <3>2. Apply(Canvas(c).doc, m.patch) \in Docs
            BY <1>4, <3>1, ApplyType
        <3>3. history \in Seq(Docs)
            BY DEF TypeInv, TypeOK
        <3>4. history' \in Seq(Docs) /\ history' # <<>>
            <4>1. history' \in Seq(Docs) /\ Len(history') = Len(history) + 1 /\ Len(history) \in Nat
                BY <2>2, <3>2, <3>3, Appended
            <4> QED BY <4>1
        <3>5. told \in Message
            BY <1>4, <3>1 DEF Message
        <3> HIDE DEF told
        <3>6. <<told>> \in Seq(Message) /\ Len(<<told>>) = 1
            BY <3>5
        <3>7. emitting' \in [Clients -> Seq(Message)] /\ \A x \in Clients : Len(emitting'[x]) <= 1
            BY <2>2, <3>6 DEF TypeInv, TypeOK
        <3> QED BY <2>2, <3>4, <3>7 DEF TypeInv, TypeOK
    <2> QED BY <2>1, <2>2 DEF Handle
<1> HIDE DEF item, m, told
<1> QED BY <1>2, <1>5, <1>6 DEF TypeInv, TypeOK, Loaded, client, count

LEMMA EmitType ==
    ASSUME TypeInv, NEW c \in Clients, Emit(c)
    PROVE  TypeInv'
<1>1. inbox \in [Clients -> Seq(Message)] /\ emitting \in [Clients -> Seq(Message)]
    BY DEF TypeInv, TypeOK
<1>2. inbox' = [d \in Clients |-> IF link[d].st = "open" THEN inbox[d] \o emitting[c] ELSE inbox[d]]
    BY DEF Emit
<1>3. \A d \in Clients : inbox[d] \o emitting[c] \in Seq(Message) /\ inbox[d] \in Seq(Message)
    BY <1>1, ConcatProperties
<1>4. inbox' \in [Clients -> Seq(Message)]
    BY <1>2, <1>3
<1>5. emitting' \in [Clients -> Seq(Message)] /\ \A x \in Clients : Len(emitting'[x]) <= 1
    BY DEF Emit, TypeInv, TypeOK
<1> QED BY <1>4, <1>5 DEF Emit, TypeInv, TypeOK, Loaded, client, count

LEMMA AgentType ==
    ASSUME TypeInv, AgentCommit
    PROVE  TypeInv'
<1>1. PICK x \in Cells :
          /\ Len(edits) < MaxEdits
          /\ edits' = Append(edits, [by |-> "agent", cell |-> x, late |-> FALSE])
          /\ history' = Append(history, [history[Len(history)] EXCEPT ![x] = Len(edits) + 1])
          /\ Ask(Asker, "refresh")
          /\ UNCHANGED <<editor, emitting, net, client, sent, drops, faults>>
    BY DEF AgentCommit
<1>2. edits \in Seq([by : Clients \cup {"agent"}, cell : Cells, late : BOOLEAN]) /\ history \in Seq(Docs)
    BY DEF TypeInv, TypeOK
<1>3. edits' \in Seq([by : Clients \cup {"agent"}, cell : Cells, late : BOOLEAN])
    BY <1>1, <1>2
<1>4. history[Len(history)] \in Docs
    BY CanvasType, AskerAssumption
<1>5. Len(edits) + 1 \in 0..MaxEdits
    BY <1>1, <1>2, BoundsAssumption
<1>6. [history[Len(history)] EXCEPT ![x] = Len(edits) + 1] \in Docs
    BY <1>4, <1>5 DEF Docs
<1>7. history' \in Seq(Docs) /\ history' # <<>>
    <2>1. history' \in Seq(Docs) /\ Len(history') = Len(history) + 1 /\ Len(history) \in Nat
        BY <1>1, <1>2, <1>6, Appended
    <2> QED BY <2>1
<1>8. ReadsTyped'
    BY <1>1, AskerAssumption, AskType DEF ReadsTyped
<1> QED BY <1>1, <1>3, <1>7, <1>8 DEF TypeInv, TypeOK, Loaded, ReadsTyped, net, client

LEMMA RevokeType ==
    ASSUME TypeInv, NEW c \in Clients, Revoke(c)
    PROVE  TypeInv'
BY DEF Revoke, TypeInv, TypeOK, Loaded, net, client, count

LEMMA TypeStep == TypeInv /\ [Next]_vars => TypeInv'
<1> SUFFICES ASSUME TypeInv, [Next]_vars PROVE TypeInv'
    OBVIOUS
<1>1. CASE UNCHANGED vars
    BY <1>1 DEF vars, server, client, net, count, TypeInv, TypeOK, Loaded
<1>2. ASSUME NEW c \in Clients, Works(c) \/ Drop(c) \/ Edit(c) \/ Revoke(c)
      PROVE  TypeInv'
    <2>1. CASE Timer(c) \/ Flush(c)
        BY <2>1, SendType DEF Timer, Flush
    <2> QED BY <1>2, <2>1, LinkType, EditType, TakeSnapshotType, TakeMutationType, TakeErrorType, ReadCanvasType,
               AnswerType, HandleType, EmitType, RevokeType DEF Works
<1>3. CASE AgentCommit
    BY <1>3, AgentType
<1> QED BY <1>1, <1>2, <1>3 DEF Next

\* Every variable keeps its type.
THEOREM TypeCorrect == Spec => []TypeOK
<1>1. Init => TypeInv
    BY TypeInit
<1>2. TypeInv /\ [Next]_vars => TypeInv'
    BY TypeStep
<1>3. TypeInv => TypeOK
    BY DEF TypeInv
<1> QED BY <1>1, <1>2, <1>3, PTL DEF Spec

----------------------------------------------------------------------------
(* How a client, its questions and the messages to it move *)

\* What the document shown holds on top of the base.
Pending(c) == IF base[c] = NoDoc THEN <<>> ELSE Diff(base[c], doc[c])

\* Nothing of the client changes.
Keeps(c) ==
    /\ doc'[c] = doc[c] /\ base'[c] = base[c] /\ rev'[c] = rev[c]
    /\ flight'[c] = flight[c] /\ due'[c] = due[c] /\ can'[c] = can[c]
Edits(c) ==
    /\ can[c] /\ base[c] # NoDoc /\ due'[c]
    /\ base'[c] = base[c] /\ rev'[c] = rev[c] /\ flight'[c] = flight[c] /\ can'[c] = can[c]
    /\ \E x \in Cells :
          /\ doc'[c] = [doc[c] EXCEPT ![x] = Len(edits) + 1]
          /\ edits' = Append(edits, [by |-> c, cell |-> x, late |-> \E i \in DOMAIN reads[c] : reads[c][i].k = "resync"])
Request(c) == [by |-> c, id |-> sent[c] + 1, base |-> rev[c], patch |-> Diff(base[c], doc[c])]
Sends(c) ==
    /\ link[c].st # "closed" /\ base[c] # NoDoc /\ flight[c] = NoFlight /\ can[c] /\ ~Empty(Diff(base[c], doc[c]))
    /\ flight'[c] = [id |-> sent[c] + 1, target |-> Apply(base[c], Diff(base[c], doc[c]))]
    /\ sent'[c] = sent[c] + 1
    /\ outbox'[c] = Append(outbox[c], [m |-> Request(c), old |-> FALSE])
    /\ doc'[c] = doc[c] /\ base'[c] = base[c] /\ rev'[c] = rev[c] /\ can'[c] = can[c]
Idles(c) ==
    /\ ~(link[c].st # "closed" /\ base[c] # NoDoc /\ flight[c] = NoFlight /\ can[c] /\ ~Empty(Diff(base[c], doc[c])))
    /\ doc'[c] = doc[c] /\ base'[c] = base[c] /\ rev'[c] = rev[c] /\ flight'[c] = flight[c] /\ can'[c] = can[c]
\* A canvas read is adopted, with what is pending on top.
Adopts(c, s, p) ==
    /\ base'[c] = s.doc /\ rev'[c] = s.rev /\ can'[c] = s.can /\ flight'[c] = NoFlight
    /\ doc'[c] = IF s.can THEN Apply(s.doc, p) ELSE s.doc
    /\ due'[c] = (s.can \/ due[c])
AdoptsSnapshot(c) ==
    \E i \in DOMAIN inbox[c] : inbox[c][i].k = "snapshot" /\ Adopts(c, inbox[c][i].state, Pending(c))
AdoptsRead(c) ==
    \E i \in DOMAIN reads[c] :
        /\ reads[c][i].done
        /\ \/ Adopts(c, reads[c][i].state, Pending(c))
           \/ reads[c][i].k = "resync" /\ Adopts(c, reads[c][i].state, reads[c][i].pending)
\* The next mutation is applied.
Follows(c, m) ==
    LET remote == Apply(base[c], m.patch)
    IN  /\ m.k = "mutation" /\ ~Known(c, m) /\ m.rev = rev[c] + 1
        /\ base'[c] = remote /\ rev'[c] = m.rev /\ can'[c] = can[c]
        /\ flight'[c] = IF Own(c, m) THEN NoFlight ELSE flight[c]
        /\ doc'[c] = IF can[c] THEN Apply(remote, Diff(IF Own(c, m) THEN flight[c].target ELSE base[c], doc[c])) ELSE remote
        /\ due'[c] = (can[c] \/ due[c])
\* A mutation is refused, or fails.
Refused(c) ==
    /\ \E i \in DOMAIN inbox[c] : inbox[c][i].k = "error" /\ inbox[c][i].status = 403
    /\ flight'[c] = NoFlight /\ doc'[c] = base[c] /\ base'[c] = base[c] /\ rev'[c] = rev[c] /\ ~can'[c]
Failed(c) ==
    /\ \E i \in DOMAIN inbox[c] : inbox[c][i].k = "error" /\ inbox[c][i].status = 500
    /\ flight'[c] = NoFlight /\ doc'[c] = doc[c] /\ base'[c] = base[c] /\ rev'[c] = rev[c]
    /\ due'[c] = due[c] /\ can'[c] = can[c]
ClientMove(c) ==
    \/ Keeps(c) \/ Edits(c) \/ Sends(c) \/ Idles(c) \/ AdoptsSnapshot(c) \/ AdoptsRead(c)
    \/ \E i \in DOMAIN inbox[c] : Follows(c, inbox[c][i])
    \/ Refused(c) \/ Failed(c)

LEMMA OthersKeep ==
    ASSUME TypeInv, NEW c \in Clients, NEW a \in Clients, a # c, NEW d, NEW b, NEW e,
           Show(a, d, b, e),
           UNCHANGED rev \/ \E n : rev' = [rev EXCEPT ![a] = n],
           UNCHANGED flight \/ \E f : flight' = [flight EXCEPT ![a] = f]
    PROVE  Keeps(c)
<1>1. doc'[c] = doc[c] /\ base'[c] = base[c] /\ due'[c] = due[c] /\ can'[c] = can[c]
    BY DEF Show, TypeInv, TypeOK
<1>2. rev'[c] = rev[c]
    BY DEF TypeInv, TypeOK
<1>3. flight'[c] = flight[c]
    BY DEF TypeInv, TypeOK
<1> QED BY <1>1, <1>2, <1>3 DEF Keeps

LEMMA StaysKeep ==
    ASSUME NEW c \in Clients, Stays \/ UNCHANGED client
    PROVE  Keeps(c)
BY DEF Stays, client, Keeps

LEMMA SnapshotMove ==
    ASSUME TypeInv, NEW c \in Clients, NEW a \in Clients, NEW s, s.can \in BOOLEAN, Snapshot(a, s)
    PROVE  /\ a # c => Keeps(c)
           /\ a = c => Adopts(c, s, Pending(c))
<1> DEFINE p == IF base[a] = NoDoc THEN <<>> ELSE Diff(base[a], doc[a])
<1>1. /\ Show(a, Apply(s.doc, p), s.doc, s.can)
      /\ rev' = [rev EXCEPT ![a] = s.rev]
      /\ flight' = [flight EXCEPT ![a] = NoFlight]
    BY DEF Snapshot
<1> HIDE DEF p
<1>2. a # c => Keeps(c)
    BY <1>1, OthersKeep
<1>3. ASSUME a = c
      PROVE  Adopts(c, s, p)
    <2>1. base'[c] = s.doc /\ can'[c] = s.can
        BY <1>1, <1>3 DEF Show, TypeInv, TypeOK
    <2>2. rev'[c] = s.rev /\ flight'[c] = NoFlight
        BY <1>1, <1>3 DEF TypeInv, TypeOK
    <2>3. doc'[c] = IF s.can THEN Apply(s.doc, p) ELSE s.doc
        BY <1>1, <1>3 DEF Show, TypeInv, TypeOK
    <2>4. due'[c] = (s.can \/ due[c])
        BY <1>1, <1>3 DEF Show, TypeInv, TypeOK
    <2> QED BY <2>1, <2>2, <2>3, <2>4 DEF Adopts
<1> QED BY <1>2, <1>3 DEF p, Pending

LEMMA EditMove ==
    ASSUME TypeInv, NEW c \in Clients, NEW a \in Clients, Edit(a)
    PROVE  /\ a # c => Keeps(c)
           /\ a = c => Edits(c)
<1>1. PICK x \in Cells :
          /\ can[a] /\ base[a] # NoDoc
          /\ edits' = Append(edits, [by |-> a, cell |-> x, late |-> \E i \in DOMAIN reads[a] : reads[a][i].k = "resync"])
          /\ doc' = [doc EXCEPT ![a][x] = Len(edits) + 1]
          /\ due' = [due EXCEPT ![a] = TRUE]
          /\ UNCHANGED <<base, rev, flight, can>>
    BY DEF Edit
<1>2. doc \in [Clients -> Docs \cup {NoDoc}] /\ due \in [Clients -> BOOLEAN]
    BY DEF TypeInv, TypeOK
<1>3. a # c => Keeps(c)
    BY <1>1, <1>2 DEF Keeps
<1>4. ASSUME a = c
      PROVE  Edits(c)
    <2>1. doc'[c] = [doc[c] EXCEPT ![x] = Len(edits) + 1] /\ due'[c]
        BY <1>1, <1>2, <1>4
    <2> QED BY <1>1, <1>4, <2>1 DEF Edits
<1> QED BY <1>3, <1>4

LEMMA SendMove ==
    ASSUME TypeInv, NEW c \in Clients, NEW a \in Clients, Send(a)
    PROVE  /\ a # c => Keeps(c)
           /\ a = c => Sends(c) \/ Idles(c)
<1> DEFINE sends == link[a].st # "closed" /\ base[a] # NoDoc /\ flight[a] = NoFlight /\ can[a] /\ ~Empty(Diff(base[a], doc[a]))
<1>1. /\ due' = [due EXCEPT ![a] = FALSE]
      /\ UNCHANGED <<doc, base, rev, can>>
      /\ \/ /\ sends
            /\ flight' = [flight EXCEPT ![a] = [id |-> sent[a] + 1, target |-> Apply(base[a], Diff(base[a], doc[a]))]]
            /\ sent' = [sent EXCEPT ![a] = sent[a] + 1]
            /\ outbox' = [outbox EXCEPT ![a] = Append(@, [m |-> Request(a), old |-> FALSE])]
         \/ ~sends /\ UNCHANGED <<flight, sent, outbox>>
    <2>1. CASE sends
        BY <2>1 DEF Send, Request
    <2>2. CASE ~sends
        BY <2>2 DEF Send
    <2> QED BY <2>1, <2>2
<1>2. /\ due \in [Clients -> BOOLEAN] /\ flight \in [Clients -> [id : Nat, target : Docs \cup {NoDoc}]]
      /\ sent \in [Clients -> Nat] /\ DOMAIN outbox = Clients
    BY DEF TypeInv, TypeOK
<1>3. a # c => Keeps(c)
    <2>1. ASSUME a # c
          PROVE  due'[c] = due[c] /\ flight'[c] = flight[c]
        <3> HIDE DEF sends
        <3> QED BY <1>1, <1>2, <2>1
    <2> QED BY <1>1, <2>1 DEF Keeps
<1>4. ASSUME a = c
      PROVE  Sends(c) \/ Idles(c)
    <2>1. CASE sends
        <3>1. flight'[c] = [id |-> sent[c] + 1, target |-> Apply(base[c], Diff(base[c], doc[c]))]
            BY <1>1, <1>2, <1>4, <2>1
        <3>2. sent'[c] = sent[c] + 1
            BY <1>1, <1>2, <1>4, <2>1
        <3>3. outbox'[c] = Append(outbox[c], [m |-> Request(c), old |-> FALSE])
            BY <1>1, <1>2, <1>4, <2>1
        <3> QED BY <1>1, <1>4, <2>1, <3>1, <3>2, <3>3 DEF Sends
    <2>2. CASE ~sends
        BY <1>1, <1>4, <2>2 DEF Idles
    <2> QED BY <2>1, <2>2
<1> QED BY <1>3, <1>4

LEMMA TakeSnapshotMove ==
    ASSUME TypeInv, NEW c \in Clients, NEW a \in Clients, TakeSnapshot(a)
    PROVE  Keeps(c) \/ AdoptsSnapshot(c)
<1>1. Take(a, "snapshot") /\ Snapshot(a, Got(a).state)
    BY DEF TakeSnapshot
<1>2. Got(a).k = "snapshot" /\ Got(a).state \in State /\ inbox[a] # <<>>
    BY <1>1, TakeType, MessageFields
<1>3. Got(a).state.can \in BOOLEAN
    BY <1>2, StateFields
<1>4. inbox[a] \in Seq(Message)
    BY DEF TypeInv, TypeOK
<1>5. Got(a) = inbox[a][1] /\ 1 \in DOMAIN inbox[a]
    BY <1>2, <1>4, TailElements DEF Got
<1> QED BY <1>1, <1>2, <1>3, <1>5, SnapshotMove DEF AdoptsSnapshot

LEMMA TakeMutationMove ==
    ASSUME TypeInv, NEW c \in Clients, NEW a \in Clients, TakeMutation(a)
    PROVE  Keeps(c) \/ \E i \in DOMAIN inbox[c] : Follows(c, inbox[c][i])
<1> DEFINE m == Got(a)
           pending == Diff(IF Own(a, m) THEN flight[a].target ELSE base[a], doc[a])
           remote == Apply(base[a], m.patch)
<1>1. /\ Take(a, "mutation")
      /\ \/ Stays
         \/ /\ ~Known(a, m) /\ ~Gap(a, m)
            /\ Show(a, Apply(remote, pending), remote, can[a])
            /\ rev' = [rev EXCEPT ![a] = m.rev]
            /\ flight' = [flight EXCEPT ![a] = IF Own(a, m) THEN NoFlight ELSE @]
    BY DEF TakeMutation
<1>2. m \in Message /\ m.k = "mutation" /\ inbox[a] # <<>>
    BY <1>1, TakeType
<1>3. m = inbox[a][1] /\ 1 \in DOMAIN inbox[a]
    <2>1. inbox[a] \in Seq(Message)
        BY DEF TypeInv, TypeOK
    <2> QED BY <1>2, <2>1, TailElements DEF Got
<1> HIDE DEF m
<1>4. CASE Stays
    BY <1>4, StaysKeep
<1>5. ASSUME ~Known(a, m), ~Gap(a, m), Show(a, Apply(remote, pending), remote, can[a]),
             rev' = [rev EXCEPT ![a] = m.rev],
             flight' = [flight EXCEPT ![a] = IF Own(a, m) THEN NoFlight ELSE @]
      PROVE  Keeps(c) \/ \E i \in DOMAIN inbox[c] : Follows(c, inbox[c][i])
    <2>1. CASE a # c
        <3> HIDE DEF pending, remote
        <3> QED BY <1>5, <2>1, OthersKeep
    <2>2. CASE a = c
        <3>1. m.rev = rev[c] + 1
            BY <1>5, <2>2 DEF Gap
        <3>2. base'[c] = remote /\ can'[c] = can[c] /\ due'[c] = (can[c] \/ due[c])
              /\ doc'[c] = IF can[c] THEN Apply(remote, pending) ELSE remote
            <4> HIDE DEF pending, remote
            <4>1. /\ doc' = [doc EXCEPT ![c] = IF can[c] THEN Apply(remote, pending) ELSE remote]
                  /\ due' = [due EXCEPT ![c] = can[c] \/ @]
                  /\ can' = [can EXCEPT ![c] = can[c]]
                  /\ base' = [base EXCEPT ![c] = remote]
                BY <1>5, <2>2 DEF Show
            <4> QED BY <4>1 DEF TypeInv, TypeOK
        <3>3. rev'[c] = m.rev /\ flight'[c] = IF Own(c, m) THEN NoFlight ELSE flight[c]
            BY <1>5, <2>2 DEF TypeInv, TypeOK
        <3>4. Follows(c, m)
            BY <1>2, <1>5, <2>2, <3>1, <3>2, <3>3 DEF Follows
        <3> QED BY <1>3, <2>2, <3>4
    <2> QED BY <2>1, <2>2
<1> QED BY <1>1, <1>4, <1>5

LEMMA TakeErrorMove ==
    ASSUME TypeInv, NEW c \in Clients, NEW a \in Clients, TakeError(a)
    PROVE  Keeps(c) \/ Refused(c) \/ Failed(c)
<1>1. Take(a, "error")
    BY DEF TakeError
<1>2. Got(a).k = "error" /\ inbox[a] # <<>>
    BY <1>1, TakeType
<1>3. Got(a) = inbox[a][1] /\ 1 \in DOMAIN inbox[a]
    <2>1. inbox[a] \in Seq(Message)
        BY DEF TypeInv, TypeOK
    <2> QED BY <1>2, <2>1, TailElements DEF Got
<1>4. CASE Stays
    BY <1>4, StaysKeep
<1>5. CASE /\ Got(a).status = 403
           /\ flight' = [flight EXCEPT ![a] = NoFlight]
           /\ Show(a, base[a], base[a], FALSE)
           /\ UNCHANGED rev
    <2>1. CASE a # c
        <3>1. doc'[c] = doc[c] /\ base'[c] = base[c] /\ due'[c] = due[c] /\ can'[c] = can[c]
            <4>1. /\ doc' = [doc EXCEPT ![a] = base[a]] /\ base' = [base EXCEPT ![a] = base[a]]
                  /\ can' = [can EXCEPT ![a] = FALSE] /\ due' = [due EXCEPT ![a] = FALSE \/ @]
                BY <1>5 DEF Show
            <4>2. doc'[c] = doc[c] /\ base'[c] = base[c]
                BY <2>1, <4>1 DEF TypeInv, TypeOK
            <4>3. due'[c] = due[c]
                BY <2>1, <4>1 DEF TypeInv, TypeOK
            <4>4. can'[c] = can[c]
                BY <2>1, <4>1 DEF TypeInv, TypeOK
            <4> QED BY <4>2, <4>3, <4>4
        <3>2. flight'[c] = flight[c] /\ rev'[c] = rev[c]
            BY <1>5, <2>1 DEF TypeInv, TypeOK
        <3> QED BY <3>1, <3>2 DEF Keeps
    <2>2. CASE a = c
        <3>1. flight'[c] = NoFlight
            BY <1>5, <2>2 DEF TypeInv, TypeOK
        <3>2. doc'[c] = base[c] /\ base'[c] = base[c] /\ ~can'[c]
            BY <1>5, <2>2 DEF Show, TypeInv, TypeOK
        <3>3. Refused(c)
            BY <1>2, <1>3, <1>5, <2>2, <3>1, <3>2 DEF Refused
        <3> QED BY <3>3
    <2> QED BY <2>1, <2>2
<1>6. CASE /\ Got(a).status = 500 /\ UNCHANGED <<doc, base, rev, due, can>>
           /\ flight' = [flight EXCEPT ![a] = NoFlight]
    <2>1. CASE a # c
        <3>1. flight'[c] = flight[c]
            BY <1>6, <2>1 DEF TypeInv, TypeOK
        <3> QED BY <1>6, <3>1 DEF Keeps
    <2>2. CASE a = c
        <3>1. flight'[c] = NoFlight
            BY <1>6, <2>2 DEF TypeInv, TypeOK
        <3> QED BY <1>2, <1>3, <1>6, <2>2, <3>1 DEF Failed
    <2> QED BY <2>1, <2>2
<1> QED BY <1>4, <1>5, <1>6 DEF TakeError

LEMMA AnswerMove ==
    ASSUME TypeInv, NEW c \in Clients, NEW a \in Clients, Answer(a)
    PROVE  Keeps(c) \/ AdoptsRead(c)
<1>1. PICK i \in DOMAIN reads[a] :
          LET r == reads[a][i]
          IN  \/ /\ r.done /\ r.k = "resync"
                 /\ Show(a, Apply(r.state.doc, r.pending), r.state.doc, r.state.can)
                 /\ rev' = [rev EXCEPT ![a] = r.state.rev]
                 /\ flight' = [flight EXCEPT ![a] = NoFlight]
              \/ Stays
              \/ r.done /\ Snapshot(a, r.state)
    BY DEF Answer
<1> DEFINE r == reads[a][i]
<1>2. r.done => r.state.can \in BOOLEAN
    BY StateFields DEF TypeInv, Loaded
<1>3. CASE Stays
    BY <1>3, StaysKeep
<1>4. CASE r.done /\ Snapshot(a, r.state)
    <2>1. a # c => Keeps(c)
        BY <1>2, <1>4, SnapshotMove
    <2>2. a = c => Adopts(c, r.state, Pending(c))
        BY <1>2, <1>4, SnapshotMove
    <2> QED BY <1>4, <2>1, <2>2 DEF AdoptsRead
<1>5. CASE /\ r.done /\ r.k = "resync"
           /\ Show(a, Apply(r.state.doc, r.pending), r.state.doc, r.state.can)
           /\ rev' = [rev EXCEPT ![a] = r.state.rev]
           /\ flight' = [flight EXCEPT ![a] = NoFlight]
    <2>1. CASE a # c
        <3> HIDE DEF r
        <3> QED BY <1>5, <2>1, OthersKeep
    <2>2. CASE a = c
        <3>1. Adopts(c, r.state, r.pending)
            <4> HIDE DEF r
            <4>1. base'[c] = r.state.doc /\ can'[c] = r.state.can
                BY <1>5, <2>2 DEF Show, TypeInv, TypeOK
            <4>2. rev'[c] = r.state.rev /\ flight'[c] = NoFlight
                BY <1>5, <2>2 DEF TypeInv, TypeOK
            <4>3. doc'[c] = IF r.state.can THEN Apply(r.state.doc, r.pending) ELSE r.state.doc
                BY <1>5, <2>2 DEF Show, TypeInv, TypeOK
            <4>4. due'[c] = (r.state.can \/ due[c])
                BY <1>5, <2>2 DEF Show, TypeInv, TypeOK
            <4> QED BY <4>1, <4>2, <4>3, <4>4 DEF Adopts
        <3> QED BY <1>5, <2>2, <3>1 DEF AdoptsRead
    <2> QED BY <2>1, <2>2
<1> QED BY <1>1, <1>3, <1>4, <1>5

LEMMA ClientMoves ==
    ASSUME TypeInv, [Next]_vars, NEW c \in Clients
    PROVE  ClientMove(c)
<1>1. ASSUME NEW a \in Clients, Join(a) \/ Enter(a) \/ Drop(a) \/ ReadCanvas(a) \/ Handle(a) \/ Emit(a) \/ Revoke(a)
      PROVE  ClientMove(c)
    <2>1. UNCHANGED client
        BY <1>1 DEF Join, Enter, Drop, ReadCanvas, Handle, Emit, Revoke
    <2> QED BY <2>1, StaysKeep DEF ClientMove
<1>2. ASSUME NEW a \in Clients, Timer(a) \/ Flush(a)
      PROVE  ClientMove(c)
    BY <1>2, SendMove DEF Timer, Flush, ClientMove
<1>3. ASSUME NEW a \in Clients, Edit(a) \/ TakeSnapshot(a) \/ TakeMutation(a) \/ TakeError(a) \/ Answer(a)
      PROVE  ClientMove(c)
    <2>1. CASE Edit(a)
        BY <2>1, EditMove DEF ClientMove
    <2>2. CASE TakeSnapshot(a)
        BY <2>2, TakeSnapshotMove DEF ClientMove
    <2>3. CASE TakeMutation(a)
        BY <2>3, TakeMutationMove DEF ClientMove
    <2>4. CASE TakeError(a)
        BY <2>4, TakeErrorMove DEF ClientMove
    <2>5. CASE Answer(a)
        BY <2>5, AnswerMove DEF ClientMove
    <2> QED BY <1>3, <2>1, <2>2, <2>3, <2>4, <2>5
<1>4. CASE AgentCommit \/ UNCHANGED vars
    BY <1>4, StaysKeep DEF AgentCommit, vars, ClientMove
<1> QED BY <1>1, <1>2, <1>3, <1>4 DEF Next, Works

\* The documents only grow, and a right taken away stays away.
Grows ==
    /\ history' = history \/ \E d \in Docs : history' = Append(history, d)
    /\ \A c \in Clients : ~editor[c] => ~editor'[c]
    /\ faults' = faults

LEMMA Growing ==
    ASSUME TypeInv, [Next]_vars
    PROVE  Grows
<1>1. ASSUME NEW c \in Clients, Handle(c)
      PROVE  Grows
    <2>1. UNCHANGED <<editor, faults>>
        BY <1>1 DEF Handle, count
    <2>2. UNCHANGED history \/ history' = Append(history, Apply(Canvas(c).doc, Head(outbox[c]).m.patch))
        BY <1>1 DEF Handle
    <2>3. Apply(Canvas(c).doc, Head(outbox[c]).m.patch) \in Docs
        <3>1. outbox[c] # <<>> /\ outbox[c] \in Seq(Parcel)
            BY <1>1, OutboxType DEF Handle, TypeInv
        <3>2. Head(outbox[c]) \in Parcel
            BY <3>1, TailElements
        <3>3. Head(outbox[c]).m.patch \in Patches
            BY <3>2 DEF Parcel, Mutation
        <3>4. Canvas(c).doc \in Docs
            BY CanvasType, StateFields
        <3> QED BY <3>3, <3>4, ApplyType
    <2> QED BY <2>1, <2>2, <2>3 DEF Grows
<1>2. CASE AgentCommit
    <2>1. PICK x \in Cells :
              /\ Len(edits) < MaxEdits
              /\ history' = Append(history, [history[Len(history)] EXCEPT ![x] = Len(edits) + 1])
              /\ UNCHANGED <<editor, faults>>
        BY <1>2 DEF AgentCommit
    <2>2. history[Len(history)] \in Docs
        BY CanvasType, AskerAssumption
    <2>3. Len(edits) + 1 \in 0..MaxEdits
        BY <2>1, BoundsAssumption DEF TypeInv, TypeOK
    <2>4. [history[Len(history)] EXCEPT ![x] = Len(edits) + 1] \in Docs
        BY <2>2, <2>3 DEF Docs
    <2> QED BY <2>1, <2>4 DEF Grows
<1>3. ASSUME NEW c \in Clients, Revoke(c)
      PROVE  Grows
    BY <1>3 DEF Revoke, Grows, count, TypeInv, TypeOK
<1>4. ASSUME NEW c \in Clients, Emit(c) \/ Edit(c) \/ Drop(c)
      PROVE  Grows
    BY <1>4 DEF Emit, Edit, Drop, Grows, count, server
<1>5. ASSUME NEW c \in Clients, Timer(c) \/ Flush(c)
      PROVE  Grows
    BY <1>5 DEF Timer, Flush, Send, Grows, server
<1>6. ASSUME NEW c \in Clients, Join(c) \/ Enter(c) \/ ReadCanvas(c) \/ Answer(c)
      PROVE  Grows
    BY <1>6 DEF Join, Enter, ReadCanvas, Answer, Grows, count, server
<1>7. ASSUME NEW c \in Clients, TakeSnapshot(c) \/ TakeMutation(c) \/ TakeError(c)
      PROVE  Grows
    <2>1. \E k : Take(c, k)
        BY <1>7 DEF TakeSnapshot, TakeMutation, TakeError
    <2>2. UNCHANGED <<server, count>>
        BY <2>1 DEF Take
    <2> QED BY <2>2 DEF Grows, count, server
<1>8. CASE UNCHANGED vars
    BY <1>8 DEF vars, count, server, Grows
<1>9. ASSUME NEW c \in Clients, Works(c)
      PROVE  Grows
    BY <1>1, <1>4, <1>5, <1>6, <1>7, <1>9 DEF Works
<1> QED BY <1>2, <1>3, <1>4, <1>8, <1>9 DEF Next

LEMMA Older ==
    ASSUME TypeInv, Grows
    PROVE  /\ Len(history) \in Nat \ {0} /\ Len(history') \in Nat /\ Len(history) <= Len(history')
           /\ DOMAIN history = 1..Len(history) /\ DOMAIN history' = 1..Len(history')
           /\ \A i \in 1..Len(history) : history'[i] = history[i] /\ i \in 1..Len(history')
<1>1. history \in Seq(Docs) /\ history # <<>>
    BY DEF TypeInv, TypeOK, Loaded
<1>2. Len(history) \in Nat \ {0} /\ DOMAIN history = 1..Len(history)
    BY <1>1
<1>3. CASE history' = history
    BY <1>2, <1>3
<1>4. ASSUME NEW d \in Docs, history' = Append(history, d)
      PROVE  /\ Len(history') = Len(history) + 1 /\ DOMAIN history' = 1..Len(history')
             /\ \A i \in 1..Len(history) : history'[i] = history[i]
    BY <1>1, <1>2, <1>4, Appended
<1> QED BY <1>2, <1>3, <1>4 DEF Grows

\* A canvas of a revision the server has, and a change between two of them.
Past(c, s) ==
    /\ s.rev \in 0..Revision
    /\ s.doc = history[s.rev + 1]
    /\ ~s.can => ~editor[c]
Change(m) ==
    /\ m.rev \in 1..Revision
    /\ history[m.rev + 1] = Apply(history[m.rev], m.patch)

LEMMA PastStays ==
    ASSUME TypeInv, Grows, NEW c \in Clients, NEW s, Past(c, s)
    PROVE  Past(c, s)'
<1>1. Revision' = Len(history') - 1 /\ Revision = Len(history) - 1
    BY DEF Revision
<1>2. s.rev \in 0..Revision' /\ s.rev + 1 \in 1..Len(history)
    BY <1>1, Older DEF Past
<1>3. s.doc = history'[s.rev + 1]
    BY <1>2, Older DEF Past
<1>4. ~s.can => ~editor'[c]
    BY DEF Past, Grows
<1> QED BY <1>1, <1>2, <1>3, <1>4 DEF Past

LEMMA ChangeStays ==
    ASSUME TypeInv, Grows, NEW m, Change(m)
    PROVE  Change(m)'
<1>1. Revision' = Len(history') - 1 /\ Revision = Len(history) - 1
    BY DEF Revision
<1>2. m.rev \in 1..Revision' /\ m.rev + 1 \in 1..Len(history) /\ m.rev \in 1..Len(history)
    BY <1>1, Older DEF Change
<1>3. history'[m.rev + 1] = Apply(history'[m.rev], m.patch)
    BY <1>2, Older DEF Change
<1> QED BY <1>1, <1>2, <1>3 DEF Change

LEMMA CanvasPast ==
    ASSUME TypeInv, NEW c \in Clients
    PROVE  Past(c, Canvas(c))
<1>1. Len(history) \in Nat \ {0}
    <2>1. history \in Seq(Docs) /\ history # <<>>
        BY DEF TypeInv, TypeOK, Loaded
    <2> QED BY <2>1
<1> QED BY <1>1 DEF Past, Canvas, Revision

\* Where a question of a client comes from.
ReadMove(c, r) ==
    \/ \E i \in DOMAIN reads[c] : r = reads[c][i]
    \/ /\ r.done /\ r.state = Canvas(c) /\ Keeps(c) /\ UNCHANGED <<history, editor>>
       /\ \E i \in DOMAIN reads[c] : r.k = reads[c][i].k /\ r.pending = reads[c][i].pending
    \/ ~r.done /\ r.pending = Pending(c) /\ Keeps(c)

LEMMA AskMoves ==
    ASSUME TypeInv, NEW a \in Clients, NEW kind \in {"resync", "refresh"}, Ask(a, kind), Stays \/ UNCHANGED client,
           NEW c \in Clients, NEW i \in DOMAIN reads'[c]
    PROVE  ReadMove(c, reads'[c][i])
<1> DEFINE r == [k |-> kind, pending |-> Pending(a), done |-> FALSE, state |-> NoState]
<1>1. reads \in [Clients -> Seq(Read)] /\ reads[a] \in Seq(Read)
    BY DEF TypeInv, TypeOK
<1>2. r \in Read
    BY PendingType DEF Read, Pending
<1>3. reads' = [reads EXCEPT ![a] = Append(@, r)]
    BY DEF Ask, Pending
<1>4. r.pending = Pending(a) /\ ~r.done
    OBVIOUS
<1>5. Keeps(c)
    BY StaysKeep
<1> HIDE DEF r
<1>6. CASE c # a
    BY <1>1, <1>3, <1>6 DEF ReadMove
<1>7. CASE c = a
    <2>1. reads'[c] = Append(reads[c], r)
        BY <1>1, <1>3, <1>7
    <2>2. DOMAIN reads'[c] = 1..Len(reads[c]) + 1 /\ DOMAIN reads[c] = 1..Len(reads[c]) /\ Len(reads[c]) \in Nat
        BY <1>1, <1>2, <1>7, <2>1, Appended
    <2>3. CASE i \in DOMAIN reads[c]
        <3>1. reads'[c][i] = reads[c][i]
            BY <1>1, <1>2, <1>7, <2>1, <2>3, Appended
        <3> QED BY <2>3, <3>1 DEF ReadMove
    <2>4. CASE i = Len(reads[c]) + 1
        <3>1. reads'[c][i] = r
            BY <1>1, <1>2, <1>7, <2>1, <2>4, Appended
        <3> QED BY <1>4, <1>5, <1>7, <3>1 DEF ReadMove
    <2> QED BY <2>2, <2>3, <2>4
<1> QED BY <1>6, <1>7

LEMMA ReadCanvasMoves ==
    ASSUME TypeInv, NEW a \in Clients, ReadCanvas(a), NEW c \in Clients, NEW j \in DOMAIN reads'[c]
    PROVE  ReadMove(c, reads'[c][j])
<1>1. PICK i \in DOMAIN reads[a] :
          /\ ~reads[a][i].done
          /\ reads' = [reads EXCEPT ![a][i].done = TRUE, ![a][i].state = Canvas(a)]
          /\ UNCHANGED <<server, client, net, count>>
    BY DEF ReadCanvas
<1> DEFINE r == [[reads[a][i] EXCEPT !.done = TRUE] EXCEPT !.state = Canvas(a)]
<1>2. reads \in [Clients -> Seq(Read)] /\ reads[a] \in Seq(Read)
    BY DEF TypeInv, TypeOK
<1>3. reads[a][i] \in Read
    BY <1>2, Element
<1>4. reads' = [reads EXCEPT ![a] = [reads[a] EXCEPT ![i] = r]]
    <2>1. [[reads EXCEPT ![a][i].done = TRUE] EXCEPT ![a][i].state = Canvas(a)] = [reads EXCEPT ![a] = [reads[a] EXCEPT ![i] = r]]
        BY <1>2
    <2> QED BY <1>1, <2>1
<1>5. r.done /\ r.state = Canvas(a) /\ r.k = reads[a][i].k /\ r.pending = reads[a][i].pending
    BY <1>3 DEF Read
<1>6. Keeps(c) /\ UNCHANGED <<history, editor>>
    BY <1>1, StaysKeep DEF server
<1> HIDE DEF r
<1>7. CASE c # a
    BY <1>2, <1>4, <1>7 DEF ReadMove
<1>8. CASE c = a
    <2>1. reads'[c] = [reads[c] EXCEPT ![i] = r]
        BY <1>2, <1>4, <1>8
    <2>2. CASE j = i
        <3>1. reads'[c][j] = r
            BY <1>1, <1>8, <2>1, <2>2
        <3> QED BY <1>1, <1>5, <1>6, <1>8, <3>1 DEF ReadMove
    <2>3. CASE j # i
        <3>1. j \in DOMAIN reads[c] /\ reads'[c][j] = reads[c][j]
            BY <2>1, <2>3
        <3> QED BY <3>1 DEF ReadMove
    <2> QED BY <2>2, <2>3
<1> QED BY <1>7, <1>8

LEMMA ReadMoves ==
    ASSUME TypeInv, [Next]_vars, NEW c \in Clients, NEW j \in DOMAIN reads'[c]
    PROVE  ReadMove(c, reads'[c][j])
<1>1. CASE UNCHANGED reads
    BY <1>1 DEF ReadMove
<1>2. ASSUME NEW a \in Clients, ReadCanvas(a)
      PROVE  ReadMove(c, reads'[c][j])
    BY <1>2, ReadCanvasMoves
<1>3. ASSUME NEW a \in Clients, Answer(a)
      PROVE  ReadMove(c, reads'[c][j])
    <2>1. PICK i \in DOMAIN reads[a] : reads' = [reads EXCEPT ![a] = Without(@, i)]
        BY <1>3 DEF Answer
    <2>2. reads \in [Clients -> Seq(Read)] /\ reads[a] \in Seq(Read)
        BY DEF TypeInv, TypeOK
    <2>3. CASE c # a
        BY <2>1, <2>2, <2>3 DEF ReadMove
    <2>4. CASE c = a
        <3>1. reads'[c] = Without(reads[c], i)
            BY <2>1, <2>2, <2>4
        <3>2. \E k \in DOMAIN reads[c] : reads'[c][j] = reads[c][k]
            BY <2>2, <2>4, <3>1, WithoutKeeps
        <3> QED BY <3>2 DEF ReadMove
    <2> QED BY <2>3, <2>4
<1>4. ASSUME NEW a \in Clients, TakeMutation(a) \/ TakeError(a)
      PROVE  ReadMove(c, reads'[c][j])
    <2>1. UNCHANGED reads \/ (Ask(a, "resync") /\ Stays)
        BY <1>4 DEF TakeMutation, TakeError
    <2> QED BY <1>1, <2>1, AskMoves
<1>5. CASE AgentCommit
    <2>1. Ask(Asker, "refresh") /\ UNCHANGED client
        BY <1>5 DEF AgentCommit
    <2> QED BY <2>1, AskMoves, AskerAssumption
<1>6. ASSUME NEW a \in Clients, Join(a) \/ Enter(a) \/ Drop(a) \/ Edit(a) \/ Timer(a) \/ Flush(a) \/ TakeSnapshot(a)
                                \/ Handle(a) \/ Emit(a) \/ Revoke(a)
      PROVE  UNCHANGED reads
    BY <1>6 DEF Join, Enter, Drop, Edit, Timer, Flush, Send, TakeSnapshot, Handle, Emit, Revoke
<1>7. CASE UNCHANGED vars
    BY <1>1, <1>7 DEF vars
<1>8. ASSUME NEW a \in Clients, Works(a)
      PROVE  ReadMove(c, reads'[c][j])
    BY <1>1, <1>2, <1>3, <1>4, <1>6, <1>8 DEF Works
<1> QED BY <1>1, <1>5, <1>6, <1>7, <1>8 DEF Next

\* Where a message to a client comes from.
InboxMove(c, m) ==
    \/ \E i \in DOMAIN inbox[c] : m = inbox[c][i]
    \/ link[c].st = "joining" /\ m = [k |-> "snapshot", state |-> link[c].state]
    \/ \E d \in Clients : \E i \in DOMAIN emitting[d] : m = emitting[d][i]
    \/ \E status \in {403, 409, 500} :
          /\ m = [k |-> "error", status |-> status]
          /\ status = 403 => ~editor[c]
          /\ status = 500 => Fails("server")

\* A sequence of messages got one more.
LEMMA OneMore ==
    ASSUME TypeInv, NEW a \in Clients, NEW m \in Message, inbox' = [inbox EXCEPT ![a] = Append(@, m)],
           NEW c \in Clients, NEW j \in DOMAIN inbox'[c]
    PROVE  (\E i \in DOMAIN inbox[c] : inbox'[c][j] = inbox[c][i]) \/ (c = a /\ inbox'[c][j] = m)
<1>1. inbox \in [Clients -> Seq(Message)] /\ inbox[c] \in Seq(Message)
    BY DEF TypeInv, TypeOK
<1>2. CASE c # a
    BY <1>1, <1>2
<1>3. CASE c = a
    <2>1. inbox'[c] = Append(inbox[c], m)
        BY <1>1, <1>3
    <2>2. DOMAIN inbox'[c] = 1..Len(inbox[c]) + 1 /\ DOMAIN inbox[c] = 1..Len(inbox[c]) /\ Len(inbox[c]) \in Nat
        BY <1>1, <2>1, Appended
    <2>3. CASE j \in DOMAIN inbox[c]
        BY <1>1, <2>1, <2>3, Appended
    <2>4. CASE j = Len(inbox[c]) + 1
        BY <1>1, <1>3, <2>1, <2>4, Appended
    <2> QED BY <2>2, <2>3, <2>4
<1> QED BY <1>2, <1>3

LEMMA EmitMoves ==
    ASSUME TypeInv, NEW a \in Clients, Emit(a), NEW c \in Clients, NEW j \in DOMAIN inbox'[c]
    PROVE  (\E i \in DOMAIN inbox[c] : inbox'[c][j] = inbox[c][i]) \/ (\E i \in DOMAIN emitting[a] : inbox'[c][j] = emitting[a][i])
<1>1. inbox[c] \in Seq(Message) /\ emitting[a] \in Seq(Message)
    BY DEF TypeInv, TypeOK
<1>2. inbox'[c] = IF link[c].st = "open" THEN inbox[c] \o emitting[a] ELSE inbox[c]
    BY DEF Emit
<1>3. CASE inbox'[c] = inbox[c]
    BY <1>3
<1>4. CASE inbox'[c] = inbox[c] \o emitting[a]
    <2> DEFINE s == inbox[c]
               t == emitting[a]
    <2>1. s \in Seq(Message) /\ t \in Seq(Message) /\ Len(s) \in Nat /\ Len(t) \in Nat
          /\ DOMAIN s = 1..Len(s) /\ DOMAIN t = 1..Len(t)
        BY <1>1
    <2>2. j \in DOMAIN (s \o t) /\ inbox'[c][j] = (s \o t)[j]
        BY <1>4
    <2> HIDE DEF s, t
    <2>3. s \o t \in Seq(Message) /\ Len(s \o t) = Len(s) + Len(t)
          /\ \A i \in 1..Len(s) + Len(t) : (s \o t)[i] = IF i <= Len(s) THEN s[i] ELSE t[i - Len(s)]
        BY <2>1, ConcatProperties
    <2>4. j \in 1..Len(s) + Len(t)
        BY <2>2, <2>3, LenProperties
    <2>5. CASE j <= Len(s)
        BY <2>1, <2>2, <2>3, <2>4, <2>5 DEF s
    <2>6. CASE ~(j <= Len(s))
        <3>1. j - Len(s) \in DOMAIN t
            BY <2>1, <2>4, <2>6
        <3>2. inbox'[c][j] = t[j - Len(s)]
            BY <2>2, <2>3, <2>4, <2>6
        <3> QED BY <3>1, <3>2 DEF t
    <2> QED BY <2>5, <2>6
<1> QED BY <1>2, <1>3, <1>4

LEMMA TellMoves ==
    ASSUME TypeInv, NEW a \in Clients, NEW status \in {403, 409, 500}, NEW old, Tells(a, status, old),
           status = 403 => ~editor[a], status = 500 => Fails("server"),
           NEW c \in Clients, NEW j \in DOMAIN inbox'[c]
    PROVE  InboxMove(c, inbox'[c][j])
<1> DEFINE m == [k |-> "error", status |-> status]
<1>1. m \in Message
    BY DEF Message
<1>2. CASE inbox' = inbox
    BY <1>2 DEF InboxMove
<1>3. CASE inbox' = [inbox EXCEPT ![a] = Append(@, m)]
    <2>1. (\E i \in DOMAIN inbox[c] : inbox'[c][j] = inbox[c][i]) \/ (c = a /\ inbox'[c][j] = m)
        <3> HIDE DEF m
        <3> QED BY <1>1, <1>3, OneMore
    <2> QED BY <2>1 DEF InboxMove
<1> QED BY <1>2, <1>3 DEF Tells

LEMMA InboxMoves ==
    ASSUME TypeInv, [Next]_vars, NEW c \in Clients, NEW j \in DOMAIN inbox'[c]
    PROVE  InboxMove(c, inbox'[c][j])
<1>1. CASE UNCHANGED inbox
    BY <1>1 DEF InboxMove
<1>2. ASSUME NEW a \in Clients, Enter(a)
      PROVE  InboxMove(c, inbox'[c][j])
    <2> DEFINE m == [k |-> "snapshot", state |-> link[a].state]
    <2>1. m \in Message
        BY <1>2 DEF Enter, TypeInv, Loaded, Message
    <2>2. inbox' = [inbox EXCEPT ![a] = Append(@, m)] /\ link[a].st = "joining"
        BY <1>2 DEF Enter
    <2>3. (\E i \in DOMAIN inbox[c] : inbox'[c][j] = inbox[c][i]) \/ (c = a /\ inbox'[c][j] = m)
        <3> HIDE DEF m
        <3> QED BY <2>1, <2>2, OneMore
    <2> QED BY <2>2, <2>3 DEF InboxMove
<1>3. ASSUME NEW a \in Clients, Drop(a)
      PROVE  InboxMove(c, inbox'[c][j])
    <2>1. inbox' = [inbox EXCEPT ![a] = <<>>] /\ inbox \in [Clients -> Seq(Message)]
        BY <1>3 DEF Drop, TypeInv, TypeOK
    <2> QED BY <2>1 DEF InboxMove
<1>4. ASSUME NEW a \in Clients, NEW k, Take(a, k)
      PROVE  InboxMove(c, inbox'[c][j])
    <2>1. inbox' = [inbox EXCEPT ![a] = Tail(@)] /\ inbox[a] # <<>>
        BY <1>4 DEF Take
    <2>2. inbox \in [Clients -> Seq(Message)] /\ inbox[a] \in Seq(Message)
        BY DEF TypeInv, TypeOK
    <2>3. \A i \in DOMAIN Tail(inbox[a]) : i + 1 \in DOMAIN inbox[a] /\ Tail(inbox[a])[i] = inbox[a][i + 1]
        BY <2>1, <2>2, TailElements
    <2>4. CASE c = a
        <3>1. j + 1 \in DOMAIN inbox[c] /\ inbox'[c][j] = inbox[c][j + 1]
            BY <2>1, <2>2, <2>3, <2>4
        <3> QED BY <3>1 DEF InboxMove
    <2>5. CASE c # a
        BY <2>1, <2>2, <2>5 DEF InboxMove
    <2> QED BY <2>4, <2>5
<1>5. ASSUME NEW a \in Clients, Handle(a)
      PROVE  InboxMove(c, inbox'[c][j])
    <2>1. \/ UNCHANGED inbox
          \/ ~editor[a] /\ Tells(a, 403, Head(outbox[a]).old)
          \/ Tells(a, 409, Head(outbox[a]).old)
          \/ Fails("server") /\ Tells(a, 500, Head(outbox[a]).old)
        BY <1>5 DEF Handle
    <2>2. CASE ~editor[a] /\ Tells(a, 403, Head(outbox[a]).old)
        BY <2>2, TellMoves
    <2>3. CASE Tells(a, 409, Head(outbox[a]).old)
        BY <2>3, TellMoves
    <2>4. CASE Fails("server") /\ Tells(a, 500, Head(outbox[a]).old)
        BY <2>4, TellMoves
    <2> QED BY <1>1, <2>1, <2>2, <2>3, <2>4
<1>6. ASSUME NEW a \in Clients, Emit(a)
      PROVE  InboxMove(c, inbox'[c][j])
    BY <1>6, EmitMoves DEF InboxMove
<1>7. ASSUME NEW a \in Clients, Join(a) \/ Edit(a) \/ Timer(a) \/ Flush(a) \/ ReadCanvas(a) \/ Answer(a) \/ Revoke(a)
      PROVE  UNCHANGED inbox
    BY <1>7 DEF Join, Edit, Timer, Flush, Send, ReadCanvas, Answer, Revoke, net
<1>8. ASSUME NEW a \in Clients, TakeSnapshot(a) \/ TakeMutation(a) \/ TakeError(a)
      PROVE  InboxMove(c, inbox'[c][j])
    <2>1. \E k : Take(a, k)
        BY <1>8 DEF TakeSnapshot, TakeMutation, TakeError
    <2> QED BY <1>4, <2>1
<1>9. CASE AgentCommit \/ UNCHANGED vars
    BY <1>1, <1>9 DEF AgentCommit, vars, net
<1>10. ASSUME NEW a \in Clients, Works(a)
       PROVE  InboxMove(c, inbox'[c][j])
    BY <1>1, <1>2, <1>5, <1>6, <1>7, <1>8, <1>10 DEF Works
<1> QED BY <1>1, <1>3, <1>7, <1>9, <1>10 DEF Next

\* Where a broadcast to come comes from: the connection's own request.
EmittingMove(c, m) ==
    \/ \E i \in DOMAIN emitting[c] : m = emitting[c][i]
    \/ \E i \in DOMAIN outbox[c] :
          LET q == outbox[c][i].m
          IN  /\ m = [k |-> "mutation", by |-> c, id |-> q.id, rev |-> Revision + 1, patch |-> q.patch]
              /\ history' = Append(history, Apply(history[Len(history)], q.patch))
              /\ UNCHANGED <<inbox, client>> /\ emitting[c] = <<>> /\ emitting' = [emitting EXCEPT ![c] = <<m>>]

LEMMA EmittingMoves ==
    ASSUME TypeInv, [Next]_vars, NEW c \in Clients, NEW j \in DOMAIN emitting'[c]
    PROVE  EmittingMove(c, emitting'[c][j])
<1>1. CASE UNCHANGED emitting
    BY <1>1 DEF EmittingMove
<1>2. emitting \in [Clients -> Seq(Message)]
    BY DEF TypeInv, TypeOK
<1>3. ASSUME NEW a \in Clients, Emit(a)
      PROVE  EmittingMove(c, emitting'[c][j])
    <2>1. emitting' = [emitting EXCEPT ![a] = <<>>]
        BY <1>3 DEF Emit
    <2>2. c # a
        BY <1>2, <2>1
    <2> QED BY <1>2, <2>1, <2>2 DEF EmittingMove
<1>4. ASSUME NEW a \in Clients, Handle(a)
      PROVE  EmittingMove(c, emitting'[c][j])
    <2> DEFINE q == Head(outbox[a]).m
               m == [k |-> "mutation", by |-> a, id |-> q.id, rev |-> Revision + 1, patch |-> q.patch]
    <2>1. \/ UNCHANGED emitting
          \/ /\ history' = Append(history, Apply(history[Len(history)], q.patch))
             /\ emitting' = [emitting EXCEPT ![a] = <<m>>] /\ UNCHANGED inbox
        BY <1>4 DEF Handle, Canvas
    <2>2. UNCHANGED client /\ emitting[a] = <<>>
        BY <1>4 DEF Handle
    <2>3. 1 \in DOMAIN outbox[a] /\ q = outbox[a][1].m
        <3>1. outbox[a] # <<>> /\ outbox[a] \in Seq(Parcel)
            BY <1>4, OutboxType DEF Handle, TypeInv
        <3> QED BY <3>1, TailElements
    <2>4. CASE ~(UNCHANGED emitting)
        <3> HIDE DEF q
        <3>1. history' = Append(history, Apply(history[Len(history)], q.patch))
              /\ emitting' = [emitting EXCEPT ![a] = <<m>>] /\ UNCHANGED inbox
            BY <2>1, <2>4
        <3>2. CASE c # a
            <4>1. emitting'[c] = emitting[c]
                <5> HIDE DEF m
                <5> QED BY <1>2, <3>1, <3>2
            <4> QED BY <4>1 DEF EmittingMove
        <3>3. CASE c = a
            <4>1. emitting'[c] = <<m>>
                <5> HIDE DEF m
                <5> QED BY <1>2, <3>1, <3>3
            <4>2. emitting'[c][j] = m
                <5> HIDE DEF m
                <5> QED BY <4>1
            <4> QED BY <2>2, <2>3, <3>1, <3>3, <4>2 DEF EmittingMove
        <3> QED BY <3>2, <3>3
    <2> QED BY <1>1, <2>4
<1>5. ASSUME NEW a \in Clients, Join(a) \/ Enter(a) \/ Drop(a) \/ Edit(a) \/ Timer(a) \/ Flush(a)
                                \/ ReadCanvas(a) \/ Answer(a) \/ Revoke(a)
      PROVE  UNCHANGED emitting
    BY <1>5 DEF Join, Enter, Drop, Edit, Timer, Flush, Send, ReadCanvas, Answer, Revoke, server
<1>6. ASSUME NEW a \in Clients, TakeSnapshot(a) \/ TakeMutation(a) \/ TakeError(a)
      PROVE  UNCHANGED emitting
    <2>1. \E k : Take(a, k)
        BY <1>6 DEF TakeSnapshot, TakeMutation, TakeError
    <2> QED BY <2>1 DEF Take, server
<1>7. CASE AgentCommit \/ UNCHANGED vars
    BY <1>1, <1>7 DEF AgentCommit, vars, server
<1>8. ASSUME NEW a \in Clients, Works(a)
      PROVE  EmittingMove(c, emitting'[c][j])
    BY <1>1, <1>3, <1>4, <1>5, <1>6, <1>8 DEF Works
<1> QED BY <1>1, <1>5, <1>7, <1>8 DEF Next

\* Where a request comes from.
OutboxMove(c, q) ==
    \/ \E i \in DOMAIN outbox[c] : q.m = outbox[c][i].m
    \/ Sends(c) /\ q.m = Request(c)

LEMMA OutboxMoves ==
    ASSUME TypeInv, [Next]_vars, NEW c \in Clients, NEW j \in DOMAIN outbox'[c]
    PROVE  OutboxMove(c, outbox'[c][j])
<1>1. CASE UNCHANGED outbox
    BY <1>1 DEF OutboxMove
<1>2. outbox \in [Clients -> Seq(Parcel)] /\ \A a \in Clients : outbox[a] \in Seq(Parcel)
    BY OutboxType DEF TypeInv
<1>3. ASSUME NEW a \in Clients, Drop(a)
      PROVE  OutboxMove(c, outbox'[c][j])
    <2> DEFINE old == [i \in DOMAIN outbox[a] |-> [outbox[a][i] EXCEPT !.old = TRUE]]
    <2>1. outbox' = [outbox EXCEPT ![a] = <<>>] \/ outbox' = [outbox EXCEPT ![a] = old]
        BY <1>3 DEF Drop
    <2>2. \A i \in DOMAIN outbox[a] : i \in DOMAIN old /\ old[i].m = outbox[a][i].m
        <3>1. ASSUME NEW i \in DOMAIN outbox[a]
              PROVE  old[i].m = outbox[a][i].m
            <4>1. outbox[a][i] \in Parcel
                BY <1>2, Element
            <4> QED BY <4>1 DEF Parcel
        <3> QED BY <3>1
    <2>3. DOMAIN old = DOMAIN outbox[a]
        OBVIOUS
    <2> HIDE DEF old
    <2>4. CASE c # a
        BY <1>2, <2>1, <2>4 DEF OutboxMove
    <2>5. CASE c = a
        <3>1. outbox'[c] = <<>> \/ outbox'[c] = old
            BY <1>2, <2>1, <2>5
        <3>2. j \in DOMAIN old /\ outbox'[c][j] = old[j]
            BY <3>1
        <3> QED BY <2>2, <2>3, <2>5, <3>2 DEF OutboxMove
    <2> QED BY <2>4, <2>5
<1>4. ASSUME NEW a \in Clients, Send(a)
      PROVE  OutboxMove(c, outbox'[c][j])
    <2> DEFINE q == [m |-> Request(a), old |-> FALSE]
               sends == link[a].st # "closed" /\ base[a] # NoDoc /\ flight[a] = NoFlight /\ can[a] /\ ~Empty(Diff(base[a], doc[a]))
    <2>1. UNCHANGED outbox \/ (sends /\ outbox' = [outbox EXCEPT ![a] = Append(@, q)])
        <3>1. CASE sends
            BY <1>4, <3>1 DEF Send, Request
        <3>2. CASE ~sends
            BY <1>4, <3>2 DEF Send
        <3> QED BY <3>1, <3>2
    <2>2. ASSUME sends, outbox' = [outbox EXCEPT ![a] = Append(@, q)]
          PROVE  OutboxMove(c, outbox'[c][j])
        <3>1. q \in Parcel
            <4>1. Diff(base[a], doc[a]) \in Patches
                BY <2>2, PendingType
            <4> QED BY <4>1 DEF Parcel, Mutation, Request, TypeInv, TypeOK
        <3>2. q.m = Request(a)
            OBVIOUS
        <3>3. a = c => Sends(c)
            <4>1. a = c => Sends(c) \/ Idles(c)
                BY <1>4, SendMove
            <4>2. a = c => ~Idles(c)
                BY <2>2 DEF Idles
            <4> QED BY <4>1, <4>2
        <3> HIDE DEF q
        <3>4. CASE c # a
            BY <1>2, <2>2, <3>4 DEF OutboxMove
        <3>5. CASE c = a
            <4>1. outbox'[c] = Append(outbox[c], q)
                BY <1>2, <2>2, <3>5
            <4>2. DOMAIN outbox'[c] = 1..Len(outbox[c]) + 1 /\ DOMAIN outbox[c] = 1..Len(outbox[c]) /\ Len(outbox[c]) \in Nat
                BY <1>2, <3>1, <4>1, Appended
            <4>3. CASE j \in DOMAIN outbox[c]
                <5>1. outbox'[c][j] = outbox[c][j]
                    BY <1>2, <3>1, <4>1, <4>3, Appended
                <5> QED BY <4>3, <5>1 DEF OutboxMove
            <4>4. CASE j = Len(outbox[c]) + 1
                <5>1. outbox'[c][j] = q
                    BY <1>2, <3>1, <4>1, <4>4, Appended
                <5> QED BY <3>2, <3>3, <3>5, <5>1 DEF OutboxMove
            <4> QED BY <4>2, <4>3, <4>4
        <3> QED BY <3>4, <3>5
    <2> HIDE DEF q, sends
    <2> QED BY <1>1, <2>1, <2>2
<1>5. ASSUME NEW a \in Clients, Handle(a)
      PROVE  OutboxMove(c, outbox'[c][j])
    <2>1. outbox' = [outbox EXCEPT ![a] = Tail(@)] /\ outbox[a] # <<>>
        BY <1>5 DEF Handle
    <2>2. \A i \in DOMAIN Tail(outbox[a]) : i + 1 \in DOMAIN outbox[a] /\ Tail(outbox[a])[i] = outbox[a][i + 1]
        BY <1>2, <2>1, TailElements
    <2>3. CASE c = a
        <3>1. j + 1 \in DOMAIN outbox[c] /\ outbox'[c][j] = outbox[c][j + 1]
            BY <1>2, <2>1, <2>2, <2>3
        <3> QED BY <3>1 DEF OutboxMove
    <2>4. CASE c # a
        BY <1>2, <2>1, <2>4 DEF OutboxMove
    <2> QED BY <2>3, <2>4
<1>6. ASSUME NEW a \in Clients, Join(a) \/ Enter(a) \/ Edit(a) \/ ReadCanvas(a) \/ Answer(a) \/ Emit(a) \/ Revoke(a)
      PROVE  UNCHANGED outbox
    BY <1>6 DEF Join, Enter, Edit, ReadCanvas, Answer, Emit, Revoke, net
<1>7. ASSUME NEW a \in Clients, TakeSnapshot(a) \/ TakeMutation(a) \/ TakeError(a)
      PROVE  UNCHANGED outbox
    <2>1. \E k : Take(a, k)
        BY <1>7 DEF TakeSnapshot, TakeMutation, TakeError
    <2> QED BY <2>1 DEF Take
<1>8. CASE AgentCommit \/ UNCHANGED vars
    BY <1>1, <1>8 DEF AgentCommit, vars, net
<1>9. ASSUME NEW a \in Clients, Works(a)
      PROVE  OutboxMove(c, outbox'[c][j])
    <2>1. CASE Timer(a) \/ Flush(a)
        BY <1>4, <2>1 DEF Timer, Flush
    <2> QED BY <1>1, <1>5, <1>6, <1>7, <1>9, <2>1 DEF Works
<1> QED BY <1>1, <1>3, <1>6, <1>8, <1>9 DEF Next

----------------------------------------------------------------------------
(* A client's base is a document of the server *)

MessageFits(c, m) ==
    /\ m.k = "snapshot" => Past(c, m.state)
    /\ m.k = "mutation" => Change(m)
    /\ m.k = "error" /\ m.status = 403 => ~editor[c]
    /\ m.k = "error" /\ m.status = 500 => Fails("server")

\* Every canvas and every change on its way is one of the server's; what a
\* client thinks it may not do, it may not.
BaseFits == \A c \in Clients : base[c] # NoDoc => rev[c] \in 0..Revision /\ base[c] = history[rev[c] + 1]
CanFits == \A c \in Clients : base[c] # NoDoc /\ ~can[c] => ~editor[c]
LinkFits == \A c \in Clients : link[c].st = "joining" => Past(c, link[c].state)
ReadsFit == \A c \in Clients : \A i \in DOMAIN reads[c] : reads[c][i].done => Past(c, reads[c][i].state)
InboxFits == \A c \in Clients : \A i \in DOMAIN inbox[c] : MessageFits(c, inbox[c][i])
EmittingFits == \A c \in Clients : \A i \in DOMAIN emitting[c] : emitting[c][i].k = "mutation" /\ Change(emitting[c][i])
LineInv == BaseFits /\ CanFits /\ LinkFits /\ ReadsFit /\ InboxFits /\ EmittingFits

LEMMA LineInit == Init => LineInv
<1> SUFFICES ASSUME Init PROVE LineInv
    OBVIOUS
<1>1. \A c \in Clients : base[c] = NoDoc /\ link[c].st = "closed" /\ reads[c] = <<>> /\ inbox[c] = <<>> /\ emitting[c] = <<>>
    BY DEF Init
<1> QED BY <1>1 DEF LineInv, BaseFits, CanFits, LinkFits, ReadsFit, InboxFits, EmittingFits

LEMMA MessageStays ==
    ASSUME TypeInv, Grows, NEW c \in Clients, NEW m, MessageFits(c, m)
    PROVE  MessageFits(c, m)'
BY PastStays, ChangeStays DEF MessageFits, Grows, Fails

\* The next mutation leads from the base to the document after it.
LEMMA FollowsLine ==
    ASSUME TypeInv, LineInv, NEW c \in Clients, NEW i \in DOMAIN inbox[c], Follows(c, inbox[c][i])
    PROVE  base'[c] = history[rev'[c] + 1] /\ rev'[c] \in 1..Revision
<1> DEFINE m == inbox[c][i]
<1>1. m.k = "mutation" /\ base[c] # NoDoc /\ m.rev = rev[c] + 1 /\ base'[c] = Apply(base[c], m.patch) /\ rev'[c] = m.rev
    BY DEF Follows, Known
<1>2. Change(m)
    BY <1>1 DEF LineInv, InboxFits, MessageFits
<1>3. base[c] = history[m.rev]
    BY <1>1 DEF LineInv, BaseFits
<1> HIDE DEF m
<1> QED BY <1>1, <1>2, <1>3 DEF Change

LEMMA BaseStep ==
    ASSUME TypeInv, LineInv, [Next]_vars
    PROVE  BaseFits' /\ CanFits'
<1> SUFFICES ASSUME NEW c \in Clients, base'[c] # NoDoc
             PROVE  /\ rev'[c] \in 0..Revision' /\ base'[c] = history'[rev'[c] + 1]
                    /\ ~can'[c] => ~editor'[c]
    BY DEF BaseFits, CanFits
<1>1. Grows
    BY Growing
<1>2. Revision = Len(history) - 1 /\ Revision' = Len(history') - 1
    BY DEF Revision
<1>3. ASSUME rev'[c] \in 0..Revision, base'[c] = history[rev'[c] + 1]
      PROVE  rev'[c] \in 0..Revision' /\ base'[c] = history'[rev'[c] + 1]
    BY <1>1, <1>2, <1>3, Older
<1>4. ~editor[c] => ~editor'[c]
    BY <1>1 DEF Grows
<1>5. CASE base'[c] = base[c] /\ rev'[c] = rev[c] /\ can'[c] = can[c]
    BY <1>3, <1>4, <1>5 DEF LineInv, BaseFits, CanFits
<1>6. ASSUME NEW s, NEW p, Past(c, s), Adopts(c, s, p)
      PROVE  rev'[c] \in 0..Revision /\ base'[c] = history[rev'[c] + 1] /\ (~can'[c] => ~editor[c])
    BY <1>6 DEF Past, Adopts
<1>7. CASE AdoptsSnapshot(c)
    BY <1>3, <1>4, <1>6, <1>7 DEF AdoptsSnapshot, LineInv, InboxFits, MessageFits
<1>8. CASE AdoptsRead(c)
    BY <1>3, <1>4, <1>6, <1>8 DEF AdoptsRead, LineInv, ReadsFit
<1>9. ASSUME NEW i \in DOMAIN inbox[c], Follows(c, inbox[c][i])
      PROVE  /\ rev'[c] \in 0..Revision' /\ base'[c] = history'[rev'[c] + 1]
             /\ ~can'[c] => ~editor'[c]
    <2>1. base'[c] = history[rev'[c] + 1] /\ rev'[c] \in 0..Revision
        BY <1>9, FollowsLine
    <2>2. can'[c] = can[c] /\ base[c] # NoDoc
        BY <1>9 DEF Follows, Known
    <2> QED BY <1>3, <1>4, <2>1, <2>2 DEF LineInv, CanFits
<1>10. CASE Refused(c)
    <2>1. ~editor[c]
        BY <1>10 DEF Refused, LineInv, InboxFits, MessageFits
    <2> QED BY <1>3, <1>4, <1>10, <2>1 DEF Refused, LineInv, BaseFits
<1>11. ClientMove(c)
    BY ClientMoves
<1> QED BY <1>5, <1>7, <1>8, <1>9, <1>10, <1>11 DEF ClientMove, Keeps, Edits, Sends, Idles, Failed

\* A connection being made is the one it was, or has just read the canvas.
LinkMove(c) ==
    \/ link'[c] = link[c]
    \/ link'[c].st = "joining" /\ link'[c].state = Canvas(c) /\ link[c].st = "closed"
    \/ link'[c].st = "closed"
    \/ Enter(c) /\ link'[c].st = "open" /\ link[c].st = "joining"

LEMMA LinkMoves ==
    ASSUME TypeInv, [Next]_vars, NEW c \in Clients
    PROVE  LinkMove(c)
<1>1. link \in [Clients -> [st : {"closed", "joining", "open"}, state : State \cup {NoState}]]
    BY DEF TypeInv, TypeOK
<1>2. ASSUME NEW a \in Clients, Join(a)
      PROVE  LinkMove(c)
    <2>1. link' = [link EXCEPT ![a] = [st |-> "joining", state |-> Canvas(a)]] /\ link[a].st = "closed"
        BY <1>2 DEF Join
    <2> QED BY <1>1, <2>1 DEF LinkMove
<1>3. ASSUME NEW a \in Clients, Drop(a)
      PROVE  LinkMove(c)
    <2>1. link' = [link EXCEPT ![a] = [st |-> "closed", state |-> NoState]]
        BY <1>3 DEF Drop
    <2> QED BY <1>1, <2>1 DEF LinkMove
<1>4. ASSUME NEW a \in Clients, Enter(a)
      PROVE  LinkMove(c)
    <2>1. link' = [link EXCEPT ![a] = [st |-> "open", state |-> NoState]] /\ link[a].st = "joining"
        BY <1>4 DEF Enter
    <2> QED BY <1>1, <1>4, <2>1 DEF LinkMove
<1>5. ASSUME NEW a \in Clients, Edit(a) \/ Timer(a) \/ Flush(a) \/ ReadCanvas(a) \/ Answer(a) \/ Handle(a) \/ Emit(a) \/ Revoke(a)
      PROVE  UNCHANGED link
    BY <1>5 DEF Edit, Timer, Flush, Send, ReadCanvas, Answer, Handle, Emit, Revoke, net
<1>6. ASSUME NEW a \in Clients, TakeSnapshot(a) \/ TakeMutation(a) \/ TakeError(a)
      PROVE  UNCHANGED link
    <2>1. \E k : Take(a, k)
        BY <1>6 DEF TakeSnapshot, TakeMutation, TakeError
    <2> QED BY <2>1 DEF Take
<1>7. AgentCommit \/ UNCHANGED vars => UNCHANGED link
    BY DEF AgentCommit, vars, net
<1>8. UNCHANGED link => LinkMove(c)
    BY DEF LinkMove
<1>9. ASSUME NEW a \in Clients, Works(a)
      PROVE  LinkMove(c)
    BY <1>2, <1>4, <1>5, <1>6, <1>8, <1>9 DEF Works
<1> QED BY <1>3, <1>5, <1>7, <1>8, <1>9 DEF Next

LEMMA LinkStep ==
    ASSUME TypeInv, LineInv, [Next]_vars
    PROVE  LinkFits'
<1> SUFFICES ASSUME NEW c \in Clients, link'[c].st = "joining"
             PROVE  Past(c, link[c].state)'
    BY DEF LinkFits
<1>1. PICK s : s = link'[c].state
    OBVIOUS
<1>2. Past(c, s)
    <2>1. CASE link'[c] = link[c]
        BY <1>1, <2>1 DEF LineInv, LinkFits
    <2>2. CASE link'[c].state = Canvas(c)
        BY <1>1, <2>2, CanvasPast
    <2> QED BY <2>1, <2>2, LinkMoves DEF LinkMove
<1>3. Past(c, s)'
    BY <1>2, Growing, PastStays
<1> QED BY <1>1, <1>3 DEF Past

LEMMA ReadsStep ==
    ASSUME TypeInv, LineInv, [Next]_vars
    PROVE  ReadsFit'
<1> SUFFICES ASSUME NEW c \in Clients, NEW i \in DOMAIN reads'[c], reads'[c][i].done
             PROVE  Past(c, reads[c][i].state)'
    BY DEF ReadsFit
<1>1. PICK s : s = reads'[c][i].state
    OBVIOUS
<1>2. Past(c, s)
    <2>1. ReadMove(c, reads'[c][i])
        BY ReadMoves
    <2>2. CASE \E j \in DOMAIN reads[c] : reads'[c][i] = reads[c][j]
        BY <1>1, <2>2 DEF LineInv, ReadsFit
    <2>3. CASE reads'[c][i].state = Canvas(c)
        BY <1>1, <2>3, CanvasPast
    <2> QED BY <2>1, <2>2, <2>3 DEF ReadMove
<1>3. Past(c, s)'
    BY <1>2, Growing, PastStays
<1> QED BY <1>1, <1>3 DEF Past

\* A change the server has just made is its last one.
LEMMA LastChange ==
    ASSUME TypeInv, NEW c \in Clients, NEW p \in Patches, NEW m,
           m.rev = Revision + 1, m.patch = p, history' = Append(history, Apply(history[Len(history)], p))
    PROVE  Change(m)' /\ Revision' = Revision + 1
<1> DEFINE d == Apply(history[Len(history)], p)
<1>1. history \in Seq(Docs) /\ history # <<>> /\ history[Len(history)] \in Docs
    BY CanvasType DEF TypeInv, TypeOK, Loaded
<1>2. d \in Docs
    BY <1>1, ApplyType
<1>3. history' = Append(history, d)
    OBVIOUS
<1> HIDE DEF d
<1>4. /\ Len(history') = Len(history) + 1 /\ Len(history) \in Nat \ {0}
      /\ history'[Len(history) + 1] = d /\ history'[Len(history)] = history[Len(history)]
    BY <1>1, <1>2, <1>3, Appended
<1>5. Revision' = Revision + 1 /\ Revision + 1 = Len(history) /\ Revision \in Nat
    BY <1>4 DEF Revision
<1> QED BY <1>4, <1>5 DEF Change, d

LEMMA RequestPatch ==
    ASSUME TypeInv, NEW c \in Clients, NEW i \in DOMAIN outbox[c]
    PROVE  outbox[c][i].m \in Mutation /\ outbox[c][i].m.patch \in Patches /\ outbox[c][i].m.id \in Nat
<1>1. outbox[c] \in Seq(Parcel)
    BY OutboxType DEF TypeInv
<1>2. outbox[c][i] \in Parcel
    BY <1>1, Element
<1> QED BY <1>2 DEF Parcel, Mutation

LEMMA EmittingStep ==
    ASSUME TypeInv, LineInv, [Next]_vars
    PROVE  EmittingFits'
<1> SUFFICES ASSUME NEW c \in Clients, NEW i \in DOMAIN emitting'[c]
             PROVE  emitting'[c][i].k = "mutation" /\ Change(emitting[c][i])'
    BY DEF EmittingFits
<1>1. PICK m : m = emitting'[c][i]
    OBVIOUS
<1>2. m.k = "mutation" /\ Change(m)'
    <2>1. EmittingMove(c, m)
        BY <1>1, EmittingMoves
    <2>2. CASE \E j \in DOMAIN emitting[c] : m = emitting[c][j]
        BY <2>2, Growing, ChangeStays DEF LineInv, EmittingFits
    <2>3. ASSUME NEW j \in DOMAIN outbox[c],
                 m = [k |-> "mutation", by |-> c, id |-> outbox[c][j].m.id, rev |-> Revision + 1, patch |-> outbox[c][j].m.patch],
                 history' = Append(history, Apply(history[Len(history)], outbox[c][j].m.patch))
          PROVE  m.k = "mutation" /\ Change(m)'
        <3>1. m.k = "mutation" /\ m.rev = Revision + 1 /\ m.patch = outbox[c][j].m.patch
            BY <2>3
        <3>2. m.patch \in Patches
            BY <3>1, RequestPatch
        <3> QED BY <2>3, <3>1, <3>2, LastChange
    <2> QED BY <2>1, <2>2, <2>3 DEF EmittingMove
<1> QED BY <1>1, <1>2 DEF Change

LEMMA InboxStep ==
    ASSUME TypeInv, LineInv, [Next]_vars
    PROVE  InboxFits'
<1> SUFFICES ASSUME NEW c \in Clients, NEW i \in DOMAIN inbox'[c]
             PROVE  MessageFits(c, inbox[c][i])'
    BY DEF InboxFits
<1>1. PICK m : m = inbox'[c][i]
    OBVIOUS
<1>2. MessageFits(c, m)
    <2>1. InboxMove(c, m)
        BY <1>1, InboxMoves
    <2>2. CASE \E j \in DOMAIN inbox[c] : m = inbox[c][j]
        BY <2>2 DEF LineInv, InboxFits
    <2>3. CASE link[c].st = "joining" /\ m = [k |-> "snapshot", state |-> link[c].state]
        <3>1. m.k = "snapshot" /\ m.state = link[c].state
            BY <2>3
        <3> QED BY <2>3, <3>1 DEF LineInv, LinkFits, MessageFits
    <2>4. CASE \E d \in Clients : \E j \in DOMAIN emitting[d] : m = emitting[d][j]
        BY <2>4 DEF LineInv, EmittingFits, MessageFits
    <2>5. ASSUME NEW status \in {403, 409, 500}, m = [k |-> "error", status |-> status],
                 status = 403 => ~editor[c], status = 500 => Fails("server")
          PROVE  MessageFits(c, m)
        <3>1. m.k = "error" /\ m.status = status
            BY <2>5
        <3> QED BY <2>5, <3>1 DEF MessageFits
    <2> QED BY <2>1, <2>2, <2>3, <2>4, <2>5 DEF InboxMove
<1>3. MessageFits(c, m)'
    BY <1>2, Growing, MessageStays
<1> QED BY <1>1, <1>3 DEF MessageFits, Past, Change

LEMMA LineStep ==
    ASSUME TypeInv, LineInv, [Next]_vars
    PROVE  LineInv'
BY BaseStep, LinkStep, ReadsStep, EmittingStep, InboxStep DEF LineInv

\* A client's base is the server's document of the revision it says, so a
\* mutation accepted for that revision changes what the client meant to change
\* (applyMutation's gap check, resync, applySnapshot).
THEOREM BaseIsServers == Spec => []BaseIsHistory
<1>1. Init => TypeInv /\ LineInv
    BY TypeInit, LineInit
<1>2. TypeInv /\ LineInv /\ [Next]_vars => (TypeInv /\ LineInv)'
    BY TypeStep, LineStep
<1>3. LineInv => BaseIsHistory
    BY DEF LineInv, BaseFits, BaseIsHistory
<1> QED BY <1>1, <1>2, <1>3, PTL DEF Spec

----------------------------------------------------------------------------
(* What a client has in flight, and the messages that are about it *)

Of(c, m) == m.k = "mutation" /\ m.by = c

\* A mutation the client has sent; if it is the one in flight, the document it
\* leads to is what it changes and, elsewhere, what the server had.
Recorded(x, v) == \E r \in DOMAIN history : history[r][x] = v
Leads(m, target) ==
    \A x \in Cells : IF x \in DOMAIN m.patch THEN m.patch[x] = target[x] ELSE Recorded(x, target[x])
Matches(c, m) == m.id \in 1..sent[c] /\ (flight[c].id = m.id => Leads(m, flight[c].target))

\* One revision is one mutation.
Elements(s) == {s[i] : i \in DOMAIN s}
Flying == UNION {Elements(inbox[c]) \cup Elements(emitting[c]) : c \in Clients}
Same(m, n) == m.k = "mutation" /\ n.k = "mutation" /\ m.rev = n.rev => m.by = n.by /\ m.id = n.id

FlightFits == \A c \in Clients : flight[c] # NoFlight => base[c] # NoDoc
OutboxMatches == \A c \in Clients : \A i \in DOMAIN outbox[c] : outbox[c][i].m.by = c /\ Matches(c, outbox[c][i].m)
EmittingMatches == \A c \in Clients : \A i \in DOMAIN emitting[c] : emitting[c][i].by = c /\ Matches(c, emitting[c][i])
InboxMatches == \A c \in Clients : \A i \in DOMAIN inbox[c] : Of(c, inbox[c][i]) => Matches(c, inbox[c][i])
OneEach == \A m, n \in Flying : Same(m, n)
FlightInv == FlightFits /\ OutboxMatches /\ EmittingMatches /\ InboxMatches /\ OneEach

LEMMA FlightInit == Init => FlightInv
<1> SUFFICES ASSUME Init PROVE FlightInv
    OBVIOUS
<1>1. \A c \in Clients : flight[c] = NoFlight /\ outbox[c] = <<>> /\ inbox[c] = <<>> /\ emitting[c] = <<>>
    BY DEF Init
<1>2. \A c \in Clients : Elements(inbox[c]) = {} /\ Elements(emitting[c]) = {}
    BY <1>1 DEF Elements
<1>3. Flying = {}
    BY <1>2 DEF Flying
<1> QED BY <1>1, <1>3 DEF FlightInv, FlightFits, OutboxMatches, EmittingMatches, InboxMatches, OneEach

LEMMA FlightMoves ==
    ASSUME TypeInv, [Next]_vars, NEW c \in Clients
    PROVE  flight'[c] = flight[c] \/ flight'[c] = NoFlight \/ Sends(c)
<1>1. ClientMove(c)
    BY ClientMoves
<1>2. ASSUME NEW m, Follows(c, m)
      PROVE  flight'[c] = flight[c] \/ flight'[c] = NoFlight
    BY <1>2 DEF Follows
<1> QED BY <1>1, <1>2 DEF ClientMove, Keeps, Edits, Idles, AdoptsSnapshot, AdoptsRead, Adopts, Refused, Failed

LEMMA SentMoves ==
    ASSUME TypeInv, [Next]_vars, NEW c \in Clients
    PROVE  sent'[c] = sent[c] \/ (sent'[c] = sent[c] + 1 /\ Sends(c))
<1>1. ASSUME NEW a \in Clients, Send(a)
      PROVE  sent'[c] = sent[c] \/ (sent'[c] = sent[c] + 1 /\ Sends(c))
    <2>1. UNCHANGED sent \/ sent' = [sent EXCEPT ![a] = sent[a] + 1]
        BY <1>1 DEF Send
    <2>2. sent \in [Clients -> Nat]
        BY DEF TypeInv, TypeOK
    <2>3. CASE c # a
        BY <2>1, <2>2, <2>3
    <2>4. CASE c = a
        <3>1. Sends(c) \/ Idles(c)
            BY <1>1, <2>4, SendMove
        <3>2. CASE Idles(c)
            BY <1>1, <2>4, <3>2 DEF Idles, Send
        <3> QED BY <3>1, <3>2 DEF Sends
    <2> QED BY <2>3, <2>4
<1>2. ASSUME NEW a \in Clients, Join(a) \/ Enter(a) \/ Drop(a) \/ Edit(a) \/ ReadCanvas(a) \/ Answer(a) \/ Handle(a) \/ Emit(a) \/ Revoke(a)
      PROVE  UNCHANGED sent
    BY <1>2 DEF Join, Enter, Drop, Edit, ReadCanvas, Answer, Handle, Emit, Revoke, count
<1>3. ASSUME NEW a \in Clients, TakeSnapshot(a) \/ TakeMutation(a) \/ TakeError(a)
      PROVE  UNCHANGED sent
    <2>1. \E k : Take(a, k)
        BY <1>3 DEF TakeSnapshot, TakeMutation, TakeError
    <2> QED BY <2>1 DEF Take, count
<1>4. AgentCommit \/ UNCHANGED vars => UNCHANGED sent
    BY DEF AgentCommit, vars, count
<1>5. ASSUME NEW a \in Clients, Works(a)
      PROVE  sent'[c] = sent[c] \/ (sent'[c] = sent[c] + 1 /\ Sends(c))
    <2>1. CASE Timer(a) \/ Flush(a)
        BY <1>1, <2>1 DEF Timer, Flush
    <2> QED BY <1>2, <1>3, <1>5, <2>1 DEF Works
<1> QED BY <1>2, <1>4, <1>5 DEF Next

LEMMA RecordedStays ==
    ASSUME TypeInv, Grows, NEW x, NEW v, Recorded(x, v)
    PROVE  Recorded(x, v)'
BY Older DEF Recorded

LEMMA MatchesStays ==
    ASSUME TypeInv, [Next]_vars, NEW c \in Clients, NEW m, Matches(c, m)
    PROVE  Matches(c, m)'
<1>1. sent[c] \in Nat /\ m.id \in 1..sent[c]
    BY DEF TypeInv, TypeOK, Matches
<1>2. m.id \in 1..sent'[c]
    BY <1>1, SentMoves
<1>3. ASSUME flight'[c].id = m.id
      PROVE  Leads(m, flight[c].target)'
    <2>1. flight'[c] = flight[c]
        <3>1. flight'[c] # NoFlight
            BY <1>1, <1>3 DEF NoFlight
        <3>2. ~Sends(c)
            BY <1>1, <1>3 DEF Sends
        <3> QED BY <3>1, <3>2, FlightMoves
    <2>2. PICK t : t = flight[c].target
        OBVIOUS
    <2>3. Leads(m, t)
        BY <1>3, <2>1, <2>2 DEF Matches
    <2>4. \A x \in Cells : Recorded(x, t[x]) => Recorded(x, t[x])'
        BY Growing, RecordedStays
    <2>5. Leads(m, t)'
        BY <2>3, <2>4 DEF Leads
    <2> QED BY <2>1, <2>2, <2>5 DEF Leads, Recorded
<1> QED BY <1>2, <1>3 DEF Matches

\* What a client sends leads where it wants to go.
LEMMA RequestMatches ==
    ASSUME TypeInv, LineInv, [Next]_vars, NEW c \in Clients, Sends(c), NEW m, m = Request(c)
    PROVE  m.by = c /\ Matches(c, m)'
<1> DEFINE patch == Diff(base[c], doc[c])
           target == Apply(base[c], patch)
<1>1. sent[c] \in Nat /\ sent'[c] = sent[c] + 1 /\ base[c] # NoDoc /\ flight'[c] = [id |-> sent[c] + 1, target |-> target]
    BY DEF TypeInv, TypeOK, Sends
<1>2. m.by = c /\ m.id = sent[c] + 1 /\ m.patch = patch
    BY DEF Request
<1>3. ASSUME NEW x \in Cells, x \in DOMAIN patch
      PROVE  patch[x] = target[x]
    BY <1>3 DEF Apply
<1>4. ASSUME NEW x \in Cells, x \notin DOMAIN patch
      PROVE  Recorded(x, target[x])
    <2>1. target[x] = base[c][x]
        BY <1>4 DEF Apply
    <2>2. base[c] = history[rev[c] + 1] /\ rev[c] \in 0..Revision
        BY <1>1 DEF LineInv, BaseFits
    <2>3. rev[c] + 1 \in DOMAIN history
        <3>1. history \in Seq(Docs)
            BY DEF TypeInv, TypeOK
        <3> QED BY <2>2, <3>1 DEF Revision
    <2> QED BY <2>1, <2>2, <2>3 DEF Recorded
<1>5. PICK t : t = target
    OBVIOUS
<1> HIDE DEF patch, target
<1>6. \A x \in Cells : Recorded(x, t[x]) => Recorded(x, t[x])'
    BY Growing, RecordedStays
<1>7. Leads(m, t)'
    BY <1>2, <1>3, <1>4, <1>5, <1>6 DEF Leads
<1>8. flight'[c].target = t
    BY <1>1, <1>5
<1>9. Leads(m, flight[c].target)'
    BY <1>7, <1>8 DEF Leads, Recorded
<1>10. m.id \in 1..sent'[c]
    BY <1>1, <1>2
<1> QED BY <1>2, <1>9, <1>10 DEF Matches

LEMMA FlightFitsStep ==
    ASSUME TypeInv, FlightInv, [Next]_vars
    PROVE  FlightFits'
<1> SUFFICES ASSUME NEW c \in Clients, flight'[c] # NoFlight
             PROVE  base'[c] # NoDoc
    BY DEF FlightFits
<1>1. ClientMove(c)
    BY ClientMoves
<1>2. CASE Sends(c)
    BY <1>2 DEF Sends
<1>3. CASE Keeps(c) \/ Edits(c) \/ Idles(c)
    BY <1>3 DEF Keeps, Edits, Idles, FlightInv, FlightFits
<1>4. ASSUME NEW i \in DOMAIN inbox[c], Follows(c, inbox[c][i])
      PROVE  base'[c] # NoDoc
    <2>1. base[c] # NoDoc /\ inbox[c][i].k = "mutation" /\ base'[c] = Apply(base[c], inbox[c][i].patch)
        BY <1>4 DEF Follows, Known
    <2>2. inbox[c] \in Seq(Message) /\ base[c] \in Docs
        BY <2>1 DEF TypeInv, TypeOK
    <2>3. inbox[c][i].patch \in Patches
        BY <2>1, <2>2, Element, MessageFields
    <2>4. base'[c] \in Docs
        BY <2>1, <2>2, <2>3, ApplyType
    <2>5. base'[c] # NoDoc \/ Cells = {}
        BY <2>4, BoundsAssumption DEF Docs, NoDoc
    <2>6. CASE Cells = {}
        BY <2>1, <2>2, <2>6 DEF Docs, NoDoc
    <2> QED BY <2>5, <2>6
<1> QED BY <1>1, <1>2, <1>3, <1>4 DEF ClientMove, AdoptsSnapshot, AdoptsRead, Adopts, Refused, Failed

LEMMA OutboxMatchesStep ==
    ASSUME TypeInv, LineInv, FlightInv, [Next]_vars
    PROVE  OutboxMatches'
<1> SUFFICES ASSUME NEW c \in Clients, NEW i \in DOMAIN outbox'[c]
             PROVE  outbox'[c][i].m.by = c /\ Matches(c, outbox[c][i].m)'
    BY DEF OutboxMatches
<1>1. PICK m : m = outbox'[c][i].m
    OBVIOUS
<1>2. m.by = c /\ Matches(c, m)'
    <2>1. OutboxMove(c, outbox'[c][i])
        BY OutboxMoves
    <2>2. ASSUME NEW j \in DOMAIN outbox[c], m = outbox[c][j].m
          PROVE  m.by = c /\ Matches(c, m)'
        <3>1. m.by = c /\ Matches(c, m)
            BY <2>2 DEF FlightInv, OutboxMatches
        <3> QED BY <3>1, MatchesStays
    <2>3. CASE Sends(c) /\ m = Request(c)
        BY <2>3, RequestMatches
    <2> QED BY <1>1, <2>1, <2>2, <2>3 DEF OutboxMove
<1>3. m = (outbox[c][i].m)'
    BY <1>1
<1> QED BY <1>2, <1>3 DEF Matches, Leads, Recorded

LEMMA EmittingMatchesStep ==
    ASSUME TypeInv, LineInv, FlightInv, [Next]_vars
    PROVE  EmittingMatches'
<1> SUFFICES ASSUME NEW c \in Clients, NEW i \in DOMAIN emitting'[c]
             PROVE  emitting'[c][i].by = c /\ Matches(c, emitting[c][i])'
    BY DEF EmittingMatches
<1>1. PICK m : m = emitting'[c][i]
    OBVIOUS
<1>2. m.by = c /\ Matches(c, m)
    <2>1. EmittingMove(c, m)
        BY <1>1, EmittingMoves
    <2>2. CASE \E j \in DOMAIN emitting[c] : m = emitting[c][j]
        BY <2>2 DEF FlightInv, EmittingMatches
    <2>3. ASSUME NEW j \in DOMAIN outbox[c],
                 m = [k |-> "mutation", by |-> c, id |-> outbox[c][j].m.id, rev |-> Revision + 1, patch |-> outbox[c][j].m.patch]
          PROVE  m.by = c /\ Matches(c, m)
        <3>1. m.by = c /\ m.id = outbox[c][j].m.id /\ m.patch = outbox[c][j].m.patch
            BY <2>3
        <3>2. Matches(c, outbox[c][j].m)
            BY DEF FlightInv, OutboxMatches
        <3> QED BY <3>1, <3>2 DEF Matches, Leads
    <2> QED BY <2>1, <2>2, <2>3 DEF EmittingMove
<1>3. Matches(c, m)'
    BY <1>2, MatchesStays
<1> QED BY <1>1, <1>2, <1>3 DEF Matches, Leads, Recorded

LEMMA InboxMatchesStep ==
    ASSUME TypeInv, LineInv, FlightInv, [Next]_vars
    PROVE  InboxMatches'
<1> SUFFICES ASSUME NEW c \in Clients, NEW i \in DOMAIN inbox'[c], Of(c, inbox'[c][i])
             PROVE  Matches(c, inbox[c][i])'
    BY DEF InboxMatches, Of
<1>1. PICK m : m = inbox'[c][i]
    OBVIOUS
<1>2. Matches(c, m)
    <2>1. InboxMove(c, m)
        BY <1>1, InboxMoves
    <2>2. Of(c, m)
        BY <1>1
    <2>3. CASE \E j \in DOMAIN inbox[c] : m = inbox[c][j]
        BY <2>2, <2>3 DEF FlightInv, InboxMatches
    <2>4. CASE m = [k |-> "snapshot", state |-> link[c].state]
        BY <2>2, <2>4 DEF Of
    <2>5. CASE \E d \in Clients : \E j \in DOMAIN emitting[d] : m = emitting[d][j]
        BY <2>2, <2>5 DEF Of, FlightInv, EmittingMatches
    <2>6. CASE \E status \in {403, 409, 500} : m = [k |-> "error", status |-> status]
        BY <2>2, <2>6 DEF Of
    <2> QED BY <2>1, <2>3, <2>4, <2>5, <2>6 DEF InboxMove
<1>3. Matches(c, m)'
    BY <1>2, MatchesStays
<1> QED BY <1>1, <1>3 DEF Matches, Leads, Recorded

\* A mutation newly on its way is the only one of its revision.
Told(m) ==
    /\ m.rev = Revision + 1
    /\ \E c \in Clients : emitting[c] = <<>> /\ emitting' = [emitting EXCEPT ![c] = <<m>>]

LEMMA FlyingMoves ==
    ASSUME TypeInv, LineInv, [Next]_vars, NEW m \in Flying', m.k = "mutation"
    PROVE  (m \in Flying /\ m.rev \in 1..Revision) \/ Told(m)
<1>1. PICK c \in Clients : m \in Elements(inbox[c])' \cup Elements(emitting[c])'
    BY DEF Flying
<1>2. ASSUME NEW d \in Clients, NEW j \in DOMAIN inbox[d], m = inbox[d][j]
      PROVE  m \in Flying /\ m.rev \in 1..Revision
    BY <1>2 DEF Flying, Elements, LineInv, InboxFits, MessageFits, Change
<1>3. ASSUME NEW d \in Clients, NEW j \in DOMAIN emitting[d], m = emitting[d][j]
      PROVE  m \in Flying /\ m.rev \in 1..Revision
    BY <1>3 DEF Flying, Elements, LineInv, EmittingFits, Change
<1>4. CASE m \in Elements(inbox[c])'
    <2>1. PICK i \in DOMAIN inbox'[c] : m = inbox'[c][i]
        BY <1>4 DEF Elements
    <2>2. InboxMove(c, m)
        BY <2>1, InboxMoves
    <2>3. m # [k |-> "snapshot", state |-> link[c].state] /\ \A status : m # [k |-> "error", status |-> status]
        OBVIOUS
    <2> QED BY <1>2, <1>3, <2>2, <2>3 DEF InboxMove
<1>5. CASE m \in Elements(emitting[c])'
    <2>1. PICK i \in DOMAIN emitting'[c] : m = emitting'[c][i]
        BY <1>5 DEF Elements
    <2>2. EmittingMove(c, m)
        BY <2>1, EmittingMoves
    <2>3. ASSUME NEW j \in DOMAIN outbox[c],
                 m = [k |-> "mutation", by |-> c, id |-> outbox[c][j].m.id, rev |-> Revision + 1, patch |-> outbox[c][j].m.patch],
                 emitting[c] = <<>>, emitting' = [emitting EXCEPT ![c] = <<m>>]
          PROVE  Told(m)
        <3>1. m.rev = Revision + 1
            BY <2>3
        <3> QED BY <2>3, <3>1 DEF Told
    <2> QED BY <1>3, <2>2, <2>3 DEF EmittingMove
<1> QED BY <1>1, <1>4, <1>5

LEMMA OneEachStep ==
    ASSUME TypeInv, LineInv, FlightInv, [Next]_vars
    PROVE  OneEach'
<1> SUFFICES ASSUME NEW m \in Flying', NEW n \in Flying', m.k = "mutation", n.k = "mutation", m.rev = n.rev
             PROVE  m.by = n.by /\ m.id = n.id
    BY DEF OneEach, Same
<1>1. (m \in Flying /\ m.rev \in 1..Revision) \/ Told(m)
    BY FlyingMoves
<1>2. (n \in Flying /\ n.rev \in 1..Revision) \/ Told(n)
    BY FlyingMoves
<1>3. Revision \in Int
    BY DEF Revision, TypeInv, TypeOK
<1>4. CASE m \in Flying /\ n \in Flying
    BY <1>4 DEF FlightInv, OneEach, Same
<1>5. CASE Told(m) /\ Told(n)
    <2>1. PICK c \in Clients : emitting[c] = <<>> /\ emitting' = [emitting EXCEPT ![c] = <<m>>]
        BY <1>5 DEF Told
    <2>2. PICK d \in Clients : emitting[d] = <<>> /\ emitting' = [emitting EXCEPT ![d] = <<n>>]
        BY <1>5 DEF Told
    <2>3. DOMAIN emitting = Clients
        BY DEF TypeInv, TypeOK
    <2>4. emitting'[c] = <<m>> /\ (c # d => emitting'[c] = <<>>) /\ (c = d => emitting'[c] = <<n>>)
        BY <2>1, <2>2, <2>3
    <2>5. <<m>> # <<>>
        OBVIOUS
    <2>6. <<m>> = <<n>>
        BY <2>4, <2>5
    <2>7. m = n
        BY <2>6
    <2> QED BY <2>7
<1>6. ~(m.rev \in 1..Revision /\ m.rev = Revision + 1)
    BY <1>3
<1> QED BY <1>1, <1>2, <1>4, <1>5, <1>6 DEF Told

LEMMA FlightStep ==
    ASSUME TypeInv, LineInv, FlightInv, [Next]_vars
    PROVE  FlightInv'
BY FlightFitsStep, OutboxMatchesStep, EmittingMatchesStep, InboxMatchesStep, OneEachStep DEF FlightInv

----------------------------------------------------------------------------
(* A mutation in flight is answered *)

\* Its broadcast or its refusal is on the way: what will be said of the one
\* the client has in flight, and not of another.
Mine(c, m) == Of(c, m) /\ m.id = flight[c].id /\ m.rev > rev[c]
WithServer(c) == \E i \in DOMAIN outbox[c] : outbox[c][i].m.id = flight[c].id /\ ~outbox[c][i].old
Committed(c) == \E i \in DOMAIN emitting[c] : Mine(c, emitting[c][i])
Telling(c, m) == m.k \in {"snapshot", "error"} \/ Mine(c, m)
Coming(c) == \E i \in DOMAIN inbox[c] : Telling(c, inbox[c][i])
Asking(c) == \E i \in DOMAIN reads[c] : reads[c][i].k = "resync"
Answered(c) == WithServer(c) \/ Committed(c) \/ Coming(c) \/ Asking(c)
AnswerInv == \A c \in Clients : flight[c] # NoFlight /\ link[c].st = "open" /\ ~Fails("read") => Answered(c)

\* What is not taken stays.
In(e, s) == \E i \in DOMAIN s : s[i] = e
HasKind(s, k) == \E i \in DOMAIN s : s[i].k = k

LEMMA AppendKeeps ==
    ASSUME NEW S, NEW s \in Seq(S), NEW e \in S, NEW i \in DOMAIN s
    PROVE  i \in DOMAIN Append(s, e) /\ Append(s, e)[i] = s[i]
BY Appended

LEMMA ConcatKeeps ==
    ASSUME NEW S, NEW s \in Seq(S), NEW t \in Seq(S)
    PROVE  /\ \A i \in DOMAIN s : \E j \in DOMAIN (s \o t) : (s \o t)[j] = s[i]
           /\ \A i \in DOMAIN t : \E j \in DOMAIN (s \o t) : (s \o t)[j] = t[i]
<1>1. /\ Len(s) \in Nat /\ Len(t) \in Nat /\ DOMAIN s = 1..Len(s) /\ DOMAIN t = 1..Len(t)
    OBVIOUS
<1>2. /\ s \o t \in Seq(S) /\ Len(s \o t) = Len(s) + Len(t)
      /\ \A i \in 1..Len(s) + Len(t) : (s \o t)[i] = IF i <= Len(s) THEN s[i] ELSE t[i - Len(s)]
    BY ConcatProperties
<1>3. DOMAIN (s \o t) = 1..Len(s) + Len(t)
    BY <1>2, LenProperties
<1>4. ASSUME NEW i \in DOMAIN s
      PROVE  \E j \in DOMAIN (s \o t) : (s \o t)[j] = s[i]
    <2>1. i \in 1..Len(s) + Len(t) /\ i <= Len(s)
        BY <1>1
    <2> QED BY <1>2, <1>3, <2>1
<1>5. ASSUME NEW i \in DOMAIN t
      PROVE  \E j \in DOMAIN (s \o t) : (s \o t)[j] = t[i]
    <2>1. Len(s) + i \in 1..Len(s) + Len(t) /\ ~(Len(s) + i <= Len(s)) /\ (Len(s) + i) - Len(s) = i
        BY <1>1
    <2>2. (s \o t)[Len(s) + i] = t[(Len(s) + i) - Len(s)]
        BY <1>2, <2>1
    <2>3. (s \o t)[Len(s) + i] = t[i]
        BY <2>1, <2>2
    <2> QED BY <1>3, <2>1, <2>3
<1> QED BY <1>4, <1>5

LEMMA TakesOne ==
    ASSUME NEW c \in Clients, TakeSnapshot(c) \/ TakeMutation(c) \/ TakeError(c)
    PROVE  \E k : Take(c, k)
BY DEF TakeSnapshot, TakeMutation, TakeError

LEMMA RequestType ==
    ASSUME TypeInv, NEW c \in Clients, base[c] # NoDoc
    PROVE  [m |-> Request(c), old |-> FALSE] \in Parcel
<1>1. Diff(base[c], doc[c]) \in Patches
    BY PendingType
<1> QED BY <1>1 DEF Parcel, Mutation, Request, TypeInv, TypeOK

LEMMA OutboxKeeps ==
    ASSUME TypeInv, [Next]_vars, NEW c \in Clients, NEW i \in DOMAIN outbox[c], ~Drop(c), Handle(c) => i # 1
    PROVE  In(outbox[c][i], outbox'[c])
<1>1. outbox \in [Clients -> Seq(Parcel)] /\ \A a \in Clients : outbox[a] \in Seq(Parcel)
    BY OutboxType DEF TypeInv
<1>2. UNCHANGED outbox => In(outbox[c][i], outbox'[c])
    BY DEF In
<1>3. ASSUME NEW a \in Clients, Drop(a)
      PROVE  In(outbox[c][i], outbox'[c])
    <2>1. c # a
        BY <1>3
    <2>2. outbox'[c] = outbox[c]
        BY <1>1, <1>3, <2>1 DEF Drop
    <2> QED BY <2>2 DEF In
<1>4. ASSUME NEW a \in Clients, Send(a)
      PROVE  In(outbox[c][i], outbox'[c])
    <2> DEFINE q == [m |-> Request(a), old |-> FALSE]
               sends == link[a].st # "closed" /\ base[a] # NoDoc /\ flight[a] = NoFlight /\ can[a] /\ ~Empty(Diff(base[a], doc[a]))
    <2>1. UNCHANGED outbox \/ (sends /\ outbox' = [outbox EXCEPT ![a] = Append(@, q)])
        <3>1. CASE sends
            BY <1>4, <3>1 DEF Send, Request
        <3>2. CASE ~sends
            BY <1>4, <3>2 DEF Send
        <3> QED BY <3>1, <3>2
    <2>2. ASSUME sends, outbox' = [outbox EXCEPT ![a] = Append(@, q)]
          PROVE  In(outbox[c][i], outbox'[c])
        <3>1. q \in Parcel
            BY <2>2, RequestType
        <3> HIDE DEF q
        <3>2. CASE c # a
            BY <1>1, <2>2, <3>2 DEF In
        <3>3. CASE c = a
            <4>1. outbox'[c] = Append(outbox[c], q)
                BY <1>1, <2>2, <3>3
            <4>2. i \in DOMAIN outbox'[c] /\ outbox'[c][i] = outbox[c][i]
                <5>1. DOMAIN outbox'[c] = 1..Len(outbox[c]) + 1 /\ DOMAIN outbox[c] = 1..Len(outbox[c]) /\ Len(outbox[c]) \in Nat
                    BY <1>1, <3>1, <4>1, Appended
                <5>2. outbox'[c][i] = outbox[c][i]
                    BY <1>1, <3>1, <4>1, AppendKeeps
                <5> QED BY <5>1, <5>2
            <4> QED BY <4>2 DEF In
        <3> QED BY <3>2, <3>3
    <2> HIDE DEF q, sends
    <2> QED BY <1>2, <2>1, <2>2
<1>5. ASSUME NEW a \in Clients, Handle(a)
      PROVE  In(outbox[c][i], outbox'[c])
    <2>1. outbox' = [outbox EXCEPT ![a] = Tail(@)] /\ outbox[a] # <<>>
        BY <1>5 DEF Handle
    <2>2. CASE c # a
        BY <1>1, <2>1, <2>2 DEF In
    <2>3. CASE c = a
        <3>1. i # 1 /\ outbox'[c] = Tail(outbox[c]) /\ outbox[c] # <<>> /\ outbox[c] \in Seq(Parcel)
            BY <1>1, <1>5, <2>1, <2>3
        <3> QED BY <3>1, TailElements DEF In
    <2> QED BY <2>2, <2>3
<1>6. ASSUME NEW a \in Clients, Join(a) \/ Enter(a) \/ Edit(a) \/ ReadCanvas(a) \/ Answer(a) \/ Emit(a) \/ Revoke(a)
      PROVE  UNCHANGED outbox
    BY <1>6 DEF Join, Enter, Edit, ReadCanvas, Answer, Emit, Revoke, net
<1>7. ASSUME NEW a \in Clients, TakeSnapshot(a) \/ TakeMutation(a) \/ TakeError(a)
      PROVE  UNCHANGED outbox
    <2>1. \E k : Take(a, k)
        BY <1>7, TakesOne
    <2> QED BY <2>1 DEF Take
<1>8. AgentCommit \/ UNCHANGED vars => UNCHANGED outbox
    BY DEF AgentCommit, vars, net
<1>9. ASSUME NEW a \in Clients, Works(a)
      PROVE  In(outbox[c][i], outbox'[c])
    <2>1. CASE Timer(a) \/ Flush(a)
        BY <1>4, <2>1 DEF Timer, Flush
    <2> QED BY <1>2, <1>5, <1>6, <1>7, <1>9, <2>1 DEF Works
<1> QED BY <1>2, <1>3, <1>6, <1>8, <1>9 DEF Next

LEMMA EmittingKeeps ==
    ASSUME TypeInv, [Next]_vars, NEW c \in Clients, NEW i \in DOMAIN emitting[c], ~Emit(c)
    PROVE  emitting'[c] = emitting[c]
<1>1. DOMAIN emitting = Clients
    BY DEF TypeInv, TypeOK
<1>2. ASSUME NEW a \in Clients, Emit(a)
      PROVE  emitting'[c] = emitting[c]
    BY <1>1, <1>2 DEF Emit
<1>3. ASSUME NEW a \in Clients, Handle(a)
      PROVE  emitting'[c] = emitting[c]
    <2>1. emitting[a] = <<>>
        BY <1>3 DEF Handle
    <2>2. c # a
        BY <2>1
    <2>3. UNCHANGED emitting \/ \E m : emitting' = [emitting EXCEPT ![a] = m]
        BY <1>3 DEF Handle
    <2> QED BY <1>1, <2>2, <2>3
<1>4. ASSUME NEW a \in Clients, Join(a) \/ Enter(a) \/ Drop(a) \/ Edit(a) \/ Timer(a) \/ Flush(a)
                                \/ ReadCanvas(a) \/ Answer(a) \/ Revoke(a)
      PROVE  UNCHANGED emitting
    BY <1>4 DEF Join, Enter, Drop, Edit, Timer, Flush, Send, ReadCanvas, Answer, Revoke, server
<1>5. ASSUME NEW a \in Clients, TakeSnapshot(a) \/ TakeMutation(a) \/ TakeError(a)
      PROVE  UNCHANGED emitting
    <2>1. \E k : Take(a, k)
        BY <1>5, TakesOne
    <2> QED BY <2>1 DEF Take, server
<1>6. AgentCommit \/ UNCHANGED vars => UNCHANGED emitting
    BY DEF AgentCommit, vars, server
<1>7. ASSUME NEW a \in Clients, Works(a)
      PROVE  emitting'[c] = emitting[c]
    BY <1>2, <1>3, <1>4, <1>5, <1>7 DEF Works
<1> QED BY <1>4, <1>6, <1>7 DEF Next

LEMMA ConcatKeepsLast ==
    ASSUME NEW S, NEW s \in Seq(S), NEW t \in Seq(S), NEW i \in DOMAIN t
    PROVE  \E j \in DOMAIN (s \o t) : (s \o t)[j] = t[i]
<1>1. \A k \in DOMAIN t : \E j \in DOMAIN (s \o t) : (s \o t)[j] = t[k]
    BY ConcatKeeps
<1> QED BY <1>1

LEMMA InConcat ==
    ASSUME NEW S, NEW s \in Seq(S), NEW t \in Seq(S), NEW i \in DOMAIN t
    PROVE  In(t[i], s \o t)
BY ConcatKeepsLast DEF In

LEMMA InboxKeeps ==
    ASSUME TypeInv, [Next]_vars, NEW c \in Clients, NEW i \in DOMAIN inbox[c], ~Drop(c),
           TakeSnapshot(c) \/ TakeMutation(c) \/ TakeError(c) => i # 1
    PROVE  In(inbox[c][i], inbox'[c])
<1>1. inbox \in [Clients -> Seq(Message)] /\ emitting \in [Clients -> Seq(Message)]
    BY DEF TypeInv, TypeOK
<1>2. UNCHANGED inbox => In(inbox[c][i], inbox'[c])
    BY DEF In
<1>3. ASSUME NEW a \in Clients, NEW m \in Message, inbox' = [inbox EXCEPT ![a] = Append(@, m)]
      PROVE  In(inbox[c][i], inbox'[c])
    <2>1. CASE c # a
        BY <1>1, <1>3, <2>1 DEF In
    <2>2. CASE c = a
        <3>1. inbox'[c] = Append(inbox[c], m) /\ inbox[c] \in Seq(Message)
            BY <1>1, <1>3, <2>2
        <3> QED BY <3>1, AppendKeeps DEF In
    <2> QED BY <2>1, <2>2
<1>4. ASSUME NEW a \in Clients, Drop(a)
      PROVE  In(inbox[c][i], inbox'[c])
    <2>1. c # a
        BY <1>4
    <2>2. inbox'[c] = inbox[c]
        BY <1>1, <1>4, <2>1 DEF Drop
    <2> QED BY <2>2 DEF In
<1>5. ASSUME NEW a \in Clients, Enter(a)
      PROVE  In(inbox[c][i], inbox'[c])
    <2>1. [k |-> "snapshot", state |-> link[a].state] \in Message
        BY <1>5 DEF Enter, TypeInv, Loaded, Message
    <2> QED BY <1>3, <1>5, <2>1 DEF Enter
<1>6. ASSUME NEW a \in Clients, Handle(a)
      PROVE  In(inbox[c][i], inbox'[c])
    <2>1. \/ UNCHANGED inbox
          \/ \E status \in {403, 409, 500} : Tells(a, status, Head(outbox[a]).old)
        BY <1>6 DEF Handle
    <2>2. ASSUME NEW status \in {403, 409, 500}, Tells(a, status, Head(outbox[a]).old)
          PROVE  UNCHANGED inbox \/ inbox' = [inbox EXCEPT ![a] = Append(@, [k |-> "error", status |-> status])]
        BY <2>2 DEF Tells
    <2>3. \A status \in {403, 409, 500} : [k |-> "error", status |-> status] \in Message
        BY DEF Message
    <2> QED BY <1>2, <1>3, <2>1, <2>2, <2>3
<1>7. ASSUME NEW a \in Clients, Emit(a)
      PROVE  In(inbox[c][i], inbox'[c])
    <2>1. inbox'[c] = inbox[c] \o emitting[a] \/ inbox'[c] = inbox[c]
        BY <1>7 DEF Emit
    <2>2. inbox[c] \in Seq(Message) /\ emitting[a] \in Seq(Message)
        BY <1>1
    <2>3. CASE inbox'[c] = inbox[c]
        BY <2>3 DEF In
    <2>4. CASE inbox'[c] = inbox[c] \o emitting[a]
        <3> DEFINE s == inbox[c]
                   t == emitting[a]
        <3>1. s \in Seq(Message) /\ t \in Seq(Message) /\ i \in DOMAIN s
            BY <2>2
        <3> HIDE DEF s, t
        <3>2. \E j \in DOMAIN (s \o t) : (s \o t)[j] = s[i]
            BY <3>1, ConcatKeeps
        <3> QED BY <2>4, <3>2 DEF In, s, t
    <2> QED BY <2>1, <2>3, <2>4
<1>8. ASSUME NEW a \in Clients, TakeSnapshot(a) \/ TakeMutation(a) \/ TakeError(a)
      PROVE  In(inbox[c][i], inbox'[c])
    <2>1. PICK k : Take(a, k)
        BY <1>8, TakesOne
    <2>2. inbox' = [inbox EXCEPT ![a] = Tail(@)] /\ inbox[a] # <<>>
        BY <2>1 DEF Take
    <2>3. CASE c # a
        BY <1>1, <2>2, <2>3 DEF In
    <2>4. CASE c = a
        <3>1. i # 1 /\ inbox'[c] = Tail(inbox[c]) /\ inbox[c] # <<>> /\ inbox[c] \in Seq(Message)
            BY <1>1, <1>8, <2>2, <2>4
        <3> QED BY <3>1, TailElements DEF In
    <2> QED BY <2>3, <2>4
<1>9. ASSUME NEW a \in Clients, Join(a) \/ Edit(a) \/ Timer(a) \/ Flush(a) \/ ReadCanvas(a) \/ Answer(a) \/ Revoke(a)
      PROVE  UNCHANGED inbox
    BY <1>9 DEF Join, Edit, Timer, Flush, Send, ReadCanvas, Answer, Revoke, net
<1>10. AgentCommit \/ UNCHANGED vars => UNCHANGED inbox
    BY DEF AgentCommit, vars, net
<1>11. ASSUME NEW a \in Clients, Works(a)
       PROVE  In(inbox[c][i], inbox'[c])
    BY <1>2, <1>5, <1>6, <1>7, <1>8, <1>9, <1>11 DEF Works
<1> QED BY <1>2, <1>4, <1>9, <1>10, <1>11 DEF Next

\* A question stays until it is answered.
LEMMA ReadsKeep ==
    ASSUME TypeInv, [Next]_vars, NEW c \in Clients, NEW i \in DOMAIN reads[c], ~Answer(c)
    PROVE  HasKind(reads'[c], reads[c][i].k)
<1>1. reads \in [Clients -> Seq(Read)]
    BY DEF TypeInv, TypeOK
<1>2. UNCHANGED reads => HasKind(reads'[c], reads[c][i].k)
    BY DEF HasKind
<1>3. ASSUME NEW a \in Clients, NEW kind \in {"resync", "refresh"}, Ask(a, kind)
      PROVE  HasKind(reads'[c], reads[c][i].k)
    <2> DEFINE r == [k |-> kind, pending |-> Pending(a), done |-> FALSE, state |-> NoState]
    <2>1. r \in Read /\ reads' = [reads EXCEPT ![a] = Append(@, r)]
        BY <1>3, PendingType DEF Read, Pending, Ask
    <2> HIDE DEF r
    <2>2. CASE c # a
        BY <1>1, <2>1, <2>2 DEF HasKind
    <2>3. CASE c = a
        <3>1. reads'[c] = Append(reads[c], r) /\ reads[c] \in Seq(Read)
            BY <1>1, <2>1, <2>3
        <3>2. i \in DOMAIN reads'[c] /\ reads'[c][i] = reads[c][i]
            BY <2>1, <3>1, AppendKeeps
        <3> QED BY <3>2 DEF HasKind
    <2> QED BY <2>2, <2>3
<1>4. ASSUME NEW a \in Clients, ReadCanvas(a)
      PROVE  HasKind(reads'[c], reads[c][i].k)
    <2>1. PICK n \in DOMAIN reads[a] : reads' = [reads EXCEPT ![a][n].done = TRUE, ![a][n].state = Canvas(a)]
        BY <1>4 DEF ReadCanvas
    <2> DEFINE r == [[reads[a][n] EXCEPT !.done = TRUE] EXCEPT !.state = Canvas(a)]
    <2>2. reads' = [reads EXCEPT ![a] = [reads[a] EXCEPT ![n] = r]]
        <3>1. [[reads EXCEPT ![a][n].done = TRUE] EXCEPT ![a][n].state = Canvas(a)] = [reads EXCEPT ![a] = [reads[a] EXCEPT ![n] = r]]
            BY <1>1
        <3> QED BY <2>1, <3>1
    <2>3. r.k = reads[a][n].k
        <3>1. reads[a] \in Seq(Read)
            BY <1>1
        <3>2. reads[a][n] \in Read
            BY <3>1, Element
        <3> QED BY <3>2 DEF Read
    <2> HIDE DEF r
    <2>4. i \in DOMAIN reads'[c] /\ reads'[c][i].k = reads[c][i].k
        BY <1>1, <2>2, <2>3
    <2> QED BY <2>4 DEF HasKind
<1>5. ASSUME NEW a \in Clients, Answer(a)
      PROVE  HasKind(reads'[c], reads[c][i].k)
    <2>1. c # a
        BY <1>5
    <2>2. reads'[c] = reads[c]
        BY <1>1, <1>5, <2>1 DEF Answer
    <2> QED BY <2>2 DEF HasKind
<1>6. ASSUME NEW a \in Clients, TakeMutation(a) \/ TakeError(a)
      PROVE  HasKind(reads'[c], reads[c][i].k)
    <2>1. UNCHANGED reads \/ Ask(a, "resync")
        BY <1>6 DEF TakeMutation, TakeError
    <2> QED BY <1>2, <1>3, <2>1
<1>7. CASE AgentCommit
    BY <1>3, <1>7, AskerAssumption DEF AgentCommit
<1>8. ASSUME NEW a \in Clients, Join(a) \/ Enter(a) \/ Drop(a) \/ Edit(a) \/ Timer(a) \/ Flush(a) \/ TakeSnapshot(a)
                                \/ Handle(a) \/ Emit(a) \/ Revoke(a)
      PROVE  UNCHANGED reads
    BY <1>8 DEF Join, Enter, Drop, Edit, Timer, Flush, Send, TakeSnapshot, Handle, Emit, Revoke
<1>9. UNCHANGED vars => UNCHANGED reads
    BY DEF vars
<1>10. ASSUME NEW a \in Clients, Works(a)
       PROVE  HasKind(reads'[c], reads[c][i].k)
    BY <1>2, <1>4, <1>5, <1>6, <1>8, <1>10 DEF Works
<1> QED BY <1>2, <1>7, <1>8, <1>9, <1>10 DEF Next

LEMMA AnswerInit == Init => AnswerInv
BY DEF Init, AnswerInv

\* As long as the flight goes on, what was said of it is still to be said.
LEMMA MineStays ==
    ASSUME TypeInv, LineInv, FlightInv, [Next]_vars, NEW c \in Clients, NEW m \in Message, m \in Flying,
           Mine(c, m), flight'[c] = flight[c], flight[c] # NoFlight
    PROVE  Mine(c, m)'
<1>1. rev[c] \in Nat /\ m.rev \in Nat /\ m.k = "mutation" /\ m.by = c /\ m.id = flight[c].id /\ m.rev > rev[c]
    BY MessageFields DEF TypeInv, TypeOK, Mine, Of
<1>2. rev'[c] < m.rev
    <2>1. CASE rev'[c] = rev[c]
        BY <1>1, <2>1
    <2>2. ASSUME NEW i \in DOMAIN inbox[c], Follows(c, inbox[c][i])
          PROVE  rev'[c] < m.rev
        <3> DEFINE n == inbox[c][i]
        <3>1. n.k = "mutation" /\ n.rev = rev[c] + 1 /\ rev'[c] = n.rev /\ ~Own(c, n)
            BY <2>2 DEF Follows
        <3>2. n \in Flying
            BY DEF Flying, Elements
        <3> HIDE DEF n
        <3>3. m.rev # n.rev
            BY <1>1, <3>1, <3>2 DEF FlightInv, OneEach, Same, Own
        <3> QED BY <1>1, <3>1, <3>3
    <2>3. ClientMove(c)
        BY ClientMoves
    <2>4. ~AdoptsSnapshot(c) /\ ~AdoptsRead(c) /\ ~Refused(c) /\ ~Failed(c)
        BY DEF AdoptsSnapshot, AdoptsRead, Adopts, Refused, Failed
    <2> QED BY <2>1, <2>2, <2>3, <2>4 DEF ClientMove, Keeps, Edits, Sends, Idles
<1> QED BY <1>1, <1>2 DEF Mine, Of

\* What the client takes settles its flight, or makes it ask.
LEMMA TakesAnswer ==
    ASSUME TypeInv, FlightInv, NEW c \in Clients, TakeSnapshot(c) \/ TakeMutation(c) \/ TakeError(c),
           Telling(c, inbox[c][1]), flight[c] # NoFlight, flight'[c] = flight[c]
    PROVE  Asking(c)'
<1>1. Got(c) = inbox[c][1] /\ inbox[c] # <<>>
    <2>1. inbox[c] # <<>>
        <3>1. \E k : Take(c, k)
            BY TakesOne
        <3> QED BY <3>1 DEF Take
    <2>2. inbox[c] \in Seq(Message)
        BY DEF TypeInv, TypeOK
    <2> QED BY <2>1, <2>2, TailElements DEF Got
<1>2. Ask(c, "resync") => Asking(c)'
    <2> DEFINE r == [k |-> "resync", pending |-> Pending(c), done |-> FALSE, state |-> NoState]
    <2>1. ASSUME Ask(c, "resync")
          PROVE  Asking(c)'
        <3>1. r \in Read /\ reads' = [reads EXCEPT ![c] = Append(@, r)] /\ r.k = "resync"
            BY <2>1, PendingType DEF Read, Pending, Ask
        <3> HIDE DEF r
        <3>2. reads \in [Clients -> Seq(Read)] /\ reads[c] \in Seq(Read)
            BY DEF TypeInv, TypeOK
        <3>3. reads'[c] = Append(reads[c], r)
            BY <3>1, <3>2
        <3>4. Len(reads[c]) + 1 \in DOMAIN reads'[c] /\ reads'[c][Len(reads[c]) + 1] = r
            <4>1. DOMAIN reads'[c] = 1..Len(reads[c]) + 1 /\ Len(reads[c]) \in Nat
                BY <3>1, <3>2, <3>3, Appended
            <4>2. reads'[c][Len(reads[c]) + 1] = r
                BY <3>1, <3>2, <3>3, Appended
            <4> QED BY <4>1, <4>2
        <3> QED BY <3>1, <3>4 DEF Asking
    <2> QED BY <2>1
<1>3. DOMAIN flight = Clients
    BY DEF TypeInv, TypeOK
<1>4. CASE TakeSnapshot(c)
    <2>1. flight' = [flight EXCEPT ![c] = NoFlight]
        BY <1>4 DEF TakeSnapshot, Snapshot
    <2> QED BY <1>3, <2>1
<1>5. CASE TakeError(c)
    <2>1. Ask(c, "resync") \/ flight' = [flight EXCEPT ![c] = NoFlight]
        BY <1>5 DEF TakeError
    <2> QED BY <1>2, <1>3, <2>1
<1>6. CASE TakeMutation(c)
    <2> DEFINE m == Got(c)
    <2>1. Take(c, "mutation")
        BY <1>6 DEF TakeMutation
    <2>2. m.k = "mutation" /\ m \in Message
        BY <2>1, TakeType
    <2>3. Mine(c, m)
        BY <1>1, <2>2 DEF Telling
    <2>4. m.rev \in Nat /\ rev[c] \in Nat /\ m.rev > rev[c] /\ Own(c, m) /\ base[c] # NoDoc
        BY <2>2, <2>3, MessageFields DEF Mine, Of, Own, FlightInv, FlightFits, TypeInv, TypeOK
    <2>5. ~Known(c, m)
        BY <2>4 DEF Known
    <2>6. Ask(c, "resync") \/ flight' = [flight EXCEPT ![c] = NoFlight]
        BY <1>6, <2>4, <2>5 DEF TakeMutation
    <2> QED BY <1>2, <1>3, <2>6
<1> QED BY <1>4, <1>5, <1>6

\* What a connection sends to a client that is connected reaches it.
LEMMA ToldComes ==
    ASSUME TypeInv, NEW c \in Clients, NEW status \in {403, 409, 500}, NEW old, ~old,
           Tells(c, status, old), link[c].st = "open"
    PROVE  Coming(c)'
<1> DEFINE m == [k |-> "error", status |-> status]
<1>1. inbox' = [inbox EXCEPT ![c] = Append(@, m)]
    BY DEF Tells
<1>2. m \in Message /\ m.k = "error"
    BY DEF Message
<1> HIDE DEF m
<1>3. inbox \in [Clients -> Seq(Message)] /\ inbox[c] \in Seq(Message)
    BY DEF TypeInv, TypeOK
<1>4. inbox'[c] = Append(inbox[c], m)
    BY <1>1, <1>3
<1>5. Len(inbox[c]) + 1 \in DOMAIN inbox'[c] /\ inbox'[c][Len(inbox[c]) + 1] = m
    <2>1. DOMAIN inbox'[c] = 1..Len(inbox[c]) + 1 /\ Len(inbox[c]) \in Nat
        BY <1>2, <1>3, <1>4, Appended
    <2>2. inbox'[c][Len(inbox[c]) + 1] = m
        BY <1>2, <1>3, <1>4, Appended
    <2> QED BY <2>1, <2>2
<1> QED BY <1>2, <1>5 DEF Coming, Telling

LEMMA EnterComes ==
    ASSUME TypeInv, NEW c \in Clients, Enter(c)
    PROVE  \E i \in DOMAIN inbox'[c] : inbox'[c][i].k = "snapshot"
<1> DEFINE m == [k |-> "snapshot", state |-> link[c].state]
<1>1. inbox' = [inbox EXCEPT ![c] = Append(@, m)]
    BY DEF Enter
<1>2. m \in Message /\ m.k = "snapshot"
    BY DEF Message, Enter, TypeInv, Loaded
<1> HIDE DEF m
<1>3. inbox \in [Clients -> Seq(Message)] /\ inbox[c] \in Seq(Message)
    BY DEF TypeInv, TypeOK
<1>4. inbox'[c] = Append(inbox[c], m)
    BY <1>1, <1>3
<1>5. Len(inbox[c]) + 1 \in DOMAIN inbox'[c] /\ inbox'[c][Len(inbox[c]) + 1] = m
    <2>1. DOMAIN inbox'[c] = 1..Len(inbox[c]) + 1 /\ Len(inbox[c]) \in Nat
        BY <1>2, <1>3, <1>4, Appended
    <2>2. inbox'[c][Len(inbox[c]) + 1] = m
        BY <1>2, <1>3, <1>4, Appended
    <2> QED BY <2>1, <2>2
<1> QED BY <1>2, <1>5

\* The four ways an answer is under way, one step further.
LEMMA WithServerStep ==
    ASSUME TypeInv, LineInv, FlightInv, [Next]_vars, NEW c \in Clients, WithServer(c),
           flight'[c] = flight[c], flight[c] # NoFlight, link[c].st = "open", ~Drop(c)
    PROVE  Answered(c)'
<1>1. PICK i \in DOMAIN outbox[c] : outbox[c][i].m.id = flight[c].id /\ ~outbox[c][i].old
    BY DEF WithServer
<1>2. CASE Handle(c) => i # 1
    <2>1. In(outbox[c][i], outbox'[c])
        BY <1>2, OutboxKeeps
    <2> QED BY <1>1, <2>1 DEF In, WithServer, Answered
<1>3. CASE Handle(c) /\ i = 1
    <2> DEFINE q == outbox[c][1].m
               m == [k |-> "mutation", by |-> c, id |-> q.id, rev |-> Revision + 1, patch |-> q.patch]
    <2>1. Head(outbox[c]) = outbox[c][1]
        <3>1. outbox[c] # <<>> /\ outbox[c] \in Seq(Parcel)
            BY <1>3, OutboxType DEF Handle, TypeInv
        <3> QED BY <3>1, TailElements
    <2>2. ~outbox[c][1].old
        BY <1>1, <1>3
    <2>3. CASE \E status \in {403, 409, 500} : Tells(c, status, Head(outbox[c]).old)
        <3>1. Coming(c)'
            BY <2>1, <2>2, <2>3, ToldComes
        <3> QED BY <3>1 DEF Answered
    <2>4. CASE emitting' = [emitting EXCEPT ![c] = <<m>>]
        <3>1. m.k = "mutation" /\ m.by = c /\ m.id = q.id /\ m.rev = Revision + 1
            OBVIOUS
        <3>2. rev'[c] = rev[c]
            BY <1>3 DEF Handle, client
        <3>3. rev[c] \in 0..Revision
            <4>1. base[c] # NoDoc
                BY DEF FlightInv, FlightFits
            <4> QED BY <4>1 DEF LineInv, BaseFits
        <3> HIDE DEF m
        <3>4. PICK n : n = m /\ emitting'[c] = <<n>>
            <4>1. emitting'[c] = <<m>>
                BY <2>4 DEF TypeInv, TypeOK
            <4> QED BY <4>1
        <3>5. Revision \in Int
            BY CanvasType
        <3>6. Mine(c, n)'
            <4>1. n.k = "mutation" /\ n.by = c /\ n.id = flight'[c].id /\ n.rev = Revision + 1
                BY <1>1, <1>3, <3>1, <3>4
            <4>2. n.rev > rev'[c]
                BY <3>2, <3>3, <3>5, <4>1
            <4> QED BY <4>1, <4>2 DEF Mine, Of
        <3>7. 1 \in DOMAIN emitting'[c] /\ emitting'[c][1] = n
            BY <3>4
        <3>8. Mine(c, emitting[c][1])'
            BY <3>6, <3>7 DEF Mine, Of
        <3> QED BY <3>7, <3>8 DEF Committed, Answered
    <2>5. (\E status \in {403, 409, 500} : Tells(c, status, Head(outbox[c]).old)) \/ emitting' = [emitting EXCEPT ![c] = <<m>>]
        BY <1>3, <2>1 DEF Handle
    <2> QED BY <2>3, <2>4, <2>5
<1> QED BY <1>2, <1>3

LEMMA CommittedStep ==
    ASSUME TypeInv, LineInv, FlightInv, [Next]_vars, NEW c \in Clients, Committed(c),
           flight'[c] = flight[c], flight[c] # NoFlight, link[c].st = "open"
    PROVE  Answered(c)'
<1>1. PICK i \in DOMAIN emitting[c] : Mine(c, emitting[c][i])
    BY DEF Committed
<1>2. PICK m : m = emitting[c][i]
    OBVIOUS
<1>3. m \in Message /\ m \in Flying
    <2>1. emitting[c] \in Seq(Message)
        BY DEF TypeInv, TypeOK
    <2>2. m \in Message
        BY <1>2, <2>1, Element
    <2>3. m \in Flying
        BY <1>2 DEF Flying, Elements
    <2> QED BY <2>2, <2>3
<1>4. Mine(c, m)'
    BY <1>1, <1>2, <1>3, MineStays
<1>5. CASE ~Emit(c)
    <2>1. emitting'[c] = emitting[c]
        BY <1>5, EmittingKeeps
    <2>2. Mine(c, emitting[c][i])'
        BY <1>2, <1>4, <2>1 DEF Mine, Of
    <2> QED BY <2>1, <2>2 DEF Committed, Answered
<1>6. CASE Emit(c)
    <2> DEFINE s == inbox[c]
               t == emitting[c]
    <2>1. inbox'[c] = s \o t
        BY <1>6 DEF Emit
    <2>2. s \in Seq(Message) /\ t \in Seq(Message) /\ i \in DOMAIN t /\ m = t[i]
        BY <1>2 DEF TypeInv, TypeOK
    <2>3. In(t[i], s \o t)
        BY <2>2, InConcat
    <2>4. In(m, inbox'[c])
        BY <2>1, <2>2, <2>3
    <2>. PICK j \in DOMAIN inbox'[c] : inbox'[c][j] = m
        BY <2>4 DEF In
    <2>5. Mine(c, inbox[c][j])'
        BY <1>4, <2>4 DEF Mine, Of
    <2> QED BY <2>4, <2>5 DEF Telling, Coming, Answered
<1> QED BY <1>5, <1>6

LEMMA ComingStep ==
    ASSUME TypeInv, LineInv, FlightInv, [Next]_vars, NEW c \in Clients, Coming(c),
           flight'[c] = flight[c], flight[c] # NoFlight, ~Drop(c)
    PROVE  Answered(c)'
<1>1. PICK i \in DOMAIN inbox[c] : Telling(c, inbox[c][i])
    BY DEF Coming
<1>2. CASE TakeSnapshot(c) \/ TakeMutation(c) \/ TakeError(c) => i # 1
    <2>1. In(inbox[c][i], inbox'[c])
        BY <1>2, InboxKeeps
    <2>2. PICK j \in DOMAIN inbox'[c] : inbox'[c][j] = inbox[c][i]
        BY <2>1 DEF In
    <2>3. PICK m : m = inbox[c][i]
        OBVIOUS
    <2>4. m \in Message /\ m \in Flying
        <3>1. inbox[c] \in Seq(Message)
            BY DEF TypeInv, TypeOK
        <3>2. m \in Message
            BY <2>3, <3>1, Element
        <3>3. m \in Flying
            BY <2>3 DEF Flying, Elements
        <3> QED BY <3>2, <3>3
    <2>5. m.k \in {"snapshot", "error"} \/ Mine(c, m)'
        BY <1>1, <2>3, <2>4, MineStays DEF Telling
    <2>6. Telling(c, inbox[c][j])'
        BY <2>2, <2>3, <2>5 DEF Telling, Mine, Of
    <2> QED BY <2>2, <2>6 DEF Coming, Answered
<1>3. CASE (TakeSnapshot(c) \/ TakeMutation(c) \/ TakeError(c)) /\ i = 1
    <2>1. Asking(c)'
        BY <1>1, <1>3, TakesAnswer
    <2> QED BY <2>1 DEF Answered
<1> QED BY <1>2, <1>3

LEMMA AskingStep ==
    ASSUME TypeInv, [Next]_vars, NEW c \in Clients, Asking(c), ~Fails("read"),
           flight'[c] = flight[c], flight[c] # NoFlight
    PROVE  Asking(c)'
<1>1. PICK i \in DOMAIN reads[c] : reads[c][i].k = "resync"
    BY DEF Asking
<1>2. CASE ~Answer(c)
    <2>1. HasKind(reads'[c], "resync")
        BY <1>1, <1>2, ReadsKeep
    <2> QED BY <2>1 DEF HasKind, Asking
<1>3. CASE Answer(c)
    <2>1. PICK n \in DOMAIN reads[c] :
              LET r == reads[c][n]
              IN  /\ reads' = [reads EXCEPT ![c] = Without(@, n)]
                  /\ \/ r.k = "resync" /\ flight' = [flight EXCEPT ![c] = NoFlight]
                     \/ r.k = "refresh"
        BY <1>3 DEF Answer
    <2>2. reads \in [Clients -> Seq(Read)] /\ reads[c] \in Seq(Read) /\ DOMAIN flight = Clients
        BY DEF TypeInv, TypeOK
    <2>3. reads[c][n].k = "refresh"
        BY <2>1, <2>2
    <2>4. i # n
        BY <1>1, <2>3
    <2>5. \E j \in DOMAIN Without(reads[c], n) : Without(reads[c], n)[j] = reads[c][i]
        BY <2>2, <2>4, WithoutKeeps
    <2>6. reads'[c] = Without(reads[c], n)
        BY <2>1, <2>2
    <2> QED BY <1>1, <2>5, <2>6 DEF Asking
<1> QED BY <1>2, <1>3

LEMMA AnswerStep ==
    ASSUME TypeInv, LineInv, FlightInv, AnswerInv, [Next]_vars
    PROVE  AnswerInv'
<1> SUFFICES ASSUME NEW c \in Clients, flight'[c] # NoFlight, link'[c].st = "open", ~Fails("read")'
             PROVE  Answered(c)'
    BY DEF AnswerInv
<1>1. ~Fails("read")
    BY Growing DEF Grows, Fails
<1>2. CASE Sends(c)
    <2> DEFINE q == [m |-> Request(c), old |-> FALSE]
    <2>1. outbox'[c] = Append(outbox[c], q) /\ flight'[c].id = sent[c] + 1 /\ base[c] # NoDoc
        BY <1>2 DEF Sends
    <2>2. q \in Parcel
        BY <2>1, RequestType
    <2>3. q.m.id = flight'[c].id /\ ~q.old
        BY <2>1 DEF Request
    <2> HIDE DEF q
    <2>4. outbox[c] \in Seq(Parcel)
        BY OutboxType DEF TypeInv
    <2>5. Len(outbox[c]) + 1 \in DOMAIN outbox'[c] /\ outbox'[c][Len(outbox[c]) + 1] = q
        <3>1. DOMAIN outbox'[c] = 1..Len(outbox[c]) + 1 /\ Len(outbox[c]) \in Nat
            BY <2>1, <2>2, <2>4, Appended
        <3>2. outbox'[c][Len(outbox[c]) + 1] = q
            BY <2>1, <2>2, <2>4, Appended
        <3> QED BY <3>1, <3>2
    <2> QED BY <2>3, <2>5 DEF WithServer, Answered
<1>3. CASE flight'[c] = flight[c]
    <2>1. CASE Enter(c)
        BY <2>1, EnterComes DEF Telling, Coming, Answered
    <2>2. CASE ~Enter(c)
        <3>1. link[c].st = "open" /\ ~Drop(c)
            <4>1. link'[c] = link[c]
                BY <2>2, LinkMoves DEF LinkMove
            <4>2. ~Drop(c)
                <5>1. Drop(c) => link'[c].st = "closed"
                    BY DEF Drop, TypeInv, TypeOK
                <5> QED BY <5>1
            <4> QED BY <4>1, <4>2
        <3>2. Answered(c)
            BY <1>1, <1>3, <3>1 DEF AnswerInv
        <3> QED BY <1>1, <1>3, <3>1, <3>2, WithServerStep, CommittedStep, ComingStep, AskingStep DEF Answered
    <2> QED BY <2>1, <2>2
<1> QED BY <1>2, <1>3, FlightMoves

\* A mutation in flight is always going to be answered: it is with the server,
\* its broadcast or refusal is on the way, or the canvas is being read.
THEOREM FlightIsAnswered == Spec => []InFlightAnswered
<1>1. Init => TypeInv /\ LineInv /\ FlightInv /\ AnswerInv
    BY TypeInit, LineInit, FlightInit, AnswerInit
<1>2. TypeInv /\ LineInv /\ FlightInv /\ AnswerInv /\ [Next]_vars => (TypeInv /\ LineInv /\ FlightInv /\ AnswerInv)'
    BY TypeStep, LineStep, FlightStep, AnswerStep
<1>3. AnswerInv => InFlightAnswered
    <2> SUFFICES ASSUME AnswerInv, NEW c \in Clients, flight[c] # NoFlight, link[c].st = "open", faults \cap {"read"} = {}
                 PROVE  \/ \E i \in DOMAIN outbox[c] : outbox[c][i].m.id = flight[c].id
                        \/ emitting[c] # <<>>
                        \/ \E i \in DOMAIN inbox[c] : inbox[c][i].k \in {"snapshot", "error"} \/ (inbox[c][i].k = "mutation" /\ inbox[c][i].rev > rev[c])
                        \/ \E i \in DOMAIN reads[c] : reads[c][i].k = "resync"
        BY DEF InFlightAnswered
    <2>1. Answered(c)
        BY DEF AnswerInv, Fails
    <2> QED BY <2>1 DEF Answered, WithServer, Committed, Coming, Telling, Asking, Mine, Of
<1> QED BY <1>1, <1>2, <1>3, PTL DEF Spec

----------------------------------------------------------------------------
(* What is not saved is due *)

\* Nothing but a snapshot on its way will make the client send what it holds.
Quiet(c) ==
    /\ base[c] # NoDoc /\ doc[c] # base[c] /\ can[c]
    /\ ~due[c] /\ flight[c] = NoFlight /\ link[c].st = "open"
DueInv == ~Fails("server") => \A c \in Clients : Quiet(c) => HasKind(inbox[c], "snapshot")

LEMMA DueInit ==
    ASSUME Init
    PROVE  DueInv
BY DEF Init, DueInv, Quiet

LEMMA NothingPending ==
    ASSUME TypeInv, NEW c \in Clients, base[c] # NoDoc, doc[c] # base[c]
    PROVE  ~Empty(Diff(base[c], doc[c]))
<1>1. base[c] \in Docs /\ doc[c] \in Docs
    BY DEF TypeInv, TypeOK, Loaded
<1>2. PICK x \in Cells : base[c][x] # doc[c][x]
    BY <1>1 DEF Docs
<1>3. x \in DOMAIN Diff(base[c], doc[c])
    BY <1>2 DEF Diff
<1> QED BY <1>3 DEF Empty

\* A client that stays quiet was so before, or its connection opens.
LEMMA QuietMoves ==
    ASSUME TypeInv, LineInv, [Next]_vars, NEW c \in Clients, ~Fails("server"), Quiet(c)'
    PROVE  Keeps(c) /\ (Quiet(c) \/ Enter(c))
<1>1. /\ base'[c] # NoDoc /\ doc'[c] # base'[c] /\ can'[c]
      /\ ~due'[c] /\ flight'[c] = NoFlight /\ link'[c].st = "open"
    BY DEF Quiet
<1>2. ~Edits(c) /\ ~Refused(c)
    BY <1>1 DEF Edits, Refused
<1>3. ~Sends(c)
    <2>1. flight'[c].id = 0
        BY <1>1 DEF NoFlight
    <2>2. sent[c] + 1 # 0
        BY DEF TypeInv, TypeOK
    <2> QED BY <2>1, <2>2 DEF Sends
<1>4. ~Failed(c)
    BY DEF Failed, LineInv, InboxFits, MessageFits
<1>5. ~AdoptsSnapshot(c) /\ ~AdoptsRead(c)
    BY <1>1 DEF AdoptsSnapshot, AdoptsRead, Adopts
<1>6. ASSUME NEW i \in DOMAIN inbox[c], Follows(c, inbox[c][i])
      PROVE  FALSE
    BY <1>1, <1>6 DEF Follows
<1>7. link[c].st # "closed"
    BY <1>1, LinkMoves DEF LinkMove
<1>8. ~Idles(c)
    <2> SUFFICES ASSUME Idles(c)
                 PROVE  FALSE
        OBVIOUS
    <2>1. base[c] # NoDoc /\ doc[c] # base[c] /\ can[c] /\ flight[c] = NoFlight
        BY <1>1 DEF Idles
    <2> QED BY <1>7, <2>1, NothingPending DEF Idles
<1>9. Keeps(c)
    BY <1>2, <1>3, <1>4, <1>5, <1>6, <1>8, ClientMoves DEF ClientMove
<1>10. CASE ~Enter(c)
    <2>1. link'[c] = link[c]
        BY <1>1, <1>10, LinkMoves DEF LinkMove
    <2> QED BY <1>1, <1>9, <2>1 DEF Quiet, Keeps
<1> QED BY <1>9, <1>10

LEMMA DueStep ==
    ASSUME TypeInv, LineInv, DueInv, [Next]_vars
    PROVE  DueInv'
<1> SUFFICES ASSUME NEW c \in Clients, ~Fails("server")', Quiet(c)'
             PROVE  HasKind(inbox[c], "snapshot")'
    BY DEF DueInv
<1>1. ~Fails("server")
    BY Growing DEF Grows, Fails
<1>2. Keeps(c) /\ (Quiet(c) \/ Enter(c))
    BY <1>1, QuietMoves
<1>3. CASE Enter(c)
    BY <1>3, EnterComes DEF HasKind
<1>4. CASE Quiet(c)
    <2>1. PICK i \in DOMAIN inbox[c] : inbox[c][i].k = "snapshot"
        BY <1>1, <1>4 DEF DueInv, HasKind
    <2>2. ~Drop(c)
        <3>1. Drop(c) => link'[c].st = "closed"
            BY DEF Drop, TypeInv, TypeOK
        <3> QED BY <3>1 DEF Quiet
    <2>3. ~TakeSnapshot(c)
        <3> SUFFICES ASSUME TakeSnapshot(c)
                     PROVE  FALSE
            OBVIOUS
        <3>1. Take(c, "snapshot") /\ Snapshot(c, Got(c).state)
            BY DEF TakeSnapshot
        <3>2. Got(c).state \in State
            BY <3>1, TakeType, MessageFields
        <3>3. PICK s : s = Got(c).state
            OBVIOUS
        <3>4. Adopts(c, s, Pending(c))
            BY <3>1, <3>2, <3>3, SnapshotMove DEF State
        <3> QED BY <3>4 DEF Adopts, Quiet
    <2>4. CASE TakeMutation(c) \/ TakeError(c)
        <3>1. inbox[c][1].k # "snapshot"
            <4>1. PICK k \in {"mutation", "error"} : Take(c, k)
                BY <2>4 DEF TakeMutation, TakeError
            <4>2. Got(c).k # "snapshot" /\ inbox[c] # <<>>
                BY <4>1 DEF Take
            <4>3. inbox[c] \in Seq(Message)
                BY DEF TypeInv, TypeOK
            <4> QED BY <4>2, <4>3, TailElements DEF Got
        <3> QED BY <2>1, <2>2, <2>3, <3>1, InboxKeeps DEF In, HasKind
    <2>5. CASE ~(TakeMutation(c) \/ TakeError(c))
        BY <2>1, <2>2, <2>3, <2>5, InboxKeeps DEF In, HasKind
    <2> QED BY <2>4, <2>5
<1> QED BY <1>2, <1>3, <1>4

\* Edits not saved yet do not wait for the next one: a timer runs, a mutation
\* is in flight or the canvas is read (currentDocument effect, applyMutation).
THEOREM UnsavedDue == Spec => []UnsavedIsDue
<1>1. Init => TypeInv /\ LineInv /\ DueInv
    BY TypeInit, LineInit, DueInit
<1>2. TypeInv /\ LineInv /\ DueInv /\ [Next]_vars => (TypeInv /\ LineInv /\ DueInv)'
    BY TypeStep, LineStep, DueStep
<1>3. DueInv => UnsavedIsDue
    <2> SUFFICES ASSUME DueInv, faults \cap {"read", "server"} = {}, NEW c \in Clients,
                        base[c] # NoDoc, doc[c] # base[c], can[c], ~due[c], flight[c] = NoFlight,
                        link[c].st = "open"
                 PROVE  inbox[c] # <<>>
        BY DEF UnsavedIsDue
    <2>1. HasKind(inbox[c], "snapshot")
        BY DEF DueInv, Quiet, Fails
    <2> QED BY <2>1 DEF HasKind
<1> QED BY <1>1, <1>2, <1>3, PTL DEF Spec

----------------------------------------------------------------------------
(* What becomes of an edit *)

\* A patch that gives a cell a value; a client that shows it there, and whose
\* resync, if one is under way, will put it there again.
Puts(p, x, n) == x \in DOMAIN p /\ p[x] = n
Holds(c, x, n) ==
    /\ base[c] # NoDoc /\ doc[c][x] = n
    /\ \A i \in DOMAIN reads[c] : reads[c][i].k = "resync" => Puts(reads[c][i].pending, x, n)

\* A later edit of the same person gives the cell another value.
Replaced(n) == \E m \in n + 1..Len(edits) : edits[m].by = edits[n].by /\ edits[m].cell = edits[n].cell
Settled(n) ==
    \/ Recorded(edits[n].cell, n)
    \/ Replaced(n)
    \/ edits[n].by \in Clients /\ ~editor[edits[n].by]
KeepInv ==
    \A n \in DOMAIN edits :
        edits[n].late \/ Settled(n) \/ (edits[n].by \in Clients /\ Holds(edits[n].by, edits[n].cell, n))

Deed == [by : Clients \cup {"agent"}, cell : Cells, late : BOOLEAN]

LEMMA KeepInit ==
    ASSUME Init
    PROVE  KeepInv
BY DEF Init, KeepInv

LEMMA EditsType ==
    ASSUME TypeInv
    PROVE  edits \in Seq(Deed) /\ Len(edits) \in Nat /\ DOMAIN edits = 1..Len(edits)
<1>1. edits \in Seq(Deed)
    BY DEF TypeInv, TypeOK, Deed
<1> QED BY <1>1

LEMMA PutsApplied ==
    ASSUME NEW d, NEW p, NEW x \in Cells, NEW n, Puts(p, x, n)
    PROVE  Apply(d, p)[x] = n
BY DEF Puts, Apply

LEMMA DiffPuts ==
    ASSUME NEW a, NEW b, NEW x \in Cells, a[x] # b[x]
    PROVE  Puts(Diff(a, b), x, b[x])
BY DEF Puts, Diff

LEMMA BaseRecorded ==
    ASSUME TypeInv, LineInv, NEW c \in Clients, base[c] # NoDoc, NEW x \in Cells
    PROVE  Recorded(x, base[c][x])
<1>1. rev[c] \in 0..Revision /\ base[c] = history[rev[c] + 1]
    BY DEF LineInv, BaseFits
<1>2. rev[c] + 1 \in DOMAIN history
    <2>1. history \in Seq(Docs) /\ history # <<>>
        BY DEF TypeInv, TypeOK, Loaded
    <2> QED BY <1>1, <2>1 DEF Revision
<1> QED BY <1>1, <1>2 DEF Recorded

\* What the server does not have and the client shows is pending.
LEMMA PendingPuts ==
    ASSUME TypeInv, LineInv, NEW c \in Clients, base[c] # NoDoc, NEW x \in Cells, NEW n,
           doc[c][x] = n, ~Recorded(x, n)
    PROVE  Puts(Pending(c), x, n)
<1>1. base[c][x] # doc[c][x]
    BY BaseRecorded
<1> QED BY <1>1, DiffPuts DEF Pending

LEMMA NoDocApart ==
    ASSUME NEW d \in Docs, NEW x \in Cells
    PROVE  d # NoDoc
<1>1. d[x] \in 0..MaxEdits
    BY DEF Docs
<1>2. NoDoc[x] = MaxEdits + 1
    BY DEF NoDoc
<1> QED BY <1>1, <1>2, BoundsAssumption

\* The next mutation takes nothing away that the server does not have.
LEMMA FollowsHolds ==
    ASSUME TypeInv, LineInv, FlightInv, NEW c \in Clients, NEW i \in DOMAIN inbox[c],
           Follows(c, inbox[c][i]), can[c], NEW x \in Cells, NEW n, doc[c][x] = n, ~Recorded(x, n)
    PROVE  doc'[c][x] = n
<1>1. PICK m : m = inbox[c][i]
    OBVIOUS
<1>2. m.k = "mutation" /\ ~Known(c, m)
    BY <1>1 DEF Follows
<1>3. doc'[c] = Apply(Apply(base[c], m.patch), Diff(IF Own(c, m) THEN flight[c].target ELSE base[c], doc[c]))
    BY <1>1 DEF Follows
<1>4. CASE ~Own(c, m)
    <2>1. base[c][x] # doc[c][x]
        BY <1>2, BaseRecorded DEF Known
    <2>2. Puts(Diff(base[c], doc[c]), x, n)
        BY <2>1, DiffPuts
    <2> QED BY <1>3, <1>4, <2>2, PutsApplied
<1>5. CASE Own(c, m)
    <2>1. flight[c].target[x] # n
        <3>1. Leads(m, flight[c].target)
            BY <1>1, <1>2, <1>5 DEF FlightInv, InboxMatches, Matches, Of, Own
        <3>2. CASE x \notin DOMAIN m.patch
            BY <3>1, <3>2 DEF Leads
        <3>3. CASE x \in DOMAIN m.patch
            <4>1. m.patch[x] = flight[c].target[x]
                BY <3>1, <3>3 DEF Leads
            <4>2. m.rev \in 1..Revision /\ history[m.rev + 1] = Apply(history[m.rev], m.patch)
                BY <1>1, <1>2 DEF LineInv, InboxFits, MessageFits, Change
            <4>3. history[m.rev + 1][x] = m.patch[x]
                BY <3>3, <4>2 DEF Apply
            <4>4. m.rev + 1 \in DOMAIN history
                <5>1. history \in Seq(Docs) /\ history # <<>>
                    BY DEF TypeInv, TypeOK, Loaded
                <5> QED BY <4>2, <5>1 DEF Revision
            <4> QED BY <4>1, <4>3, <4>4 DEF Recorded
        <3> QED BY <3>2, <3>3
    <2>2. Puts(Diff(flight[c].target, doc[c]), x, n)
        BY <2>1, DiffPuts
    <2> QED BY <1>3, <1>5, <2>2, PutsApplied
<1> QED BY <1>4, <1>5

\* The client edits the cell itself, or shows what it did.
LEMMA DocHolds ==
    ASSUME TypeInv, LineInv, FlightInv, [Next]_vars, NEW c \in Clients, editor[c],
           NEW x \in Cells, NEW n, Holds(c, x, n), ~Recorded(x, n)
    PROVE  \/ base'[c] # NoDoc /\ doc'[c][x] = n
           \/ \E l : edits' = Append(edits, [by |-> c, cell |-> x, late |-> l])
<1>1. base[c] # NoDoc /\ doc[c][x] = n
    BY DEF Holds
<1>2. can[c]
    BY <1>1 DEF LineInv, CanFits
<1>3. ASSUME NEW s, NEW p, Past(c, s), s.doc \in Docs, Adopts(c, s, p), Puts(p, x, n)
      PROVE  base'[c] # NoDoc /\ doc'[c][x] = n
    <2>1. s.can
        BY <1>3 DEF Past
    <2>2. doc'[c] = Apply(s.doc, p) /\ base'[c] = s.doc
        BY <1>3, <2>1 DEF Adopts
    <2> QED BY <1>3, <2>2, PutsApplied, NoDocApart
<1>4. Puts(Pending(c), x, n)
    BY <1>1, PendingPuts
<1>5. CASE AdoptsSnapshot(c)
    <2>1. PICK i \in DOMAIN inbox[c] : inbox[c][i].k = "snapshot" /\ Adopts(c, inbox[c][i].state, Pending(c))
        BY <1>5 DEF AdoptsSnapshot
    <2>2. Past(c, inbox[c][i].state)
        BY <2>1 DEF LineInv, InboxFits, MessageFits
    <2>3. inbox[c][i].state.doc \in Docs
        <3>1. inbox[c] \in Seq(Message)
            BY DEF TypeInv, TypeOK
        <3> QED BY <2>1, <3>1, Element, MessageFields, StateFields
    <2> QED BY <1>3, <1>4, <2>1, <2>2, <2>3
<1>6. CASE AdoptsRead(c)
    <2>1. PICK i \in DOMAIN reads[c] :
              /\ reads[c][i].done
              /\ \/ Adopts(c, reads[c][i].state, Pending(c))
                 \/ reads[c][i].k = "resync" /\ Adopts(c, reads[c][i].state, reads[c][i].pending)
        BY <1>6 DEF AdoptsRead
    <2>2. Past(c, reads[c][i].state)
        BY <2>1 DEF LineInv, ReadsFit
    <2>3. reads[c][i].state.doc \in Docs
        BY <2>1, StateFields DEF TypeInv, Loaded
    <2>4. reads[c][i].k = "resync" => Puts(reads[c][i].pending, x, n)
        BY DEF Holds
    <2> QED BY <1>3, <1>4, <2>1, <2>2, <2>3, <2>4
<1>7. ASSUME NEW i \in DOMAIN inbox[c], Follows(c, inbox[c][i])
      PROVE  base'[c] # NoDoc /\ doc'[c][x] = n
    <2>1. doc'[c][x] = n
        BY <1>1, <1>2, <1>7, FollowsHolds
    <2>2. base'[c] = Apply(base[c], inbox[c][i].patch)
        BY <1>7 DEF Follows
    <2>3. base[c] \in Docs /\ inbox[c][i].patch \in Patches
        <3>1. inbox[c] \in Seq(Message)
            BY DEF TypeInv, TypeOK
        <3>2. inbox[c][i].k = "mutation"
            BY <1>7 DEF Follows
        <3>3. base[c] \in Docs
            BY <1>1 DEF TypeInv, TypeOK
        <3> QED BY <3>1, <3>2, <3>3, Element, MessageFields
    <2> QED BY <2>1, <2>2, <2>3, ApplyType, NoDocApart
<1>8. CASE Edits(c)
    <2>1. PICK y \in Cells :
              /\ doc'[c] = [doc[c] EXCEPT ![y] = Len(edits) + 1]
              /\ edits' = Append(edits, [by |-> c, cell |-> y, late |-> \E i \in DOMAIN reads[c] : reads[c][i].k = "resync"])
        BY <1>8 DEF Edits
    <2>2. base'[c] # NoDoc
        BY <1>8 DEF Edits
    <2>3. doc[c] \in Docs
        BY <1>1 DEF TypeInv, Loaded
    <2>4. CASE y # x
        BY <1>1, <2>1, <2>2, <2>3, <2>4 DEF Docs
    <2>5. CASE y = x
        BY <2>1, <2>5
    <2> QED BY <2>4, <2>5
<1>9. ~Refused(c)
    BY DEF Refused, LineInv, InboxFits, MessageFits
<1>10. CASE Keeps(c) \/ Sends(c) \/ Idles(c) \/ Failed(c)
    BY <1>1, <1>10 DEF Keeps, Sends, Idles, Failed
<1> QED BY <1>5, <1>6, <1>7, <1>8, <1>9, <1>10, ClientMoves DEF ClientMove

\* So do the resyncs.
LEMMA ReadsHold ==
    ASSUME TypeInv, LineInv, [Next]_vars, NEW c \in Clients, NEW x \in Cells, NEW n, Holds(c, x, n), ~Recorded(x, n),
           NEW j \in DOMAIN reads'[c], reads'[c][j].k = "resync"
    PROVE  Puts(reads'[c][j].pending, x, n)
<1>1. Puts(Pending(c), x, n)
    BY PendingPuts DEF Holds
<1>2. ReadMove(c, reads'[c][j])
    BY ReadMoves
<1> QED BY <1>1, <1>2 DEF ReadMove, Holds

\* The edits are the same, or one more is made.
EditsMove ==
    \/ UNCHANGED edits
    \/ \E c \in Clients : Edit(c)
    \/ AgentCommit

LEMMA EditsMoves ==
    ASSUME [Next]_vars
    PROVE  EditsMove
<1>1. ASSUME NEW a \in Clients, TakeSnapshot(a) \/ TakeMutation(a) \/ TakeError(a)
      PROVE  UNCHANGED edits
    <2>1. \E k : Take(a, k)
        BY <1>1 DEF TakeSnapshot, TakeMutation, TakeError
    <2> QED BY <2>1 DEF Take, count
<1>2. ASSUME NEW a \in Clients, Join(a) \/ Enter(a) \/ Drop(a) \/ ReadCanvas(a) \/ Answer(a) \/ Handle(a) \/ Emit(a) \/ Revoke(a)
      PROVE  UNCHANGED edits
    BY <1>2 DEF Join, Enter, Drop, ReadCanvas, Answer, Handle, Emit, Revoke, count
<1>3. ASSUME NEW a \in Clients, Timer(a) \/ Flush(a)
      PROVE  UNCHANGED edits
    BY <1>3 DEF Timer, Flush, Send
<1>4. UNCHANGED vars => UNCHANGED edits
    BY DEF vars, count
<1>5. ASSUME NEW a \in Clients, Works(a)
      PROVE  UNCHANGED edits
    BY <1>1, <1>2, <1>3, <1>5 DEF Works
<1> QED BY <1>2, <1>4, <1>5 DEF Next, EditsMove

\* An edit made now is the last one.
LEMMA LastEdit ==
    ASSUME TypeInv, NEW e \in Deed, edits' = Append(edits, e)
    PROVE  /\ DOMAIN edits' = 1..Len(edits) + 1 /\ Len(edits') = Len(edits) + 1
           /\ edits'[Len(edits) + 1] = e
           /\ \A n \in DOMAIN edits : edits'[n] = edits[n]
<1>1. edits \in Seq(Deed)
    BY EditsType
<1> QED BY <1>1, Appended

LEMMA EditsGrow ==
    ASSUME TypeInv, [Next]_vars
    PROVE  /\ Len(edits') \in Nat /\ Len(edits) <= Len(edits')
           /\ \A n \in DOMAIN edits : edits'[n] = edits[n]
<1>1. CASE UNCHANGED edits
    BY <1>1, EditsType
<1>2. ASSUME NEW e \in Deed, edits' = Append(edits, e)
      PROVE  /\ Len(edits') \in Nat /\ Len(edits) <= Len(edits')
             /\ \A n \in DOMAIN edits : edits'[n] = edits[n]
    BY <1>2, LastEdit, EditsType
<1>3. ASSUME NEW c \in Clients, Edit(c)
      PROVE  \E e \in Deed : edits' = Append(edits, e)
    <2>1. PICK x \in Cells : edits' = Append(edits, [by |-> c, cell |-> x, late |-> \E i \in DOMAIN reads[c] : reads[c][i].k = "resync"])
        BY <1>3 DEF Edit
    <2>2. [by |-> c, cell |-> x, late |-> \E i \in DOMAIN reads[c] : reads[c][i].k = "resync"] \in Deed
        BY DEF Deed
    <2> QED BY <2>1, <2>2
<1>4. ASSUME AgentCommit
      PROVE  \E e \in Deed : edits' = Append(edits, e)
    <2>1. PICK x \in Cells : edits' = Append(edits, [by |-> "agent", cell |-> x, late |-> FALSE])
        BY <1>4 DEF AgentCommit
    <2>2. [by |-> "agent", cell |-> x, late |-> FALSE] \in Deed
        BY DEF Deed
    <2> QED BY <2>1, <2>2
<1> QED BY <1>1, <1>2, <1>3, <1>4, EditsMoves DEF EditsMove

LEMMA SettledStays ==
    ASSUME TypeInv, [Next]_vars, NEW n \in DOMAIN edits, Settled(n)
    PROVE  Settled(n)'
<1>1. edits'[n] = edits[n] /\ n \in Nat
    BY EditsGrow, EditsType
<1>2. CASE Recorded(edits[n].cell, n)
    <2>1. PICK x : x = edits[n].cell
        OBVIOUS
    <2>2. Recorded(x, n)'
        BY <1>2, <2>1, Growing, RecordedStays
    <2> QED BY <1>1, <2>1, <2>2 DEF Recorded, Settled
<1>3. CASE Replaced(n)
    <2>1. PICK m \in n + 1..Len(edits) : edits[m].by = edits[n].by /\ edits[m].cell = edits[n].cell
        BY <1>3 DEF Replaced
    <2>2. m \in DOMAIN edits /\ m \in n + 1..Len(edits')
        BY <1>1, <2>1, EditsGrow, EditsType
    <2>3. edits'[m] = edits[m]
        BY <2>2, EditsGrow
    <2> QED BY <1>1, <2>1, <2>2, <2>3 DEF Replaced, Settled
<1>4. CASE edits[n].by \in Clients /\ ~editor[edits[n].by]
    BY <1>1, <1>4, Growing DEF Grows, Settled
<1> QED BY <1>2, <1>3, <1>4 DEF Settled

\* An edit made before this step.
LEMMA OldEditKept ==
    ASSUME TypeInv, LineInv, FlightInv, KeepInv, [Next]_vars, NEW n \in DOMAIN edits
    PROVE  edits'[n].late \/ Settled(n)' \/ (edits'[n].by \in Clients /\ Holds(edits[n].by, edits[n].cell, n)')
<1>1. edits'[n] = edits[n] /\ n \in Nat
    BY EditsGrow, EditsType
<1>2. CASE edits[n].late
    BY <1>1, <1>2
<1>3. CASE Settled(n)
    BY <1>3, SettledStays
<1>4. CASE ~edits[n].late /\ ~Settled(n)
    <2>1. PICK c \in Clients : c = edits[n].by /\ Holds(c, edits[n].cell, n)
        BY <1>4 DEF KeepInv
    <2>2. PICK x \in Cells : x = edits[n].cell
        <3>1. edits[n] \in Deed
            BY EditsType, Element
        <3> QED BY <3>1 DEF Deed
    <2>3. ~Recorded(x, n) /\ editor[c]
        BY <1>4, <2>1, <2>2 DEF Settled
    <2>4. \A j \in DOMAIN reads'[c] : reads'[c][j].k = "resync" => Puts(reads'[c][j].pending, x, n)
        BY <2>1, <2>2, <2>3, ReadsHold
    <2>5. CASE base'[c] # NoDoc /\ doc'[c][x] = n
        <3>1. Holds(c, x, n)'
            BY <2>4, <2>5 DEF Holds
        <3> QED BY <1>1, <2>1, <2>2, <3>1
    <2>6. ASSUME NEW l, edits' = Append(edits, [by |-> c, cell |-> x, late |-> l])
          PROVE  Settled(n)'
        <3> DEFINE e == [by |-> c, cell |-> x, late |-> l]
        <3>1. edits'[Len(edits) + 1] = e /\ Len(edits') = Len(edits) + 1
            BY <2>6, EditsType
        <3>2. Len(edits) + 1 \in n + 1..Len(edits')
            BY <3>1, EditsType
        <3>3. edits'[Len(edits) + 1].by = edits'[n].by /\ edits'[Len(edits) + 1].cell = edits'[n].cell
            BY <1>1, <2>1, <2>2, <3>1
        <3> QED BY <3>2, <3>3 DEF Replaced, Settled
    <2> QED BY <2>1, <2>2, <2>3, <2>5, <2>6, DocHolds
<1> QED BY <1>2, <1>3, <1>4

LEMMA KeepStep ==
    ASSUME TypeInv, LineInv, FlightInv, KeepInv, [Next]_vars
    PROVE  KeepInv'
<1> SUFFICES ASSUME NEW n \in DOMAIN edits'
             PROVE  edits'[n].late \/ Settled(n)' \/ (edits'[n].by \in Clients /\ Holds(edits[n].by, edits[n].cell, n)')
    BY DEF KeepInv
<1>1. CASE n \in DOMAIN edits
    BY <1>1, OldEditKept
<1>2. CASE UNCHANGED edits
    BY <1>1, <1>2
<1>3. ASSUME NEW c \in Clients, Edit(c), n \notin DOMAIN edits
      PROVE  edits'[n].late \/ (edits'[n].by \in Clients /\ Holds(edits[n].by, edits[n].cell, n)')
    <2> DEFINE late == \E i \in DOMAIN reads[c] : reads[c][i].k = "resync"
    <2>1. PICK x \in Cells :
              /\ edits' = Append(edits, [by |-> c, cell |-> x, late |-> late])
              /\ doc' = [doc EXCEPT ![c][x] = Len(edits) + 1]
              /\ base[c] # NoDoc /\ UNCHANGED <<base, reads>>
        BY <1>3 DEF Edit
    <2>2. [by |-> c, cell |-> x, late |-> late] \in Deed
        BY DEF Deed
    <2>3. n = Len(edits) + 1 /\ edits'[n] = [by |-> c, cell |-> x, late |-> late]
        BY <1>3, <2>1, <2>2, LastEdit, EditsType
    <2>4. doc'[c][x] = n
        <3>1. doc \in [Clients -> Docs \cup {NoDoc}] /\ doc[c] \in Docs
            BY <2>1 DEF TypeInv, TypeOK, Loaded
        <3> QED BY <2>1, <2>3, <3>1 DEF Docs
    <2>5. late \/ Holds(c, x, n)'
        BY <2>1, <2>4 DEF Holds
    <2> HIDE DEF late
    <2>6. edits'[n].by = c /\ edits'[n].cell = x /\ edits'[n].late = late
        BY <2>3
    <2> QED BY <2>5, <2>6
<1>4. ASSUME AgentCommit, n \notin DOMAIN edits
      PROVE  Settled(n)'
    <2>1. PICK x \in Cells :
              /\ edits' = Append(edits, [by |-> "agent", cell |-> x, late |-> FALSE])
              /\ history' = Append(history, [history[Len(history)] EXCEPT ![x] = Len(edits) + 1])
              /\ Len(edits) < MaxEdits
        BY <1>4 DEF AgentCommit
    <2>2. [by |-> "agent", cell |-> x, late |-> FALSE] \in Deed
        BY DEF Deed
    <2>3. n = Len(edits) + 1 /\ edits'[n].cell = x
        BY <1>4, <2>1, <2>2, LastEdit, EditsType
    <2>4. Recorded(x, n)'
        <3> DEFINE d == [history[Len(history)] EXCEPT ![x] = n]
        <3>1. history \in Seq(Docs) /\ history[Len(history)] \in Docs
            BY CanvasType, AskerAssumption DEF TypeInv, TypeOK
        <3>2. d[x] = n /\ d \in Docs
            BY <2>1, <2>3, <3>1, EditsType, BoundsAssumption DEF Docs
        <3>3. history' = Append(history, d)
            BY <2>1, <2>3
        <3> HIDE DEF d
        <3>4. Len(history) + 1 \in DOMAIN history' /\ history'[Len(history) + 1] = d
            BY <3>1, <3>2, <3>3, Appended
        <3> QED BY <3>2, <3>4 DEF Recorded
    <2> QED BY <2>3, <2>4 DEF Settled
<1> QED BY <1>1, <1>2, <1>3, <1>4, EditsMoves DEF EditsMove

\* No edit is lost: it is shown, saved, replaced by a later edit of its author,
\* or taken back from somebody who lost the right to edit.
THEOREM NoEditLost == Spec => []EditsKept
<1>1. Init => TypeInv /\ LineInv /\ FlightInv /\ KeepInv
    BY TypeInit, LineInit, FlightInit, KeepInit
<1>2. TypeInv /\ LineInv /\ FlightInv /\ KeepInv /\ [Next]_vars => (TypeInv /\ LineInv /\ FlightInv /\ KeepInv)'
    BY TypeStep, LineStep, FlightStep, KeepStep
<1>3. KeepInv => EditsKept
    <2> SUFFICES ASSUME KeepInv, NEW n \in DOMAIN edits, ~edits[n].late
                 PROVE  Kept(n)
        BY DEF EditsKept
    <2>1. Settled(n) \/ (edits[n].by \in Clients /\ doc[edits[n].by][edits[n].cell] = n)
        BY DEF KeepInv, Holds
    <2> QED BY <2>1 DEF Kept, Settled, Recorded, Replaced
<1> QED BY <1>1, <1>2, <1>3, PTL DEF Spec

================================================================================
