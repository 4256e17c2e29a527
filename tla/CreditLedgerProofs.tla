------------------------- MODULE CreditLedgerProofs -------------------------
(***************************************************************************)
(* Proofs about CreditLedger for every set of accounts, orders, actors and *)
(* references, and all amounts.                                            *)
(***************************************************************************)
EXTENDS CreditLedger, FiniteSetTheorems, TLAPS

\* The reserved balance and the guards of each transaction keep every balance
\* natural, with and without concurrent transactions.
LEMMA TypeStep == TypeOK /\ [Next]_vars => TypeOK'
  <1> SUFFICES ASSUME TypeOK, [Next]_vars PROVE TypeOK'
      OBVIOUS
  <1>0. alone' = alone
      BY DEF Next, vars
  <1> USE <1>0, LedgerAssumption DEF TypeOK, Add, Closed
  <1>1. ASSUME NEW r \in References, GrantCreditsOnce(r) PROVE TypeOK'
      BY <1>1 DEF GrantCreditsOnce
  <1>2. ASSUME NEW a \in Accounts, NEW n \in Adjustments, AdjustCredits(a, n)
        PROVE  TypeOK'
      BY <1>2 DEF AdjustCredits, Affordable
  <1>3. ASSUME NEW o \in Orders, ReserveBillingOrder(o) PROVE TypeOK'
      BY <1>3 DEF ReserveBillingOrder, Affordable
  <1>4. ASSUME NEW o \in Orders, NEW to \in Closed, FinalizeOrder(o, to)
        PROVE  TypeOK'
      BY <1>4 DEF FinalizeOrder, Close
  <1>5. ASSUME NEW o \in Orders, NEW n \in Charges, SettleTokenBilling(o, n)
        PROVE  TypeOK'
      BY <1>5 DEF SettleTokenBilling, Affordable
  <1>6. ASSUME NEW x \in Actors, NEW o \in Orders, NEW to \in Closed,
               ReadOrder(x, o, to)
        PROVE  TypeOK'
      BY <1>6 DEF ReadOrder, Txs
  <1>7. ASSUME NEW x \in Actors, CloseOrder(x) PROVE TypeOK'
      <2>1. tx[x].order \in Orders /\ tx[x].to \in Closed
          BY <1>7 DEF CloseOrder, Txs
      <2> QED BY <1>7, <2>1 DEF CloseOrder, Close, Txs
  <1>8. CASE UNCHANGED vars
      BY <1>8 DEF vars
  <1> QED BY <1>1, <1>2, <1>3, <1>4, <1>5, <1>6, <1>7, <1>8 DEF Next, Transact

LEMMA TypeInit == Init => TypeOK
  BY LedgerAssumption DEF Init, TypeOK, Txs

\* No account is ever overdrawn.
THEOREM TypeCorrect == Spec => []TypeOK
  BY TypeInit, TypeStep, PTL DEF Spec

\* Each transaction moves credits between the three balances of one account,
\* or changes what was granted by as much.
LEMMA ConservedStep ==
    TypeOK /\ Conserved /\ [Next]_vars => Conserved'
  <1> SUFFICES ASSUME TypeOK, Conserved, [Next]_vars PROVE Conserved'
      OBVIOUS
  <1> USE LedgerAssumption DEF TypeOK, Conserved, Add, Closed
  <1>1. ASSUME NEW r \in References, GrantCreditsOnce(r) PROVE Conserved'
      BY <1>1 DEF GrantCreditsOnce
  <1>2. ASSUME NEW a \in Accounts, NEW n \in Adjustments, AdjustCredits(a, n)
        PROVE  Conserved'
      BY <1>2 DEF AdjustCredits
  <1>3. ASSUME NEW o \in Orders, ReserveBillingOrder(o) PROVE Conserved'
      BY <1>3 DEF ReserveBillingOrder
  <1>4. ASSUME NEW o \in Orders, NEW to \in Closed, Close(o, to)
        PROVE  Conserved'
      BY <1>4 DEF Close
  <1>5. ASSUME NEW o \in Orders, NEW n \in Charges, SettleTokenBilling(o, n)
        PROVE  Conserved'
      BY <1>5 DEF SettleTokenBilling
  <1>6. ASSUME NEW x \in Actors, NEW o \in Orders, NEW to \in Closed,
               ReadOrder(x, o, to)
        PROVE  Conserved'
      BY <1>6 DEF ReadOrder
  <1>7. ASSUME NEW x \in Actors, CloseOrder(x) PROVE Conserved'
      <2>1. tx[x].order \in Orders /\ tx[x].to \in Closed
          BY <1>7 DEF CloseOrder, Txs
      <2>2. CASE Close(tx[x].order, tx[x].to)
          BY <2>1, <2>2, <1>4
      <2>3. CASE UNCHANGED <<avail, reserved, spent, granted>>
          BY <2>3
      <2> QED BY <1>7, <2>2, <2>3 DEF CloseOrder
  <1>8. CASE UNCHANGED vars
      BY <1>8 DEF vars
  <1> QED BY <1>1, <1>2, <1>3, <1>4, <1>5, <1>6, <1>7, <1>8
          DEF Next, Transact, FinalizeOrder

LEMMA ConservedInit == Init => Conserved
  <1> SUFFICES ASSUME Init, NEW a \in Accounts
               PROVE  avail[a] + reserved[a] + spent[a] = granted[a]
      BY DEF Conserved
  <1>1. avail[a] = 0 /\ reserved[a] = 0 /\ spent[a] = 0 /\ granted[a] = 0
      BY DEF Init
  <1> QED BY <1>1

\* Credits are neither created nor lost, with and without concurrency.
THEOREM CreditsConserved == Spec => []Conserved
  BY TypeInit, TypeStep, ConservedInit, ConservedStep, PTL DEF Spec

----------------------------------------------------------------------------
(* Transactions that run alone *)

\* With one connection, the order of an open transaction is still open, and
\* at most one transaction is open.
AloneInv ==
    /\ ClosedOnce
    /\ \A x \in Actors : tx[x] # NoTx => status[tx[x].order] = "open"
    /\ \A x, y \in Actors : tx[x] # NoTx /\ tx[y] # NoTx => x = y

LEMMA AloneStep ==
    alone /\ TypeOK /\ AloneInv /\ [Next]_vars => AloneInv'
  <1> SUFFICES ASSUME alone, TypeOK, AloneInv, [Next]_vars
               PROVE  AloneInv'
      OBVIOUS
  <1> USE LedgerAssumption DEF TypeOK, AloneInv, ClosedOnce, Closed, Add, Runs
  <1>0. ASSUME NEW o \in Orders, status[o] = "open", \A x \in Actors : tx'[x] = NoTx,
               closings' = [closings EXCEPT ![o] = @ + 1],
               NEW s \in Closed, status' = [status EXCEPT ![o] = s]
        PROVE  AloneInv'
      BY <1>0
  <1>1. ASSUME NEW r \in References, GrantCreditsOnce(r) PROVE AloneInv'
      BY <1>1 DEF GrantCreditsOnce
  <1>2. ASSUME NEW a \in Accounts, NEW n \in Adjustments, AdjustCredits(a, n)
        PROVE  AloneInv'
      BY <1>2 DEF AdjustCredits
  <1>3. ASSUME NEW o \in Orders, ReserveBillingOrder(o) PROVE AloneInv'
      BY <1>3 DEF ReserveBillingOrder
  <1>4. ASSUME NEW o \in Orders, NEW to \in Closed, FinalizeOrder(o, to)
        PROVE  AloneInv'
      BY <1>0, <1>4 DEF FinalizeOrder, Close, Closable
  <1>5. ASSUME NEW o \in Orders, NEW n \in Charges, SettleTokenBilling(o, n)
        PROVE  AloneInv'
      BY <1>0, <1>5 DEF SettleTokenBilling, Closable
  <1>6. ASSUME NEW x \in Actors, NEW o \in Orders, NEW to \in Closed,
               ReadOrder(x, o, to)
        PROVE  AloneInv'
      BY <1>6 DEF ReadOrder, Closable, Txs
  <1>7. ASSUME NEW x \in Actors, CloseOrder(x) PROVE AloneInv'
      <2>1. tx[x].order \in Orders /\ tx[x].to \in Closed
          BY <1>7 DEF CloseOrder, Txs
      <2>2. \A y \in Actors : tx'[y] = NoTx
          BY <1>7 DEF CloseOrder
      <2>3. CASE Close(tx[x].order, tx[x].to)
          BY <1>0, <1>7, <2>1, <2>2, <2>3 DEF CloseOrder, Close
      <2>4. CASE UNCHANGED <<status, closings>>
          BY <2>2, <2>4
      <2> QED BY <1>7, <2>3, <2>4 DEF CloseOrder
  <1>8. CASE UNCHANGED vars
      BY <1>8 DEF vars
  <1>9. CASE Transact
      <2>1. CASE \E r \in References : GrantCreditsOnce(r)
          BY <2>1, <1>1
      <2>2. CASE \E a \in Accounts, n \in Adjustments : AdjustCredits(a, n)
          BY <2>2, <1>2
      <2>3. CASE \E o \in Orders : \/ ReserveBillingOrder(o)
                                  \/ \E to \in Closed : FinalizeOrder(o, to)
                                  \/ \E n \in Charges : SettleTokenBilling(o, n)
          BY <2>3, <1>3, <1>4, <1>5
      <2>4. CASE \E x \in Actors :
                     \/ \E o \in Orders, to \in Closed : ReadOrder(x, o, to)
                     \/ CloseOrder(x)
          BY <2>4, <1>6, <1>7
      <2> QED BY <1>9, <2>1, <2>2, <2>3, <2>4 DEF Transact
  <1> QED BY <1>8, <1>9 DEF Next

LEMMA AloneInit == Init => AloneInv
  BY DEF Init, AloneInv, ClosedOnce, Closed

\* On a database with one connection, an order is closed once.
THEOREM AloneClosesOnce == Spec => []AloneClosedOnce
  <1> DEFINE Inv == TypeOK /\ (alone => AloneInv)
  <1>1. Init => Inv
      BY TypeInit, AloneInit
  <1>2. Inv /\ [Next]_vars => Inv'
      <2> SUFFICES ASSUME Inv, [Next]_vars PROVE Inv'
          OBVIOUS
      <2>1. alone' = alone
          BY DEF Next, vars
      <2> QED BY <2>1, TypeStep, AloneStep
  <1>3. Inv => AloneClosedOnce
      BY DEF AloneInv, AloneClosedOnce
  <1> QED BY <1>1, <1>2, <1>3, PTL DEF Spec

----------------------------------------------------------------------------
(* What orders hold *)

\* Of finite sets, one has no smaller one below it.
LEMMA Smallest ==
    ASSUME NEW T, T # {}, \A s \in T : IsFiniteSet(s)
    PROVE  \E s \in T : \A u \in T : u \subseteq s => u = s
<1> DEFINE N == {Cardinality(s) : s \in T}
<1>1. N \subseteq Nat /\ N # {}
    BY FS_CardinalityType
<1>2. PICK n \in N : \A m \in N : ~(<<m, n>> \in OpToRel(<, Nat))
    BY <1>1, NatLessThanWellFounded, WFMin
<1>3. \A m \in N : ~(m < n)
    BY <1>1, <1>2 DEF OpToRel
<1>4. PICK s \in T : Cardinality(s) = n
    OBVIOUS
<1>5. ASSUME NEW u \in T, u \subseteq s, u # s PROVE FALSE
    <2>1. Cardinality(u) < Cardinality(s)
        <3>1. IsFiniteSet(s) /\ u \in SUBSET s
            BY <1>5
        <3>2. Cardinality(u) <= Cardinality(s) /\ Cardinality(u) # Cardinality(s)
            BY <1>5, <3>1, FS_Subset
        <3>3. Cardinality(u) \in Nat /\ Cardinality(s) \in Nat
            BY FS_CardinalityType
        <3> QED BY <3>2, <3>3
    <2> QED BY <1>3, <1>4, <2>1
<1> QED BY <1>5

Pick(s) == CHOOSE x \in s : TRUE
Body(f, s) == IF s = {} THEN 0 ELSE Amount[Pick(s)] + f[s \ {Pick(s)}]
IsHeld(S, f) == f = [s \in SUBSET S |-> Body(f, s)]

LEMMA HeldDef ==
    ASSUME NEW S
    PROVE  Held(S) = (CHOOSE f : IsHeld(S, f))[S]
BY DEF Held, MapThenSumSet, MapThenFoldSet, IsHeld, Body, Pick

LEMMA PickIn ==
    ASSUME NEW s, s # {}
    PROVE  Pick(s) \in s /\ s \ {Pick(s)} \subseteq s /\ s \ {Pick(s)} # s
BY DEF Pick

LEMMA HeldUnique ==
    ASSUME NEW S, NEW T, IsFiniteSet(S), NEW f, NEW g, IsHeld(S, f), IsHeld(T, g), NEW s, s \subseteq S, s \subseteq T
    PROVE  f[s] = g[s]
<1> DEFINE Bad == {u \in SUBSET (S \cap T) : f[u] # g[u]}
<1> SUFFICES ASSUME Bad # {} PROVE FALSE
    OBVIOUS
<1>1. \A u \in Bad : IsFiniteSet(u)
    BY FS_Subset
<1>2. PICK u \in Bad : \A v \in Bad : v \subseteq u => v = u
    <2> HIDE DEF Bad
    <2> QED BY <1>1, Smallest
<1>3. f[u] = Body(f, u) /\ g[u] = Body(g, u)
    BY DEF IsHeld
<1>4. u # {}
    BY <1>3 DEF Body
<1>5. u \ {Pick(u)} \notin Bad /\ u \ {Pick(u)} \in SUBSET (S \cap T)
    BY <1>2, <1>4, PickIn
<1>6. f[u \ {Pick(u)}] = g[u \ {Pick(u)}]
    BY <1>5
<1> QED BY <1>3, <1>6 DEF Body

LEMMA HeldExists ==
    ASSUME NEW S, IsFiniteSet(S)
    PROVE  \E f : IsHeld(S, f)
<1> DEFINE Has(s) == \E f : IsHeld(s, f)
           Bad == {u \in SUBSET S : ~Has(u)}
<1> SUFFICES ASSUME Bad # {} PROVE FALSE
    OBVIOUS
<1>1. \A u \in Bad : IsFiniteSet(u)
    BY FS_Subset
<1>2. PICK s \in Bad : \A v \in Bad : v \subseteq s => v = s
    <2> HIDE DEF Bad
    <2> QED BY <1>1, Smallest
<1>3. ASSUME NEW v \in SUBSET s, v # s PROVE Has(v)
    BY <1>2, <1>3
<1> DEFINE F(v) == CHOOSE f : IsHeld(v, f)
           g == [u \in SUBSET s |-> IF u = {} THEN 0 ELSE Amount[Pick(u)] + F(u \ {Pick(u)})[u \ {Pick(u)}]]
<1>4. ASSUME NEW v \in SUBSET s, v # s PROVE IsHeld(v, F(v))
    BY <1>3, <1>4
<1> HIDE DEF F, Has
<1>5. ASSUME NEW v \in SUBSET s, v # s PROVE g[v] = F(v)[v]
    <2>1. F(v)[v] = Body(F(v), v)
        BY <1>4, <1>5 DEF IsHeld
    <2>2. CASE v = {}
        BY <2>1, <2>2 DEF Body
    <2>3. CASE v # {}
        <3> DEFINE w == v \ {Pick(v)}
        <3>1. w \subseteq v /\ w \subseteq s /\ w # s
            BY <2>3, <1>5
        <3>2. IsHeld(v, F(v)) /\ IsHeld(w, F(w)) /\ IsFiniteSet(v)
            <4>1. IsFiniteSet(s)
                BY <1>1
            <4> QED BY <1>4, <1>5, <3>1, <4>1, FS_Subset
        <3>3. F(v)[w] = F(w)[w]
            BY <3>1, <3>2, HeldUnique
        <3> QED BY <2>1, <2>3, <3>3 DEF Body
    <2> QED BY <2>2, <2>3
<1>6. ASSUME NEW u \in SUBSET s PROVE g[u] = Body(g, u)
    <2>1. CASE u = {}
        BY <2>1 DEF Body
    <2>2. CASE u # {}
        <3>1. u \ {Pick(u)} \in SUBSET s /\ u \ {Pick(u)} # s
            BY <2>2, PickIn
        <3>2. g[u \ {Pick(u)}] = F(u \ {Pick(u)})[u \ {Pick(u)}]
            BY <1>5, <3>1
        <3> QED BY <2>2, <3>2 DEF Body
    <2> QED BY <2>1, <2>2
<1>7. g = [u \in SUBSET s |-> g[u]]
    OBVIOUS
<1> HIDE DEF g
<1>8. IsHeld(s, g)
    BY <1>6, <1>7 DEF IsHeld
<1> QED BY <1>2, <1>8 DEF Has

LEMMA HeldPicks ==
    ASSUME NEW S, IsFiniteSet(S)
    PROVE  Held(S) = IF S = {} THEN 0 ELSE Amount[Pick(S)] + Held(S \ {Pick(S)})
<1> DEFINE F(v) == CHOOSE f : IsHeld(v, f)
<1>1. ASSUME NEW v, IsFiniteSet(v) PROVE IsHeld(v, F(v))
    BY <1>1, HeldExists
<1>2. \A v : Held(v) = F(v)[v]
    BY HeldDef
<1> HIDE DEF F
<1>3. F(S)[S] = Body(F(S), S)
    BY <1>1 DEF IsHeld
<1>4. ASSUME S # {} PROVE F(S)[S \ {Pick(S)}] = F(S \ {Pick(S)})[S \ {Pick(S)}]
    <2>1. IsFiniteSet(S \ {Pick(S)}) /\ S \ {Pick(S)} \subseteq S
        BY FS_RemoveElement
    <2> QED BY <1>1, <2>1, HeldUnique
<1> QED BY <1>2, <1>3, <1>4 DEF Body

LEMMA HeldNat ==
    ASSUME NEW S \in SUBSET Orders, IsFiniteSet(S)
    PROVE  Held(S) \in Nat
<1> DEFINE Bad == {u \in SUBSET S : Held(u) \notin Nat}
<1> SUFFICES ASSUME Bad # {} PROVE FALSE
    OBVIOUS
<1>1. \A u \in Bad : IsFiniteSet(u)
    BY FS_Subset
<1>2. PICK u \in Bad : \A v \in Bad : v \subseteq u => v = u
    <2> HIDE DEF Bad
    <2> QED BY <1>1, Smallest
<1>3. Held(u) = IF u = {} THEN 0 ELSE Amount[Pick(u)] + Held(u \ {Pick(u)})
    BY <1>1, HeldPicks
<1>4. u # {}
    BY <1>2, <1>3
<1>5. Pick(u) \in Orders /\ Held(u \ {Pick(u)}) \in Nat
    BY <1>2, <1>4, PickIn
<1> QED BY <1>2, <1>3, <1>4, <1>5, LedgerAssumption

\* An order counts for what it is worth, whichever is counted first.
LEMMA HeldWithout ==
    ASSUME NEW S \in SUBSET Orders, IsFiniteSet(S), NEW o \in S
    PROVE  Held(S) = Amount[o] + Held(S \ {o})
<1> DEFINE Bad == {u \in SUBSET S : \E x \in u : Held(u) # Amount[x] + Held(u \ {x})}
<1> SUFFICES ASSUME Bad # {} PROVE FALSE
    OBVIOUS
<1>1. \A u \in Bad : IsFiniteSet(u)
    BY FS_Subset
<1>2. PICK u \in Bad : \A v \in Bad : v \subseteq u => v = u
    <2> HIDE DEF Bad
    <2> QED BY <1>1, Smallest
<1>3. PICK x \in u : Held(u) # Amount[x] + Held(u \ {x})
    OBVIOUS
<1>4. PICK p : p = Pick(u)
    OBVIOUS
<1>5. p \in u /\ p # x /\ Held(u) = Amount[p] + Held(u \ {p})
    BY <1>1, <1>3, <1>4, HeldPicks, PickIn
<1>6. Held(u \ {p}) = Amount[x] + Held((u \ {p}) \ {x})
    BY <1>2, <1>3, <1>5
<1>7. Held(u \ {x}) = Amount[p] + Held((u \ {x}) \ {p})
    BY <1>2, <1>3, <1>5
<1>8. (u \ {x}) \ {p} = (u \ {p}) \ {x}
    OBVIOUS
<1>9. Amount[p] \in Nat /\ Amount[x] \in Nat /\ Held((u \ {p}) \ {x}) \in Nat
    <2>1. (u \ {p}) \ {x} \in SUBSET Orders /\ IsFiniteSet((u \ {p}) \ {x})
        BY <1>1, FS_Subset
    <2>2. Held((u \ {p}) \ {x}) \in Nat
        BY <2>1, HeldNat
    <2> QED BY <1>5, <2>2, LedgerAssumption
<1>10. PICK h \in Nat : h = Held((u \ {p}) \ {x})
    BY <1>9
<1>11. Held(u \ {p}) = Amount[x] + h /\ Held(u \ {x}) = Amount[p] + h
    BY <1>6, <1>7, <1>8, <1>10
<1>12. Held(u) = Amount[p] + (Amount[x] + h) /\ Held(u) # Amount[x] + (Amount[p] + h)
    BY <1>3, <1>5, <1>11
<1> QED BY <1>9, <1>12

\* With one connection, what is reserved is held by open orders.
Backed(a) == IsFiniteSet(Open(a)) /\ reserved[a] = Held(Open(a))
HeldInv == \A a \in Accounts : Backed(a)

LEMMA OpensBacked ==
    ASSUME TypeOK, HeldInv, NEW o \in Orders, status[o] = "unused", status' = [status EXCEPT ![o] = "open"],
           reserved' = Add(reserved, Payer[o], Amount[o])
    PROVE  HeldInv'
<1> SUFFICES ASSUME NEW a \in Accounts PROVE Backed(a)'
    BY DEF HeldInv
<1>1. Backed(a) /\ Open(a) \in SUBSET Orders /\ reserved \in [Accounts -> Nat] /\ Payer[o] \in Accounts /\ Amount[o] \in Nat
    BY LedgerAssumption DEF HeldInv, Open, TypeOK
<1>2. CASE Payer[o] = a
    <2>1. Open(a)' = Open(a) \cup {o} /\ o \notin Open(a)
        BY <1>2 DEF Open, TypeOK
    <2>2. IsFiniteSet(Open(a) \cup {o}) /\ (Open(a) \cup {o}) \ {o} = Open(a) /\ Open(a) \cup {o} \in SUBSET Orders
        BY <1>1, <2>1, FS_AddElement DEF Backed
    <2>3. Held(Open(a) \cup {o}) = Amount[o] + Held(Open(a))
        BY <2>2, HeldWithout
    <2>4. reserved'[a] = reserved[a] + Amount[o]
        BY <1>1, <1>2 DEF Add
    <2>5. Held(Open(a))' = Held(Open(a) \cup {o})
        BY <2>1
    <2> QED BY <1>1, <2>1, <2>2, <2>3, <2>4, <2>5 DEF Backed
<1>3. CASE Payer[o] # a
    <2>1. Open(a)' = Open(a)
        BY <1>3 DEF Open, TypeOK
    <2>2. reserved'[a] = reserved[a]
        BY <1>1, <1>3 DEF Add
    <2>3. Held(Open(a))' = Held(Open(a))
        BY <2>1
    <2> QED BY <1>1, <2>1, <2>2, <2>3 DEF Backed
<1> QED BY <1>2, <1>3

LEMMA ClosesBacked ==
    ASSUME TypeOK, HeldInv, NEW o \in Orders, status[o] = "open", NEW s, s # "open", status' = [status EXCEPT ![o] = s],
           reserved' = Add(reserved, Payer[o], -Amount[o])
    PROVE  HeldInv'
<1> SUFFICES ASSUME NEW a \in Accounts PROVE Backed(a)'
    BY DEF HeldInv
<1>1. Backed(a) /\ Open(a) \in SUBSET Orders /\ reserved \in [Accounts -> Nat] /\ Payer[o] \in Accounts /\ Amount[o] \in Nat
    BY LedgerAssumption DEF HeldInv, Open, TypeOK
<1>2. CASE Payer[o] = a
    <2>1. Open(a)' = Open(a) \ {o} /\ o \in Open(a)
        BY <1>2 DEF Open, TypeOK
    <2>2. IsFiniteSet(Open(a) \ {o}) /\ Open(a) \ {o} \in SUBSET Orders
        BY <1>1, <2>1, FS_RemoveElement DEF Backed
    <2>3. Held(Open(a)) = Amount[o] + Held(Open(a) \ {o}) /\ Held(Open(a) \ {o}) \in Nat
        BY <1>1, <2>1, <2>2, HeldWithout, HeldNat DEF Backed
    <2>4. reserved'[a] = reserved[a] + (-Amount[o])
        BY <1>1, <1>2 DEF Add
    <2>5. Held(Open(a))' = Held(Open(a) \ {o})
        BY <2>1
    <2> QED BY <1>1, <2>1, <2>2, <2>3, <2>4, <2>5 DEF Backed
<1>3. CASE Payer[o] # a
    <2>1. Open(a)' = Open(a)
        BY <1>3 DEF Open, TypeOK
    <2>2. reserved'[a] = reserved[a]
        BY <1>1, <1>3 DEF Add
    <2>3. Held(Open(a))' = Held(Open(a))
        BY <2>1
    <2> QED BY <1>1, <2>1, <2>2, <2>3 DEF Backed
<1> QED BY <1>2, <1>3

LEMMA SameBacked ==
    ASSUME HeldInv, UNCHANGED <<status, reserved>>
    PROVE  HeldInv'
BY DEF HeldInv, Backed, Open

LEMMA HeldStep ==
    ASSUME TypeOK, AloneInv, HeldInv, [Next]_vars
    PROVE  HeldInv'
<1>1. ASSUME NEW o \in Orders, ReserveBillingOrder(o) PROVE HeldInv'
    BY <1>1, OpensBacked DEF ReserveBillingOrder
<1>2. ASSUME NEW o \in Orders, NEW to \in Closed, Close(o, to), status[o] = "open" PROVE HeldInv'
    BY <1>2, ClosesBacked DEF Close, Closed
<1>3. ASSUME NEW o \in Orders, NEW n \in Charges, SettleTokenBilling(o, n) PROVE HeldInv'
    BY <1>3, ClosesBacked DEF SettleTokenBilling, Closable
<1>4. ASSUME NEW o \in Orders, NEW to \in Closed, FinalizeOrder(o, to) PROVE HeldInv'
    BY <1>2, <1>4 DEF FinalizeOrder, Closable
<1>5. ASSUME NEW x \in Actors, CloseOrder(x) PROVE HeldInv'
    <2>1. tx[x].order \in Orders /\ tx[x].to \in Closed /\ status[tx[x].order] = "open"
        BY <1>5 DEF CloseOrder, TypeOK, Txs, AloneInv
    <2>2. Close(tx[x].order, tx[x].to) \/ UNCHANGED <<status, reserved>>
        BY <1>5 DEF CloseOrder
    <2> QED BY <1>2, <2>1, <2>2, SameBacked
<1>6. ASSUME \/ \E r \in References : GrantCreditsOnce(r)
             \/ \E a \in Accounts, n \in Adjustments : AdjustCredits(a, n)
             \/ \E x \in Actors, o \in Orders, to \in Closed : ReadOrder(x, o, to)
             \/ UNCHANGED vars
      PROVE  HeldInv'
    BY <1>6, SameBacked DEF GrantCreditsOnce, AdjustCredits, ReadOrder, vars
<1> QED BY <1>1, <1>3, <1>4, <1>5, <1>6 DEF Next, Transact

LEMMA HeldInit == Init => HeldInv
<1> SUFFICES ASSUME Init, NEW a \in Accounts PROVE Backed(a)
    BY DEF HeldInv
<1>1. Open(a) = {} /\ reserved[a] = 0
    BY DEF Init, Open
<1>2. IsFiniteSet({}) /\ Held({}) = 0
    BY FS_EmptySet, HeldPicks
<1> QED BY <1>1, <1>2 DEF Backed

\* On a database with one connection, the reserved balance of an account is
\* the sum of what its open orders hold.
THEOREM ReservedIsHeld == Spec => []ReservedBacksOrders
<1> DEFINE Inv == TypeOK /\ (alone => AloneInv /\ HeldInv)
<1>1. Init => Inv
    BY TypeInit, AloneInit, HeldInit
<1>2. Inv /\ [Next]_vars => Inv'
    <2> SUFFICES ASSUME Inv, [Next]_vars PROVE Inv'
        OBVIOUS
    <2>1. alone' = alone
        BY DEF Next, vars
    <2> QED BY <2>1, TypeStep, AloneStep, HeldStep
<1>3. Inv => ReservedBacksOrders
    BY DEF HeldInv, Backed, ReservedBacksOrders
<1> QED BY <1>1, <1>2, <1>3, PTL DEF Spec
=============================================================================
