---------------------------- MODULE CreditLedger ----------------------------
(***************************************************************************)
(* The credit accounts behind the billing orders: what reserving, settling *)
(* and refunding an order, and granting or adjusting credits, do to the    *)
(* balances and to the ledger.                                             *)
(*                                                                         *)
(* SettleBillingOrder and RefundBillingOrder read the order without a lock *)
(* and then update the account and the order; the task finalisers and the  *)
(* token settlement lock the order first.  On SQLite the pool has a single *)
(* connection and a transaction is alone; on PostgreSQL another one may    *)
(* commit between the unlocked read and the updates that rely on it.       *)
(*                                                                         *)
(* A personal and a team account are treated alike.  An order is "open"    *)
(* while it is reserved, running or uncertain.                             *)
(***************************************************************************)
EXTENDS Integers, FiniteSetsExt

CONSTANTS
    Accounts, Orders,
    Payer,         \* the account each order is charged to
    Amount,        \* amount_microcredits of each order when it is reserved
    Actors,        \* requests that close orders through the unlocked path
    References,    \* reference keys of one-off grants, and redeem codes
    Beneficiary,   \* the account each reference grants to
    GrantAmount,   \* and how much
    Adjustments,   \* amounts an administrator may add or take away
    Charges,       \* amounts a token settlement may come to
    Pools,         \* databases looked at: does the pool have one connection?
    MaxGranted,    \* bound on the credits ever granted to an account
    None

ASSUME LedgerAssumption ==
    /\ Payer \in [Orders -> Accounts]
    /\ Amount \in [Orders -> Nat]
    /\ Beneficiary \in [References -> Accounts]
    /\ GrantAmount \in [References -> Nat]
    /\ Adjustments \subseteq Int
    /\ Charges \subseteq Nat
    /\ Pools \subseteq BOOLEAN
    /\ MaxGranted \in Int
    /\ None \notin Orders

VARIABLES
    avail,     \* available_microcredits
    reserved,  \* reserved_microcredits
    spent,     \* sum of the consume entries of each account's ledger
    granted,   \* sum of the grant, redeem and adjust entries
    used,      \* reference keys in the ledger, redeemed codes
    status,    \* of each order
    closings,  \* consume and refund entries in the ledger of each order
    tx,        \* open unlocked transaction of each actor
    alone      \* SQLite: the pool has one connection

vars == <<avail, reserved, spent, granted, used, status, closings, tx, alone>>

Closed == {"settled", "refunded"}
NoTx == [order |-> None, to |-> "none"]
Txs == [order : Orders, to : Closed] \cup {NoTx}

Init == /\ avail = [a \in Accounts |-> 0]
        /\ reserved = [a \in Accounts |-> 0]
        /\ spent = [a \in Accounts |-> 0]
        /\ granted = [a \in Accounts |-> 0]
        /\ used = {}
        /\ status = [o \in Orders |-> "unused"]
        /\ closings = [o \in Orders |-> 0]
        /\ tx = [x \in Actors |-> NoTx]
        /\ alone \in Pools

\* No balance is ever negative: nothing is overdrawn, whatever transactions
\* interleave.
TypeOK == /\ avail \in [Accounts -> Nat]
          /\ reserved \in [Accounts -> Nat]
          /\ spent \in [Accounts -> Nat]
          /\ granted \in [Accounts -> Int]
          /\ used \subseteq References
          /\ status \in [Orders -> {"unused", "open"} \cup Closed]
          /\ closings \in [Orders -> Nat]
          /\ tx \in [Actors -> Txs]
          /\ alone \in BOOLEAN

----------------------------------------------------------------------------

\* A transaction may run: it is the only one unless the database has rows
\* locked separately.
Runs == ~alone \/ \A x \in Actors : tx[x] = NoTx

Add(f, a, n) == [f EXCEPT ![a] = @ + n]

\* GrantCreditsOnce and RedeemCode: a repeated reference changes nothing.
GrantCreditsOnce(r) ==
    /\ Runs
    /\ r \notin used
    /\ used' = used \cup {r}
    /\ avail' = Add(avail, Beneficiary[r], GrantAmount[r])
    /\ granted' = Add(granted, Beneficiary[r], GrantAmount[r])
    /\ UNCHANGED <<reserved, spent, status, closings, tx>>

\* Mutation of Affordable: an account may be overdrawn.
Overdrawable(a, n) == a \in Accounts

\* The available balance covers n.
Affordable(a, n) == avail[a] >= n

\* AdjustCredits by an administrator; n may be negative.
AdjustCredits(a, n) ==
    /\ Runs
    /\ Affordable(a, -n)
    /\ granted[a] + n <= MaxGranted
    /\ avail' = Add(avail, a, n)
    /\ granted' = Add(granted, a, n)
    /\ UNCHANGED <<reserved, spent, used, status, closings, tx>>

\* reserveBillingOrder.
ReserveBillingOrder(o) ==
    /\ Runs
    /\ status[o] = "unused"
    /\ Affordable(Payer[o], Amount[o])
    /\ avail' = Add(avail, Payer[o], -Amount[o])
    /\ reserved' = Add(reserved, Payer[o], Amount[o])
    /\ status' = [status EXCEPT ![o] = "open"]
    /\ UNCHANGED <<spent, granted, used, closings, tx>>

\* The updates of SettleBillingOrder and refundBillingOrderTx: the account, on
\* condition that it has as much reserved, then the order, unconditionally,
\* then the ledger.
Close(o, to) ==
    /\ reserved[Payer[o]] >= Amount[o]
    /\ reserved' = Add(reserved, Payer[o], -Amount[o])
    /\ IF to = "settled"
       THEN spent' = Add(spent, Payer[o], Amount[o]) /\ UNCHANGED avail
       ELSE avail' = Add(avail, Payer[o], Amount[o]) /\ UNCHANGED spent
    /\ status' = [status EXCEPT ![o] = to]
    /\ closings' = Add(closings, o, 1)
    /\ UNCHANGED <<granted, used>>

\* Mutation of Closable: a settled order is closed again.
ClosableAgain(o) == status[o] \in {"open", "settled"}

\* The status every way to close an order asks for.
Closable(o) == status[o] = "open"

\* SettleBillingOrder, RefundBillingOrder: the unlocked read.
ReadOrder(x, o, to) ==
    /\ Runs
    /\ tx[x] = NoTx
    /\ Closable(o)
    /\ tx' = [tx EXCEPT ![x] = [order |-> o, to |-> to]]
    /\ UNCHANGED <<avail, reserved, spent, granted, used, status, closings>>

\* The updates that follow it, or the error that rolls them back.
CloseOrder(x) ==
    /\ tx[x] # NoTx
    /\ \/ Close(tx[x].order, tx[x].to)
       \/ /\ reserved[Payer[tx[x].order]] < Amount[tx[x].order]
          /\ UNCHANGED <<avail, reserved, spent, granted, used, status, closings>>
    /\ tx' = [tx EXCEPT ![x] = NoTx]

\* FinalizeSucceededTaskAndBilling and FinalizeFailedTaskAndBillingWithOutbox
\* hold the order's row lock from the read to the commit.
FinalizeOrder(o, to) ==
    /\ Runs
    /\ Closable(o)
    /\ Close(o, to)
    /\ UNCHANGED tx

\* Mutation of SettleTokenBilling: the unspent part stays reserved.
SettleTokenKeepsRest(o, n) ==
    /\ Runs
    /\ Closable(o)
    /\ n <= Amount[o]
    /\ reserved' = Add(reserved, Payer[o], -n)
    /\ spent' = Add(spent, Payer[o], n)
    /\ status' = [status EXCEPT ![o] = "settled"]
    /\ closings' = Add(closings, o, 1)
    /\ UNCHANGED <<avail, granted, used, tx>>

\* Mutation of SettleTokenBilling: the unspent part is not given back.
SettleTokenLosesRest(o, n) ==
    /\ Runs
    /\ Closable(o)
    /\ n <= Amount[o]
    /\ reserved[Payer[o]] >= Amount[o]
    /\ reserved' = Add(reserved, Payer[o], -Amount[o])
    /\ spent' = Add(spent, Payer[o], n)
    /\ status' = [status EXCEPT ![o] = "settled"]
    /\ closings' = Add(closings, o, 1)
    /\ UNCHANGED <<avail, granted, used, tx>>

\* settleTokenBillingTx with the amount the usage comes to: the order's and
\* the account's rows are locked, and the difference to the reservation is
\* given back or, where the response usage decides, taken from the available
\* balance.
SettleTokenBilling(o, n) ==
    /\ Runs
    /\ Closable(o)
    /\ reserved[Payer[o]] >= Amount[o]
    /\ Affordable(Payer[o], n - Amount[o])
    /\ avail' = Add(avail, Payer[o], Amount[o] - n)
    /\ reserved' = Add(reserved, Payer[o], -Amount[o])
    /\ spent' = Add(spent, Payer[o], n)
    /\ status' = [status EXCEPT ![o] = "settled"]
    /\ closings' = Add(closings, o, 1)
    /\ UNCHANGED <<granted, used, tx>>

\* One transaction.
Transact ==
    \/ \E r \in References : GrantCreditsOnce(r)
    \/ \E a \in Accounts, n \in Adjustments : AdjustCredits(a, n)
    \/ \E o \in Orders : \/ ReserveBillingOrder(o)
                         \/ \E to \in Closed : FinalizeOrder(o, to)
                         \/ \E n \in Charges : SettleTokenBilling(o, n)
    \/ \E x \in Actors : \/ \E o \in Orders, to \in Closed : ReadOrder(x, o, to)
                         \/ CloseOrder(x)

Next == Transact /\ UNCHANGED alone

Spec == Init /\ [][Next]_vars

----------------------------------------------------------------------------

\* Every credit granted to an account is available, reserved or consumed:
\* reserving, settling (with its difference), refunding and adjusting neither
\* create nor lose credits.
Conserved ==
    \A a \in Accounts : avail[a] + reserved[a] + spent[a] = granted[a]

\* An order is consumed or refunded in the ledger exactly once, when it is
\* closed, however many requests try to close it (SettleBillingOrder,
\* RefundBillingOrder: the status they read is still the order's).
ClosedOnce ==
    \A o \in Orders : closings[o] = IF status[o] \in Closed THEN 1 ELSE 0

\* On a database with one connection, SettleBillingOrder and RefundBillingOrder
\* close an order once although they do not lock it.
AloneClosedOnce == alone => ClosedOnce

\* What the open orders of an account hold.
Open(a) == {o \in Orders : Payer[o] = a /\ status[o] = "open"}
Held(S) == MapThenSumSet(LAMBDA o : Amount[o], S)

\* The reserved balance of an account is what its open orders hold: nothing is
\* frozen without an order, and every open order can still be closed, where
\* no transaction runs beside another.
ReservedBacksOrders == alone => \A a \in Accounts : reserved[a] = Held(Open(a))
=============================================================================
