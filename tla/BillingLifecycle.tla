-------------------------- MODULE BillingLifecycle --------------------------
(***************************************************************************)
(* What the backend promises of a billing order, whoever touches it: the   *)
(* credits of an order are reserved once; the order is then either being   *)
(* spent ("running") or waiting for someone to find out what the provider  *)
(* charged ("uncertain"); it is closed once, as settled or as refunded;    *)
(* and an order under review never goes back to being spent.               *)
(***************************************************************************)
CONSTANT Orders

VARIABLE status

Open == {"reserved", "running", "uncertain"}
Closed == {"settled", "refunded"}

Init == status = [o \in Orders |-> "unused"]

Move(o, from, to) == /\ status[o] \in from
                     /\ status' = [status EXCEPT ![o] = to]

Reserve(o) == Move(o, {"unused"}, "reserved")
Start(o) == Move(o, {"reserved"}, "running")
Review(o) == Move(o, {"reserved", "running"}, "uncertain")
Close(o) == \E s \in Closed : Move(o, Open, s)

Next == \E o \in Orders : Reserve(o) \/ Start(o) \/ Review(o) \/ Close(o)

Spec == Init /\ [][Next]_status
=============================================================================
