--------------------------- MODULE MCCreditLedger ---------------------------
(***************************************************************************)
(* Small instances of CreditLedger for TLC: an account with two orders of *)
(* different sizes, so that a closing applied twice can be paid for out of *)
(* the reservation of the other order, and an account with one order.      *)
(***************************************************************************)
EXTENDS CreditLedger, TLC

CONSTANTS a1, a2, o1, o2, o3, r1, r2

MCPayer == o1 :> a1 @@ o2 :> a1 @@ o3 :> a2
MCAmount == o1 :> 1 @@ o2 :> 2 @@ o3 :> 1
MCAdjustments == {1, -1}
MCBeneficiary == r1 :> a1 @@ r2 :> a2
MCGrantAmount == r1 :> 3 @@ r2 :> 2
=============================================================================
