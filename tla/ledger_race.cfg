SPECIFICATION Spec
CONSTANTS
  None = None
  a1 = a1
  a2 = a2
  o1 = o1
  o2 = o2
  o3 = o3
  r1 = r1
  r2 = r2
  Accounts = {a1, a2}
  Orders = {o1, o2, o3}
  Actors = {x1, x2}
  References = {r1, r2}
  Payer <- MCPayer
  Amount <- MCAmount
  Beneficiary <- MCBeneficiary
  GrantAmount <- MCGrantAmount
  Adjustments <- MCAdjustments
  Charges = {0, 1, 2, 3}
  Pools = {TRUE, FALSE}
  MaxGranted = 4
INVARIANT ClosedOnce
CHECK_DEADLOCK FALSE
