---------------------------- MODULE MCTaskCases ----------------------------
(***************************************************************************)
(* Four instances of TaskExecution in one run.  In "admin" administrators  *)
(* and the Kuaizi reconciliation close orders while a crash, a stall, a    *)
(* takeover and a retry happen; in "lease" a worker stalls past its lease  *)
(* or cannot renew it, and its task is taken over and retried; in          *)
(* "takeover" the process crashes, another worker takes the task over and  *)
(* the user may cancel twice; in "token" a synchronous call billed by      *)
(* tokens stalls, crashes or is cancelled, is retried and resolved by hand.*)
(***************************************************************************)
EXTENDS MCTaskExecution

CONSTANTS LeaseFaults, TakeoverFaults, TokenFaults
VARIABLE case     \* the instance a behaviour belongs to
allVars == <<vars, case>>

Lease == INSTANCE TaskExecution WITH
    Faults <- LeaseFaults, Resolutions <- {},
    Budget <- [crash |-> 0, stall |-> 1, cancel |-> 0, retry |-> 1]

Takeover == INSTANCE TaskExecution WITH
    Faults <- TakeoverFaults, Resolutions <- {}, MaxGen <- 5, Reconciles <- FALSE,
    Budget <- [crash |-> 1, stall |-> 0, cancel |-> 2, retry |-> 0]

Token == INSTANCE TaskExecution WITH
    Faults <- TokenFaults, Kind <- [t \in Tasks |-> "token"],
    Budget <- [crash |-> 0, stall |-> 1, cancel |-> 1, retry |-> 1]
TokenCrash == INSTANCE TaskExecution WITH
    Faults <- TokenFaults, Kind <- [t \in Tasks |-> "token"],
    Budget <- [crash |-> 1, stall |-> 1, cancel |-> 0, retry |-> 1]

CasesInit == \/ case = "admin" /\ Init
             \/ case = "lease" /\ Lease!Init
             \/ case = "takeover" /\ Takeover!Init
             \/ case = "token" /\ (Token!Init \/ TokenCrash!Init)
CasesNext == /\ UNCHANGED case
             /\ \/ case = "admin" /\ Next
                \/ case = "lease" /\ Lease!Next
                \/ case = "takeover" /\ Takeover!Next
                \/ case = "token" /\ Token!Next
CasesSpec == CasesInit /\ [][CasesNext]_allVars
=============================================================================
