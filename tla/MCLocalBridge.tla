---------------------------- MODULE MCLocalBridge ----------------------------
(* Instances of LocalBridge for TLC. *)
EXTENDS LocalBridge

\* One tool call with every fault and every way of closing; two calls, one of
\* them to be approved, with a person who stops the run.
MCPlans ==
    {[tools |-> {t}, how |-> h, faults |-> FaultKinds] : t \in Tools, h \in [Closers -> Kinds]}
    \cup {[tools |-> Tools, how |-> [c \in Closers |-> "interrupt"], faults |-> {}]}

=============================================================================
