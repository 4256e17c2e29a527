------------------------ MODULE MCCanvasCollaboration ------------------------
(* Instances of CanvasCollaboration for TLC. *)
EXTENDS CanvasCollaboration

\* What fails together: the connection, with the Agent at work; the reads and
\* the server, with a right taken away.
MCPlans == {{"drop", "agent"}, {"revoke", "drop"}, {"read"}, {"server"}}
=============================================================================
