-------------------------- MODULE MCSessionSummary --------------------------
(* The instance of the session summaries that TLC checks: its constants are in the .cfg. *)
EXTENDS SessionSummary
=============================================================================
