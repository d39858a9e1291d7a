-------------------------- MODULE MCManualDecision --------------------------
(* The instance of the manual decisions that TLC checks: its constants are in the .cfg. *)
EXTENDS ManualDecision
=============================================================================
