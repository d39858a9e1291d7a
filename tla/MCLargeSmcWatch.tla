-------------------------- MODULE MCLargeSmcWatch --------------------------
(* The instance of the watch that TLC checks: sibling opportunities of one confirmation. *)
EXTENDS LargeSmcWatch

OneConfirmation(ref) == "setup"
=============================================================================
