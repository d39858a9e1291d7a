---------------------------- MODULE MCLifecycle ----------------------------
(* Model checking of the durable lifecycle trail: two racing callers, two  *)
(* day files.                                                              *)
EXTENDS Lifecycle, TLC

CallerSymmetry == Permutations(Callers)
=============================================================================
