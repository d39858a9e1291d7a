-------------------------- MODULE MCDemoExecution --------------------------
(* Model checking of DEMO execution on small instances.                    *)
EXTENDS DemoExecution, TLC

AttemptSymmetry == Permutations(Attempts)
=============================================================================
