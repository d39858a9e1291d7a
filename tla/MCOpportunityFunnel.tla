------------------------ MODULE MCOpportunityFunnel ------------------------
(* The instance of the funnel that TLC checks; the pollers are alike. *)
EXTENDS OpportunityFunnel, TLC

PollerSymmetry == Permutations(Pollers)
=============================================================================
