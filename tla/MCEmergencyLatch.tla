-------------------------- MODULE MCEmergencyLatch --------------------------
(* Model checking of the emergency latch on a few days and rows.           *)
EXTENDS EmergencyLatch
=============================================================================
