-------------------------- MODULE MCTicketDelivery --------------------------
(* The instance of the ticket delivery that TLC checks: its constants are in the .cfg. *)
EXTENDS TicketDelivery
=============================================================================
