-------------------------- MODULE MCTelegramSender --------------------------
(* The instance of the Telegram sender that TLC checks: its constants are in the .cfg. *)
EXTENDS TelegramSender
=============================================================================
