-------------------------- MODULE MCTelegramAlert --------------------------
(* TelegramAlert on small instances.                                       *)
EXTENDS TelegramAlert
=============================================================================
