--------------------------- MODULE MCTelegramBot ---------------------------
(* TelegramBot on small instances.                                         *)
EXTENDS TelegramBot
=============================================================================
