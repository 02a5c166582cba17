---------------------------- MODULE MCPublicView ---------------------------
(* PublicView on small instances.                                          *)
EXTENDS PublicView

\* One list of each kind: the stream's, both other orders, and lists of the
\* administration with a key that changes, and with one that does not.
EveryKindOfList ==
  {"occurred_at_desc", "occurred_at_asc", "magnitude_desc", "incidents", "audit"}

NotificationTabs == {"telegram_private", "telegram_channel", "webhook"}
=============================================================================
