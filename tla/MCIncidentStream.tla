-------------------------- MODULE MCIncidentStream --------------------------
(* IncidentStream on small instances: two versions, relays and consumers.  *)
EXTENDS IncidentStream
=============================================================================
