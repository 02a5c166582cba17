--------------------------- MODULE MCProviderFeed ---------------------------
(* ProviderFeed on small instances.                                        *)
EXTENDS ProviderFeed

\* The feed of USGS reaches back farther than the age at which a recovery is
\* due, the polls of EMSC just that far.
FeedLookback == [p \in Providers |-> IF p = "usgs" THEN 2 ELSE 1]
=============================================================================
