---------------------------- MODULE MCCatalogue ----------------------------
(* Catalogue on small instances.                                           *)
EXTENDS Catalogue, TLC

\* Two providers that may describe the same earthquake.
TwoSources == {<<"usgs", 1>>, <<"emsc", 1>>}

\* A third catalogue, between the two in priority.
ThreeSources == TwoSources \cup {<<"geofon", 1>>}

CatalogueSymmetry == Permutations(Incidents) \cup Permutations(Texts)
=============================================================================
