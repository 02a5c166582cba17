SPECIFICATION Spec
CONSTANTS
  Sources <- ThreeSources
  Incidents = {i1, i2}
  None = None
  MaxTime = 3
  Texts = {t1}
  MaxVersion = 4
SYMMETRY CatalogueSymmetry
INVARIANTS CanonicalMatchesPreferred LifecycleIsResolved EveryVersionAnnounced
PROPERTIES LifecycleFallsOnlyByRetraction RetractionIsFinal
CHECK_DEADLOCK FALSE
