SPECIFICATION Spec
CONSTANTS
  Sources <- TwoSources
  Incidents = {i1, i2}
  None = None
  MaxTime = 2
  Texts = {t1}
  MaxVersion = 4
PROPERTY StaleNeverOverwritesNewer
CHECK_DEADLOCK FALSE
