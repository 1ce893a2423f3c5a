\* Two asks count the steps of two tools at the same time.
SPECIFICATION Spec
CONSTANTS
  x = x  y = y  hyb = hyb  ext = ext
  Tool = {hyb, ext}
  Prefix <- MCPrefix
  External = {ext}
  Allowed = {"STR_H", "STR_E_FJ_H"}
  FallbackOrder <- MCFallbackOrder
  PreferHybridCot = TRUE
  Ask = {x, y}
  Threshold = 3
  MaxUpdates = 6
INVARIANTS TypeOK FailuresAreReal HealthIsExact StrategyAllowed SelectionWasHealthy
