SPECIFICATION Spec
CONSTANTS
  s1 = s1
  g1 = g1
  b1 = b1
  b2 = b2
  Session = {s1}
  MaxEvents = 1
  Gap = {g1}
  Branch = {b1}
  Mode = "remote"
  Overlap = TRUE
  MaxCrashes = 1
INVARIANTS
  GatheredIsDurable
  GatheredGapsSurvive
