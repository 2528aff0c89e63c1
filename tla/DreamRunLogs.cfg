SPECIFICATION Spec
CONSTANTS
  s1 = s1
  g1 = g1
  b1 = b1
  b2 = b2
  Session = {s1}
  MaxEvents = 2
  Gap = {}
  Branch = {b1}
  Mode = "hybrid"
  Overlap = FALSE
  MaxCrashes = 0
PROPERTIES
  SessionsKeepEvents
