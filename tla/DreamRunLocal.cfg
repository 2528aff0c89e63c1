SPECIFICATION FairSpec
CONSTANTS
  s1 = s1
  g1 = g1
  b1 = b1
  b2 = b2
  Session = {s1}
  MaxEvents = 2
  Gap = {g1}
  Branch = {}
  Mode = "local"
  Overlap = TRUE
  MaxCrashes = 1
PROPERTIES
  EventsBecomeFacts
