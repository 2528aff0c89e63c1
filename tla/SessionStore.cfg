SPECIFICATION KeepSpec
CONSTANTS
  Absent = Absent
  Torn = Torn
  Session = {s1, s2}
  Event = {e1, e2}
  Binary = {}
  Unsafe = {}
  Proc = {p1, p2}
  Overlap = TRUE
  MaxCrashes = 1
SYMMETRY
  TurnsAlike
CONSTRAINT
  Clean
  OneIsLong
INVARIANTS
  TypeOK
  EventsKept
  ArchivedIsIndexed
