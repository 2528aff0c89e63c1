SPECIFICATION Spec
CONSTANTS
  m1 = m1
  m2 = m2
  n1 = n1
  n2 = n2
  Proc = {m1, m2}
  MaxActs <- Acts
  Statement = {n1, n2}
  Clash <- Opposed
  Code = {n2}
  NPaths = 2
  MaxId = 2
  Unsaid = Unsaid
  FactId = {m1, m2}
  Project = {m1, m2, m3}
  Topic = {m1, m2}
  MinRepos = 3
  MaxPromotions = 2
  MaxFacts = 3
  MaxEdits = 1
  Document = {m1, m2}
  MaxVersions = 3
  MaxRevs = 1
SYMMETRY Alike
CONSTRAINT
  Unbroken
INVARIANTS
  TypesHold
  FactsAreKept
  ActionsAreWhole
  PromotionsAreWhole
  ImportsAreWhole
PROPERTIES
  ChangesAreClean
CHECK_DEADLOCK FALSE
