SPECIFICATION Spec
CONSTANTS
  Pull = {1}
  Desk = {desk}
  MaxActs = 3
CONSTRAINT
  Clean
  DesksApart
INVARIANTS
  TypeOK
  MergedAsReviewed
  LabelsAgree
  MainIsGoverned
PROPERTIES
  ApprovalIsHuman
  EventsAreReviewed
CHECK_DEADLOCK FALSE
