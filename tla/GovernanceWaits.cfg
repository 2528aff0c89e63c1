SPECIFICATION Spec
CONSTANTS
  Pull = {1}
  Desk = {desk}
  MaxActs = 1
PROPERTIES
  ApprovedMerges
CHECK_DEADLOCK FALSE
