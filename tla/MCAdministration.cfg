CONSTANTS
  x1 = x1
  x2 = x2
  ann = ann
  bob = bob
  cyd = cyd
  root = root
  Session <- MCSession
  Publisher <- MCSession
  Request <- MCSession
  User <- MCUser
  Period <- MCPeriod
  Field = {"name", "date"}
  MaxVersion = 2
  MaxRevision = 3
  Document = {"order"}
  MaxTemplate = 3
  LastMoment = 2
  Code = {"clerk"}
  MaxAssignment = 3
  MaxDelegation = 2
SPECIFICATION MCSpec
SYMMETRY MCSymmetry
INVARIANTS OneDelegationAtATime AccessIsEarned
PROPERTIES PublishedFormsStand OneTemplateIsPublished
CHECK_DEADLOCK FALSE
