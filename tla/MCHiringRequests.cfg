CONSTANTS
  c1 = c1
  c2 = c2
  high = high
  school = school
  blank = blank
  x1 = x1
  None = None
  Client <- MCClient
  Form <- MCForm
  Incomplete <- MCIncomplete
  Secondary <- MCSecondary
  File <- MCFile
  Stages = 3
  MaxCycle = 2
SPECIFICATION FairSpec
INVARIANTS ApprovedByEveryStage StagesAreDecidedAsSeen HiredWhenBothAcknowledged
PROPERTY FinalApprovalGivesFinalPdf
