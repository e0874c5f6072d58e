CONSTANTS
  r1 = r1
  r2 = r2
  ann = ann
  bob = bob
  Session <- MCSession
  Employee <- MCEmployee
  Slot <- MCSlot
  SlotFte <- MCSlotFte
  Staff <- MCStaff
  Proposal <- MCProposal
  Edit <- MCEdit
  Whole = 2
  MaxAssignment = 3
  MaxRevision = 2
  LastDay = 3
  Today = 2
  Actor <- MCActor
  Unit = {"head", "dept", "team"}
  Root = "head"
  MaxPublished = 2
SPECIFICATION MCSpec
SYMMETRY MCSymmetry
INVARIANTS CapacityIsKept ApprovedBeforeWork ScopesAgree ListedIsWithinScope
PROPERTIES SettledAssignmentsStay TerminationDateStands
CHECK_DEADLOCK FALSE
