CONSTANTS
  s1 = s1
  s2 = s2
  NoRule = NoRule
  Session <- MCSession
  Step <- MCStep
  Edge <- MCEdge
  MaxVersion = 3
  MaxRevision = 4
SPECIFICATION SeededSpec
SYMMETRY MCSymmetry
INVARIANTS SettledRoutesAreValid RunningRoutesAreFixed OnePublishedVersion
CHECK_DEADLOCK FALSE
