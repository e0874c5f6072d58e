CONSTANTS
  x1 = x1
  x2 = x2
  Session <- MCSession
  Stages = 3
  MaxCycle = 2
  MaxVersion = 1
SPECIFICATION Spec
SYMMETRY MCSymmetry
INVARIANTS OpenCaseCanGoOn
