CONSTANTS
  k1 = k1
  k2 = k2
  Case <- MCTwoCases
  Assignment = {"office"}
  Primary = "office"
  Start <- MCStart
  Task = {"handover", "exit_interview"}
  Assigned = {"handover"}
  Required = {"handover"}
  Form = {}
  LastDay = 2
  Concurrent = 2
  Upload = {1}
  MaxVersion = 2
SPECIFICATION Spec
SYMMETRY MCSymmetry
INVARIANTS EndedByProtocol ClosedCaseIsSettled SettledContentStands
CHECK_DEADLOCK FALSE
