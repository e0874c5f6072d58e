CONSTANTS
  x1 = x1
  x2 = x2
  Session <- MCSession
  Stages = 4
  MaxCycle = 3
  MaxVersion = 4
  r1 = r1
  c1 = c1
  c2 = c2
  Handler <- MCHandler
  Candidate <- MCCandidate
  Channel = {"internal"}
  Commission <- MCCommission
  Task = {"badge"}
  MaxTasks = 1
  Document = {"contract"}
SPECIFICATION MCSpec
SYMMETRY MCSymmetry
INVARIANTS OneActiveExecution CompletedCasePassedEveryStage SignedFormIsNewest HiredByProtocol ClosedCaseIsSettled
