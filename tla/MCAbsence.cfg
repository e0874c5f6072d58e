CONSTANTS
  l1 = l1
  l2 = l2
  t1 = t1
  Personnel = Personnel
  Leave <- MCOneLeave
  Trip <- MCOneTrip
  User = {1, 2}
  Holders <- MCTwoHR
  LastDay = 2
  YearOf <- MCSameYear
  Entitled <- MCEntitled
  Clients = {"tasks", "absences", "corrections"}
  Concurrent = 2
  MaxPersonnel = 1
SPECIFICATION AbsenceSpec
INVARIANTS CalendarShowsApproved RequestFollowsProcess
PROPERTY OverlapsWereUnseen
CHECK_DEADLOCK FALSE
