CONSTANTS
  l1 = l1
  l2 = l2
  t1 = t1
  Personnel = Personnel
  Leave <- MCOneLeave
  Trip <- MCOneTrip
  User = {1}
  Holders <- MCOneReviewer
  LastDay = 2
  YearOf <- MCSameYear
  Entitled <- MCEntitled
  Clients = {}
  Concurrent = 2
  MaxPersonnel = 0
SPECIFICATION AbsenceSpec
INVARIANT NoOverlappingRequests
CHECK_DEADLOCK FALSE
