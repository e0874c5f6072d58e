CONSTANTS
  l1 = l1
  l2 = l2
  t1 = t1
  Personnel = Personnel
  Leave <- MCTwoLeaves
  Trip = {}
  User = {1}
  Holders <- MCOneReviewer
  LastDay = 4
  YearOf <- MCTwoYears
  Entitled <- MCEntitledTwice
  Clients = {"tasks", "corrections"}
  Concurrent = 2
  MaxPersonnel = 0
SPECIFICATION AbsenceSpec
SYMMETRY MCSymmetry
INVARIANTS BalanceMatchesRequests WithinEntitlement
CHECK_DEADLOCK FALSE
