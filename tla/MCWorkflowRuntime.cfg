CONSTANTS
  x1 = x1
  x2 = x2
  NoStep = NoStep
  NoTask = NoTask
  Step <- MCStep
  User <- MCUser
  Session <- MCSession
  Routes <- MCRoutes
  Holders <- MCHolders
  Delegates <- MCDelegates
SPECIFICATION Spec
SYMMETRY MCSymmetry
INVARIANTS ActiveHasTask StepsAreEarned
PROPERTY DecisionsStay
