CONSTANTS
  r1 = r1
  r2 = r2
  Session <- MCSession
  Unit <- MCUnit
  Slot <- MCSlot
  Edit <- MCEdit
  Edited <- MCEdited
  Retirable <- MCRetirable
  Seeded <- MCSeeded
  MaxVersion = 3
  MaxRevision = 4
  LastDay = 3
  Client <- MCSession
  Position = {1, 2}
  UnitType = {3}
  RelationshipType = {5}
  Code = {"HR", "IT"}
  MaxChange = 3
  Place = {"desk"}
  Design <- MCDesign
  Terms <- MCTerms
  MaxEdition = 2
  MaxWork = 2
  Horizon = 3
SPECIFICATION MCSpec
SYMMETRY MCSymmetry
INVARIANTS DraftsStayConnected SettledStructuresAreValid ReviewedAsPublished NoticedWorkKeepsItsPlace
PROPERTIES TimelineSpec CatalogChangesAreSerial
CHECK_DEADLOCK FALSE
