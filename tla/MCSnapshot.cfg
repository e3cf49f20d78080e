CONSTANTS
  Entity <- MCEntity
  Value <- MCValue
  Scene <- MCScene
  OtherScene <- MCOtherScene
  Baseline <- MCBaseline
  PACKET_BACKUP = 3
  DeltaMargin = 0
  NumSnapshotEntities = 5
  MAX_PARSE_ENTITIES = 4
  ParseMargin = 2
  MaxMaps = 2
  MaxSequence = 5
  MaxEntitiesStored <- MCMaxEntitiesStored
  MaxDown = 2
  MaxUp = 1
SPECIFICATION Spec
INVARIANTS SnapshotExact ForeignSnapshotFlagged BaseReceived IInv
PROPERTIES SnapshotsSettled
CHECK_DEADLOCK FALSE
