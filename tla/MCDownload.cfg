CONSTANTS
  Blocks <- MCBlocks
  RefusedSets <- MCRefusedSets
  UnwritableSets <- MCUnwritableSets
  MAX_DOWNLOAD_WINDOW = 3
  BlocksPerSnap = 2
  ShortMax = 6
  MaxCommands = 6
  MaxInFlight = 3
SPECIFICATION Spec
INVARIANTS TypeOK NeverBroken
PROPERTIES ImplementsTransfer FilesComplete
CHECK_DEADLOCK FALSE
