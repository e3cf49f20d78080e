SPECIFICATION Spec
CONSTANTS
  MAX_RELIABLE_COMMANDS = 2
  ClientWindow = 4
  MaxClientCommands = 4
  MaxServerCommands = 1
  MaxInFlight = 2
  MaxStacked = 0
INVARIANT ClientCommandsKept
CHECK_DEADLOCK FALSE
