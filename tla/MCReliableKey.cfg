SPECIFICATION Spec
CONSTANTS
  MAX_RELIABLE_COMMANDS = 4
  ClientWindow = 4
  MaxClientCommands = 2
  MaxServerCommands = 1
  MaxInFlight = 2
  MaxStacked = 1
INVARIANT KeysAgree
CHECK_DEADLOCK FALSE
