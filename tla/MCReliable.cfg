SPECIFICATION Spec
CONSTANTS
  MAX_RELIABLE_COMMANDS = 2
  ClientWindow = 2
  MaxClientCommands = 4
  MaxServerCommands = 3
  MaxInFlight = 2
  MaxStacked = 0
INVARIANTS ExecutedInOrder AcknowledgementsSound NeverLost
  GameGetsEveryCommand IInv
PROPERTIES ImplementsStreams
CHECK_DEADLOCK FALSE
