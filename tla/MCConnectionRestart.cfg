CONSTANTS
  MaxServerId = 3
  MaxConnects = 1
  MaxInFlight = 2
SPECIFICATION Spec
PROPERTY RestartReachesClients
CHECK_DEADLOCK FALSE
