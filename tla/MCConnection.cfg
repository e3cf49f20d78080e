CONSTANTS
  MaxServerId = 3
  MaxConnects = 1
  MaxInFlight = 2
SPECIFICATION Spec
INVARIANTS TypeOK EntersOnTheMap OneGameStateInFlight IInv
PROPERTY EndsUpPlaying
CHECK_DEADLOCK FALSE
