SPECIFICATION Spec
CONSTANTS
  FragmentSize = 2
  MaxMsgLen = 5
  MaxMessages = 3
INVARIANT SentInCallOrder
CHECK_DEADLOCK FALSE
