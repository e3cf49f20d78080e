SPECIFICATION FairSpec
CONSTANTS
  FragmentSize = 2
  MaxMsgLen = 5
  MaxMessages = 3
INVARIANTS TypeOK SequenceNotReused DeliveredWhole DeliveredInOrder
PROPERTIES ImplementsChannel LastPacketSent
CHECK_DEADLOCK FALSE
