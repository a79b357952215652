SPECIFICATION FairSpec
CONSTANTS
  RingSize = 4
  RingHigh = 1
  ClearCount = 3
  FifoSize = 4
  FifoHigh = 1
  LineRoom = 1
  LastByte = 5
  Inverted = FALSE
  Setups <- Lines
INVARIANTS TypeOK SentInOrder ReceivedInOrder
PROPERTIES TrafficFlows
