SPECIFICATION Spec
CONSTANTS
  RingSize = 4
  RingHigh = 1
  ClearCount = 3
  FifoSize = 4
  FifoHigh = 1
  LineRoom = 1
  LastByte = 5
  Inverted = TRUE
  Setups <- Senders
INVARIANTS ReadyWhenSent
