SPECIFICATION GFairSpec
CONSTANTS
  Floor <- SmallFloor
  Channels = {0}
  Writable = {0}
  Readable = {0}
  Base = 2
  Multiple = 2
  Mul = 1
  IdleMin = 0
  Modes = {0, 3}
  Access = {"ALL"}
  Bytes = {0, 1}
  ReadBacks = {{"S"}}
  Masking = {TRUE, FALSE}
  Costs = {1, 3}
  Reader = 0
INVARIANTS WordsAreWhole NoStaleTick WaitWithinPeriod
PROPERTIES UnmaskedTickKept TicksKeepComing
