SPECIFICATION Spec
CONSTANTS
  Floor <- SmallFloor
  Channels = {0, 1, 2}
  Writable = {1, 2}
  Readable = {1}
  Base = 2
  Multiple = 1
  Mul = 1
  IdleMin = 6
  Modes = {0, 1, 2, 5}
  Access = {"H"}
  Bytes = {1}
  ReadBacks = {{"C"}}
  Masking = {FALSE}
  Costs = {3}
INVARIANTS TypeOK TimerNeverStops BeepHasAnEnd
