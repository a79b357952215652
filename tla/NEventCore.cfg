SPECIFICATION FairSpec
CONSTANTS
  flames = flames
  timer = timer
  irq = irq
  ID = {flames, timer, irq}
  Flames = flames
  Periodic = {timer}
  Guarded = {irq}
  Resettable = {timer}
  IoRelative = {}
  Delays = {1, 3}
  DispClock = 4
  VsyncClock = 2
  MaxClock = 3
  Costs = {1, 3}
  Multiples = {1}
  StaleBound = 0
  ClockMod = 4
INVARIANTS TypeOK NoOverrun LateByOneInstruction ClockTellsPending
PROPERTIES TimePreserved FrameEnds
