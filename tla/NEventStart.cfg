SPECIFICATION Spec
CONSTANTS
  flames = flames
  timer = timer
  irq = irq
  ID = {flames, timer, irq}
  Flames = flames
  Periodic = {timer}
  Guarded = {}
  Resettable = {timer}
  IoRelative = {timer}
  Delays = {1, 2}
  DispClock = 3
  VsyncClock = 2
  MaxClock = 4
  Costs = {1, 2}
  Multiples = {1}
  StaleBound = 4
  ClockMod = 1
PROPERTIES StartWaitsItsDelay
