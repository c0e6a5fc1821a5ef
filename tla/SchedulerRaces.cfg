SPECIFICATION Spec
CONSTANTS
  Procs = {main, p1}
  Main = main
  Idle = idle
  Reaper = reaper
  Null = null
  SleepTicks = {1}
  TickMod = 3
  SemaInit = 1
  MaxNested = 2
INVARIANTS
  YieldInvariant
