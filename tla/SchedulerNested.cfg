SPECIFICATION Spec
CONSTANTS
  Procs = {main, p1}
  Main = main
  Idle = idle
  Reaper = reaper
  Null = null
  SleepTicks = {1}
  TickMod = 2
  SemaInit = 1
  MaxNested = 2
VIEW LiveState
INVARIANTS CountRaceInv
