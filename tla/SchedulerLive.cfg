SPECIFICATION FairSpec
CONSTANTS
  Procs = {main, p1}
  Main = main
  Idle = idle
  Reaper = reaper
  Null = null
  SleepTicks = {0, 1}
  TickMod = 2
  SemaInit = 1
  MaxNested = 1
VIEW LiveState
PROPERTIES
  ReadyRuns
  SleeperWakes
  DeadReaped
  WaiterEnters
