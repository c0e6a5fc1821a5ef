SPECIFICATION Spec
CONSTANTS
  Procs = {main, p1, p2}
  Main = main
  Idle = idle
  Reaper = reaper
  Null = null
  SleepTicks = {0, 1}
  TickMod = 3
  SemaInit = 1
  MaxNested = 1
SYMMETRY Symmetry
VIEW LiveState
INVARIANTS
  LinkedOnce
  YieldUnraced
  NobodyLost
  NoUseAfterFree
  ReaperHasCorpse
  SemaphoreWaiters
  MutualExclusion
PROPERTY NoOvertaking
