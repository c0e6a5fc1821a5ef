SPECIFICATION FairSpec
CONSTANTS
  Boot = idle
  Reaper = reaper
  Main = main
  Proc1 = proc_1
  Proc2 = proc_2
  Width = 5
  FifoSize = 2
  Rounds = 2
INVARIANTS ConsoleInv OutputWhole
PROPERTY EveryLineOut
