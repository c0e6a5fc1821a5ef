SPECIFICATION Spec
CONSTANTS
  Threads = {t1, t2}
  Boot = boot
  Sources <- MCSources
  Noisy <- MCNoisy
  ARM_TIMER = 64
  MaxNest = 2
PROPERTY FlagsKept
