SPECIFICATION FairSpec
CONSTANTS
  Image <- SmallImage
  ChunkWords = 2
  LoadAddr = 1
  Junk = 5
  MaxErrors = 2
  MaxLost = 1
CHECK_DEADLOCK FALSE
INVARIANTS SerialInv KernelIntact WroteMeansStored
PROPERTIES SingleErrorHarmless HostFinishes KernelStarts
