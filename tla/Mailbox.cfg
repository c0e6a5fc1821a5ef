SPECIFICATION FairSpec
CONSTANTS
  Program <- KernelCalls
  Blocks = {64, 192}
  BlockWords = 28
  Stale = 9
  Depth = 2
  OtherMail = {193}
  MaxOther = 2
  MaxFaults = 2
CHECK_DEADLOCK FALSE
INVARIANTS MailboxInv BufferFreed
PROPERTIES WritesInBuffer AnswersInPlace CallsReturn
