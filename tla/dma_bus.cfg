\* The two DMA engines on the bench's memory.
SPECIFICATION Spec
CONSTANTS
  Delays = {1, 3}
  Words = 2
  Values = {0, 1}
  Starts = {0, 1}
  PipeFull = 1022
INVARIANTS
  TypeOK
  AnswersAreOwed
  OwnerKeepsCycle
  TransfersWhole
PROPERTIES
  BothServed
