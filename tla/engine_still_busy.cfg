\* The link drops during a DMA read.
SPECIFICATION Spec
CONSTANTS
  BusShift = 2
  AddrSpace = 8192
  Bases = {16}
  ReadWords = 2
  StrayOps = {}
  MaxCmds = 2
  Ops = {"DMA_READ"}
  Counts = {1}
  Faults = {"drop"}
  MaxFaults = 1
  Signature = FALSE
  DevAborts = FALSE
  RegInt = FALSE
  Impatient = FALSE
INVARIANT RequestOnlyWhenFree
