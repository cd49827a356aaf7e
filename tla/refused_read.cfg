\* The device refuses a DMA read.
SPECIFICATION FairSpec
CONSTANTS
  BusShift = 2
  AddrSpace = 8192
  Bases = {16}
  ReadWords = 1
  StrayOps = {}
  MaxCmds = 1
  Ops = {"DMA_READ"}
  Counts = {1}
  Faults = {}
  MaxFaults = 0
  Signature = FALSE
  DevAborts = TRUE
  RegInt = FALSE
  Impatient = FALSE
PROPERTY NeverStuck
