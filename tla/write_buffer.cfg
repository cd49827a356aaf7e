\* A DMA write of more than one data FIS.
SPECIFICATION Spec
CONSTANTS
  BusShift = 2
  AddrSpace = 8192
  Bases = {16}
  ReadWords = 1
  StrayOps = {}
  MaxCmds = 1
  Ops = {"DMA_WRITE"}
  Counts = {5}
  Faults = {}
  MaxFaults = 0
  Signature = FALSE
  DevAborts = FALSE
  RegInt = FALSE
  Impatient = FALSE
INVARIANT ChunksCoverBuffer
