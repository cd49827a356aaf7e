\* No faults; the device answers as the bench model does.
SPECIFICATION FairSpec
CONSTANTS
  BusShift = 2
  AddrSpace = 8192
  Bases = {16, 64}
  ReadWords = 3
  StrayOps = {}
  MaxCmds = 3
  Ops = {"NONDATA", "PIO_WRITE", "DMA_READ", "DMA_WRITE"}
  Counts = {1, 5, 9}
  Faults = {}
  MaxFaults = 0
  Signature = FALSE
  DevAborts = FALSE
  RegInt = FALSE
  Impatient = FALSE
INVARIANTS
  TypeOK
  FisCarriesCommand
  DmaWriteExact
  EnginesRest
PROPERTIES
  CommandAnswered
