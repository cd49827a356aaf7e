\* The device sets the I bit of its status FIS.  With PIO reads alone the
\* property is violated without it.
SPECIFICATION Spec
CONSTANTS
  BusShift = 2
  AddrSpace = 8192
  Bases = {16}
  ReadWords = 1
  StrayOps = {}
  MaxCmds = 1
  Ops = {"DMA_READ", "PIO_READ"}
  Counts = {1}
  Faults = {}
  MaxFaults = 0
  Signature = FALSE
  DevAborts = FALSE
  RegInt = TRUE
  Impatient = FALSE
INVARIANT InterruptMeansLanded
