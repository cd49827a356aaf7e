\* DMA bus errors, a buffer past the end of memory, and commands the device
\* refuses.
SPECIFICATION Spec
CONSTANTS
  BusShift = 2
  AddrSpace = 8192
  Bases = {16, 8188}
  ReadWords = 2
  StrayOps = {}
  MaxCmds = 2
  Ops = {"NONDATA", "PIO_WRITE", "DMA_READ", "DMA_WRITE"}
  Counts = {1, 5}
  Faults = {"write_err", "read_err"}
  MaxFaults = 2
  Signature = FALSE
  DevAborts = TRUE
  RegInt = FALSE
  Impatient = TRUE
INVARIANTS
  NoSilentLoss
  PulseHasStatus
  RequestOnlyWhenFree
