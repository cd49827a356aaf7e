\* The link drops, a FIS is damaged, the PHY is reset or a command is
\* written out of turn, once, at any point of two commands.
SPECIFICATION Spec
CONSTANTS
  BusShift = 2
  AddrSpace = 8192
  Bases = {16}
  ReadWords = 1
  StrayOps = {"DMA_WRITE"}
  MaxCmds = 2
  Ops = {"NONDATA", "PIO_READ", "DMA_READ"}
  Counts = {2}
  Faults = {"drop", "abort", "phy", "cmd"}
  MaxFaults = 1
  Signature = TRUE
  DevAborts = FALSE
  RegInt = FALSE
  Impatient = FALSE
INVARIANTS
  KnownCmdOnlyWhenIdle
PROPERTIES
  CmdTypeStable
  EveryReturnInterrupts
