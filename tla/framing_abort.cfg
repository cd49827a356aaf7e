SPECIFICATION Spec
CONSTANTS
  SectorWords = 3
  MaxDataWords = 6
  MaxAlign = 24
  Watchdog = 40
  MinAlignment = 2
  Extend = 3
  HostWords = 3
  Cross = 6
  AlignTimeout = 17
  DmaStall = 40
  PioStall = 3
  Lag = 3
  FullFor = 3
  Departures = {{"d2h"}}
  Phases = {5, 11}
  Bad = {"WTRM"}
  IntTimeout = 150
  GapTicks = 25
INVARIANT AbortHeard
