SPECIFICATION Spec
CONSTANTS
  SectorWords = 3
  MaxDataWords = 6
  MaxAlign = 24
  Watchdog = 40
  MinAlignment = 2
  Extend = 3
  HostWords = 3
  Cross = 6
  AlignTimeout = 17
  DmaStall = 40
  PioStall = 10
  Lag = 3
  FullFor = 3
  Departures = {{"slip"}, {"stall"}, {"full"}, {"phase"}, {"h2d"}, {"d2h"}, {"idle"},
    {"d2h", "stall"}, {"slip", "h2d"}, {"slip", "stall"}, {"stall", "full"}, {"bus"}, {"slip", "bus"}, {"bus", "d2h"}}
  Phases = {5, 11}
  Bad = {"SYNC", "PMREQ", "HOLD"}
  IntTimeout = 150
  GapTicks = 25
INVARIANTS
  TypeOK
  Listened
  UpTogether
  AcceptedExact
  IntMeansData
  IntMeansStored
  CleanPass
  OwnVerdict
PROPERTIES
  LinkSettles
