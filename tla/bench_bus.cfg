\* The bus functions on three clocks; a bench that stops calling is no deadlock.
SPECIFICATION Spec
CONSTANTS
  Interval <- ShortIntervals
  BOMBCOUNT = 4
  Addrs = {0, 1}
  Lens = {1, 3}
INVARIANTS
  TypeOK
  TickAsserts
  NoSilentLoss
  BusLeftIdle
PROPERTIES
  NoEdgeSkipped
  BombOnlyFromHigh
  CallReturns
