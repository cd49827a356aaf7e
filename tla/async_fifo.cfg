\* Four words deep, two words of data, one reset at any time.
SPECIFICATION FairSpec
CONSTANTS
  Data = {"a", "b"}
  LGFIFO = 2
  MaxResets = 1
INVARIANTS
  TypeOK
  NeverAhead
PROPERTIES
  FifoSpec
  RoomAgain
  Delivered
