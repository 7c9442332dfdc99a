CONSTANTS
  MaxMessages = 5
  HeaderSize = 2
  PayloadSize = 2
  Plain = {1, 2}
  RoomIds = {2}
  Empty = {4}
SPECIFICATION Spec
CHECK_DEADLOCK FALSE
INVARIANTS
  TypeOK
  HandledInOrder
PROPERTIES
  ReaderEnds
  CloseReturnsUnlessInterrupted
