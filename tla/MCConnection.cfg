CONSTANTS
  MaxMessages = 4
  Bare = {1, 3}
  Nulls = {4}
SPECIFICATION Spec
CHECK_DEADLOCK FALSE
INVARIANTS
  TypeOK
  OneWrite
  ChainRuns
  WireInOrder
  ArrivedInOrder
PROPERTIES
  EverythingIsSent
  Released
  LeaverIsRemoved
  ImplementsChannel
