CONSTANTS
  Seated = 0
  MaxConnections = 2
  MaxReceived = 2
  MaxPending = 2
  IdRange = 2
  RoomRange = 1
  Words = {"car"}
  Guesses = {"car", "cart"}
  Commands = {0, 1}
SPECIFICATION GameSpec
CHECK_DEADLOCK FALSE
INVARIANT SearchEnds
