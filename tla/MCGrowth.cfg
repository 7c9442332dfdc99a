CONSTANTS
  Seated = 2
  MaxConnections = 3
  MaxReceived = 4
  MaxPending = 2
  IdRange = 3
  RoomRange = 2
  Words = {"car"}
  Guesses = {"car", "cart"}
  Commands = {0, 1, 2}
SPECIFICATION GameSpec
CHECK_DEADLOCK FALSE
INVARIANT SomebodyDraws
