CONSTANTS
  Seated = 3
  MaxConnections = 3
  MaxReceived = 4
  MaxPending = 2
  IdRange = 3
  RoomRange = 1
  Words = {"car"}
  Guesses = {"car", "cart"}
  Commands = {0, 1, 2}
SPECIFICATION StartedSpec
CHECK_DEADLOCK FALSE
INVARIANT OnlyRightGuessersStop
