CONSTANTS
  Seated = 4
  MaxConnections = 4
  MaxReceived = 2
  MaxPending = 2
  IdRange = 4
  RoomRange = 1
  Words = {"car"}
  Guesses = {"car", "cart"}
  Commands = {0, 1, 2, 3}
SPECIFICATION StartedSpec
CHECK_DEADLOCK FALSE
INVARIANT GuessedRightStopsGuessing
