CONSTANTS
  Seated = 2
  MaxConnections = 3
  MaxReceived = 3
  MaxPending = 2
  IdRange = 3
  RoomRange = 1
  Words = {"car", "tree"}
  Guesses = {"car", "tree"}
  Commands = {0, 1, 2}
SPECIFICATION StartedSpec
CHECK_DEADLOCK FALSE
INVARIANTS
  PlayersKnowTheirRole
  GuessersSeeTheCanvas
