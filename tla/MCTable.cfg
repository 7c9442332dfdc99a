CONSTANTS
  Seated = 2
  MaxConnections = 2
  MaxReceived = 4
  MaxPending = 2
  IdRange = 2
  RoomRange = 2
  Words = {"car"}
  Guesses = {"car", "cart"}
  Commands = {0, 1}
SPECIFICATION GameSpec
CHECK_DEADLOCK FALSE
INVARIANTS
  GameTypeOK
  PlayersKnowTheirRole
  GuessersSeeTheCanvas
PROPERTIES
  QueueIsEmptied
  CreatorGetsARoom
  KeepsChannels
