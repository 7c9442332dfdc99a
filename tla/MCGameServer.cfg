CONSTANTS
  MaxConnections = 4
  MaxReceived = 5
  MaxPending = 2
  IdRange = 3
  RoomRange = 2
  Words = {"car"}
  Guesses = {"car", "cart"}
  Commands = {"stroke"}
SPECIFICATION Spec
CHECK_DEADLOCK FALSE
VIEW WithoutOutgoing
INVARIANTS
  TypeOK
  OneHome
  DrawerIsMember
  WaitingRoomNeverOverruns
  OverrunNeedsGrowth
  RoundEndsWhenAllGuessed
PROPERTY KeepsHomes
