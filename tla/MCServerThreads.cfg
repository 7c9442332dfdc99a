CONSTANTS
  MaxClients = 2
  MaxMessages = 3
  MaxPending = 2
SPECIFICATION Spec
CHECK_DEADLOCK FALSE
INVARIANTS
  TypeOK
  NobodyLeftBehind
  PopsWhatWasHandled
  CrashNeedsLeaver
PROPERTIES
  KeepsHomes
  Stops
