CONSTANTS
  MaxEdicts = 1
  NumEntEntries = 4
  SerialMask = 1
  HandleSerialMask = 3
  ForcedSerials = {}
  Ents = {e1, e2, e3}
  NULL = NULL
  MaxLives = 2
SPECIFICATION WatchSpec
SYMMETRY Symmetry
PROPERTIES OnlyTheDestroyedIsUnlisted
CHECK_DEADLOCK FALSE
