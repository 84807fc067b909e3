\* One networkable slot, the slot MAX_EDICTS that is never used, three others: a
\* node is removed from the head, the middle and the tail of either list. Each
\* slot is vacated up to twice, a full round of serial numbers.
CONSTANTS
  MaxEdicts = 1
  NumEntEntries = 5
  SerialMask = 1
  HandleSerialMask = 3
  ForcedSerials = {}
  Ents = {e1, e2, e3}
  NULL = NULL
  MaxLives = 2
SPECIFICATION WatchSpec
SYMMETRY Symmetry
INVARIANTS HandleFaithful CountsAgree WellLinked LoopSeesAll
PROPERTIES ImplementsTable
CHECK_DEADLOCK FALSE
