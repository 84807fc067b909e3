CONSTANTS
  Events = {e1, e2, e3}
  HEAD = HEAD
  NULL = NULL
  relay = relay
  npc = npc
  Ents = {relay, npc}
  Inputs = {"Trigger", "Jolt"}
  Posts <- ThreePosts
  Delays = {0, 1}
  MaxTime = 2
  SaveTime = 1
SPECIFICATION SessionSpec
SYMMETRY Symmetry
INVARIANTS InOrder PointersLive
PROPERTIES ImplementsSchedule
