CONSTANTS
  a = a
  b = b
  c = c
  d = d
  Relays = {a, b, c, d}
  WORLD = WORLD
  NULL = NULL
  OnTrigger <- Ring
  OnSpawn <- RingSpawn
  RemoveOnFire = {c}
  AllowFastRetrigger = {b}
  Inputs <- Names
  Outside <- Calls
  OutsideDelays = {2}
  FrameTime = 2
  ServerTime = 20000
  MaxPending = 2
SPECIFICATION FairSpec
INVARIANTS TypeOK RefirePending
PROPERTIES LastOutputFirst AllPosted OnlyOwnCancel PassEnds WakesUp
