CONSTANTS
  a = a
  b = b
  c = c
  d = d
  Relays = {a}
  WORLD = WORLD
  NULL = NULL
  OnTrigger <- LimitedLast
  OnSpawn <- NoSpawn
  RemoveOnFire = {}
  AllowFastRetrigger = {}
  Inputs <- Names
  Outside <- Trigger
  OutsideDelays = {0, 2}
  FrameTime = 2
  ServerTime = 600
  MaxPending = 2
SPECIFICATION Spec
PROPERTIES LastOutputFirst
