CONSTANTS
  a = a
  b = b
  c = c
  d = d
  Relays = {a, b}
  WORLD = WORLD
  NULL = NULL
  OnTrigger <- Volley
  OnSpawn <- NoSpawn
  RemoveOnFire = {}
  AllowFastRetrigger = {}
  Inputs <- Names
  Outside <- Trigger
  OutsideDelays = {0, 2}
  FrameTime = 2
  ServerTime = 40000
  MaxPending = 2
SPECIFICATION Spec
PROPERTIES NoRapidRefire
