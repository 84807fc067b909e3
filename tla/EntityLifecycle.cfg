\* Three entities: a removed one, its child and a bystander, or three
\* generations. The frame loop is fair (no symmetry: liveness).
CONSTANTS
  e1 = e1
  e2 = e2
  e3 = e3
  Ents = {e1, e2, e3}
  NULL = NULL
SPECIFICATION MCSpec
INVARIANTS NoDangling PendingOnce RegistriesForget
PROPERTIES EventuallyFreed
