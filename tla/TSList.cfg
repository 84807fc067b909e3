CONSTANTS
  t1 = t1
  t2 = t2
  Threads = {t1, t2}
  Nodes = {n1, n2, n3}
  Lists = {"list", "free"}
  NULL = NULL
  SeqSize = 3
  MaxHeld = 1
SPECIFICATION MCSpec
SYMMETRY Symmetry
INVARIANTS Linked
PROPERTIES ImplementsLists
CHECK_DEADLOCK FALSE
