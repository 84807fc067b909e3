CONSTANTS
  e1 = e1
  e2 = e2
  e3 = e3
  e4 = e4
  Ents = {e1, e2, e3, e4}
  NULL = NULL
  Networked = {e1, e2, e4}
  DontSave = {e1}
SPECIFICATION MCSpec
INVARIANTS ListsSound ChildrenListed
PROPERTIES RestoreKeepsParent
CHECK_DEADLOCK FALSE
