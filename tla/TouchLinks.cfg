CONSTANTS
  e1 = e1
  e2 = e2
  e3 = e3
  Ents = {e1, e2, e3}
  Triggers = {e3}
  Meets <- MCMeets
  Contacts <- MCContacts
  NULL = NULL
  ROOT = ROOT
  MaxCalls = 2
SPECIFICATION MCSpec
INVARIANTS TypeOK WalkSafe StartedIsLinked EndedWhenFreed StaleChecked
CHECK_DEADLOCK FALSE
