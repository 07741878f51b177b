\* One request at a time, changes that start on the first or last of three days.
CONSTANTS
  Units = {u1, u2}
  Root = Root
  NoParent = NoParent
  Clients = {c1}
  NoPayload = NoPayload
  Horizon = 2
  Starts <- FirstAndLast
  Recreate = TRUE
SPECIFICATION Spec
INVARIANTS TypeOK
PROPERTIES ParentKept MovesReachRoot StaysInTree
SYMMETRY Interchangeable
CHECK_DEADLOCK TRUE
